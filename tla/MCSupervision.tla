--------------------------- MODULE MCSupervision ---------------------------
(***************************************************************************)
(* TLC's instance of Supervision: one task whose worker has been started,   *)
(* one that an earlier call left claimed, and workers of either kind.       *)
(***************************************************************************)
EXTENDS Supervision, TLC

CONSTANTS a, b

MCTask == {a, b}
MCPlanDeps == [t \in MCTask |-> {}]
MCPlanParent == [t \in MCTask |-> NoTask]
MCPlanPriority == [t \in MCTask |-> 2]
=============================================================================
