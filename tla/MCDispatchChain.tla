-------------------------- MODULE MCDispatchChain --------------------------
(***************************************************************************)
(* TLC's second instance of Dispatch: one task waits for the other, and one  *)
(* worker at a time is wanted.                                              *)
(***************************************************************************)
EXTENDS Dispatch, TLC

CONSTANTS a, b

MCTask == {a, b}
MCPlanDeps == a :> {} @@ b :> {a}
MCPlanParent == [t \in MCTask |-> NoTask]
MCPlanPriority == [t \in MCTask |-> 2]
=============================================================================
