----------------------------- MODULE MCDispatch -----------------------------
(***************************************************************************)
(* TLC's instance of Dispatch: three planned tasks, one of which depends on *)
(* another, as many workers at once as MaxWorkers and the exit handlers in  *)
(* flight beside them can need.                                             *)
(***************************************************************************)
EXTENDS Dispatch, TLC

CONSTANTS a, b, c

MCTask == {a, b, c}
MCPlanDeps == a :> {} @@ b :> {} @@ c :> {a, b}
MCPlanParent == [t \in MCTask |-> NoTask]
MCPlanPriority == [t \in MCTask |-> 2]
=============================================================================
