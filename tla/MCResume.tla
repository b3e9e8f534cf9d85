------------------------------ MODULE MCResume ------------------------------
(***************************************************************************)
(* TLC's instance of Resume: two tasks, a third that depends on both, and   *)
(* two crashes.                                                             *)
(***************************************************************************)
EXTENDS Resume, TLC

CONSTANTS a, b, c

MCTask == {a, b, c}
MCPlanDeps == a :> {} @@ b :> {} @@ c :> {a, b}
MCPlanParent == [t \in MCTask |-> NoTask]
MCPlanPriority == [t \in MCTask |-> 2]
MCSymmetry == Permutations({a, b})
=============================================================================
