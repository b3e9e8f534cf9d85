---------------------------- MODULE MCTaskQueue ----------------------------
(***************************************************************************)
(* TLC's instance of TaskQueue: the plan is TASK-01 (a), which may be       *)
(* broken down into TASK-01.1 and TASK-01.2 (a1, a2), at once or one after  *)
(* the other; DISC-01 (d) may be discovered and depends on a.  A run starts *)
(* afresh, or resumes with a done or interrupted (the latter counts only if *)
(* something was done, here DISC-01).                                       *)
(***************************************************************************)
EXTENDS TaskQueue, TLC

CONSTANTS a, a1, a2, d

MCTask == {a, a1, a2, d}
MCSeries == [t \in MCTask |-> IF t = d THEN "DISC" ELSE "TASK"]
MCParentId == [t \in MCTask |-> IF t \in {a1, a2} THEN a ELSE NoTask]
MCNumber == [t \in MCTask |-> IF t = a2 THEN 2 ELSE 1]
MCPlan == {a}
MCPlanDeps == a :> {}
MCPlanParent == a :> NoTask
MCPlanPriority == a :> 2
MCDiscoveries == {{a}}
MCSnapshots == {NoSnapshot,
                [completed |-> {a}, failed |-> {}, claimed |-> {a}],
                [completed |-> {d}, failed |-> {}, claimed |-> {a}]}
=============================================================================
