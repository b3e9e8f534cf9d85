--------------------------- MODULE TaskLifecycle ---------------------------
(***************************************************************************)
(* What a user of the coordination tool is promised about a planned task    *)
(* (README.md of the repository, "Task Status Flow"): it is pending until   *)
(* all of its dependencies are complete and someone claims it; work on it   *)
(* begins only while it is claimed; when the work has ended it is complete, *)
(* failed, or pending again for another attempt; complete and failed are    *)
(* final.                                                                   *)
(***************************************************************************)
CONSTANTS Task, Deps

VARIABLES
    stage,  \* the status of each task
    busy    \* the tasks a worker is working on

vars == <<stage, busy>>

Init ==
    /\ stage = [t \in Task |-> "pending"]
    /\ busy = {}

Move(t, from, to) ==
    /\ stage[t] = from
    /\ t \notin busy
    /\ stage' = [stage EXCEPT ![t] = to]
    /\ UNCHANGED busy

Claim(t) ==
    /\ \A d \in Deps[t] : stage[d] = "complete"
    /\ Move(t, "pending", "claimed")

Complete(t) == Move(t, "claimed", "complete")
Fail(t)     == Move(t, "claimed", "failed")
Return(t)   == Move(t, "claimed", "pending")

Begin(t) ==
    /\ stage[t] = "claimed"
    /\ t \notin busy
    /\ busy' = busy \cup {t}
    /\ UNCHANGED stage

End(t) ==
    /\ t \in busy
    /\ busy' = busy \ {t}
    /\ UNCHANGED stage

Next == \E t \in Task : \/ Claim(t) \/ Complete(t) \/ Fail(t) \/ Return(t)
                        \/ Begin(t) \/ End(t)

Spec == Init /\ [][Next]_vars
=============================================================================
