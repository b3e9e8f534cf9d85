---------------------------- MODULE ResumeProofs ----------------------------
(***************************************************************************)
(* Theorems about crashes and resumes, for every plan and any number of     *)
(* crashes.                                                                 *)
(*                                                                          *)
(* That claimed tasks have their dependencies built is not inductive: the   *)
(* queue after a resume comes from progress.json, and progress.json from a  *)
(* snapshot that was taken before it was written.  The invariant says of    *)
(* all three that they only call complete what has been built.              *)
(***************************************************************************)
EXTENDS Resume, QueueOpsProofs

Saving == {"truncate", "write"}

(* What the files and the snapshot in between call complete was built.      *)
OnlyBuiltIsComplete ==
    /\ Completed(queue) \subseteq built
    /\ progress.completed \subseteq built
    /\ next.completed \subseteq built

(* Nothing but the plan's tasks is ever in the queue.                       *)
OnlyPlanned == \A t \in Task \ Plan : queue[t].status = "absent"

(* What was acknowledged is in progress.json, in the snapshot that replaces *)
(* it, and in the queue, and neither file is ahead of the queue.            *)
NothingForgotten ==
    ~lost => /\ acked \subseteq progress.completed
             /\ progress.completed \subseteq Completed(queue)
             /\ pc \in Saving => /\ acked \subseteq next.completed
                                 /\ next.completed \subseteq Completed(queue)

ResumeInv == OnlyBuiltIsComplete /\ DependenciesBuilt /\ OnlyPlanned /\ NothingForgotten

-----------------------------------------------------------------------------
(* One more crash than n, when n is less than the bound m.                  *)
LEMMA OneMoreCrash ==
    ASSUME NEW m \in Nat, NEW n \in 0..m, n < m
    PROVE  n + 1 \in 0..m
OBVIOUS

LEMMA EmptySnapshot == NoSnapshot \in Snapshot
BY DEF NoSnapshot, Snapshot

-----------------------------------------------------------------------------
(* The coordinator's files keep their shape through crashes and resumes,    *)
(* and progress.json is torn only during a write or after a crash.          *)
THEOREM ResumeTypeCorrect == Spec => []TypeOK
<1>1. Init => TypeOK
  <2>1. CreateFromPlan(NothingDone) \in [Task -> Entry]
    BY FreshPlanEffect
  <2>2. 0 \in 0..MaxCrashes
    BY ResumeAssumption
  <2>. QED
    BY <2>1, <2>2, EmptySnapshot DEF Init, TypeOK
<1>2. TypeOK /\ [Next]_vars => TypeOK'
  <2>. SUFFICES ASSUME TypeOK, [Next]_vars PROVE TypeOK'
    OBVIOUS
  <2>. USE DEF TypeOK
  <2>1. CASE UNCHANGED vars
    BY <2>1 DEF vars
  <2>2. ASSUME NEW t \in Task, Claim(t) PROVE TypeOK'
    <3>1. queue' \in [Task -> Entry]
      BY <2>2, ClaimEffect, ResumeAssumption DEF Claim
    <3>2. next' \in Snapshot
      BY <2>2 DEF Claim, Save, ClaimedCheckpoint, Snapshot
    <3>. QED
      BY <3>1, <3>2, <2>2 DEF Claim, Save
  <2>3. ASSUME NEW t \in Task, Complete(t) PROVE TypeOK'
    <3>1. queue' \in [Task -> Entry]
      BY <2>3, CompleteEffect DEF Complete
    <3>2. next' \in Snapshot
      BY <2>3 DEF Complete, Save, ProgressCheckpoint, Completed, WithStatus, Snapshot
    <3>. QED
      BY <3>1, <3>2, <2>3 DEF Complete, Save
  <2>4. ASSUME NEW t \in Task, Fail(t) PROVE TypeOK'
    <3>1. queue' \in [Task -> Entry]
      BY <2>4, FailEffect DEF Fail
    <3>2. next' \in Snapshot
      BY <2>4 DEF Fail, Save, ProgressCheckpoint, Completed, WithStatus, Snapshot
    <3>. QED
      BY <3>1, <3>2, <2>4 DEF Fail, Save
  <2>5. CASE Truncate
    BY <2>5 DEF Truncate
  <2>6. CASE Write
    <3>1. next.completed \subseteq Task
      BY DEF Snapshot
    <3>. QED
      BY <3>1, <2>6, EmptySnapshot DEF Write
  <2>7. CASE Crash
    <3>1. crashes + 1 \in 0..MaxCrashes
      BY <2>7, OneMoreCrash, ResumeAssumption DEF Crash
    <3>. QED
      BY <3>1, <2>7, EmptySnapshot DEF Crash
  <2>8. CASE ResumeRun
    <3>1. queue' \in [Task -> Entry]
      BY <2>8, SeedEffect DEF ResumeRun
    <3>. QED
      BY <3>1, <2>8, EmptySnapshot DEF ResumeRun
  <2>. QED
    BY <2>1, <2>2, <2>3, <2>4, <2>5, <2>6, <2>7, <2>8 DEF Next
<1>. QED
  BY <1>1, <1>2, PTL DEF Spec

-----------------------------------------------------------------------------
(* What the queue operations do to the set of complete tasks.               *)
LEMMA CompletedAfterClaim ==
    ASSUME TypeOK, NEW t \in Task, Claim(t)
    PROVE  Completed(queue') = Completed(queue)
<1>1. /\ queue'[t].status = "claimed" /\ queue[t].status = "pending"
      /\ \A u \in Task \ {t} : queue'[u] = queue[u]
  BY ClaimEffect, ResumeAssumption DEF TypeOK, Claim, Available, WithStatus
<1>. QED
  BY <1>1 DEF Completed, WithStatus

LEMMA StatusAfterComplete ==
    ASSUME NEW q \in [Task -> Entry], NEW t \in Task
    PROVE  /\ MarkTaskComplete(q, t)[t].status = "complete"
           /\ \A u \in Task \ {t} :
                 \/ MarkTaskComplete(q, t)[u] = q[u]
                 \/ /\ q[u].status = "blocked"
                    /\ MarkTaskComplete(q, t)[u].status = "pending"
<1>. DEFINE r == MarkTaskComplete(q, t)
<1>1. /\ r[t] = [q[t] EXCEPT !.status = "complete"]
      /\ \A u \in Task \ {t} : \/ r[u] = q[u]
                               \/ q[u].status = "blocked" /\ r[u] = Unblock(q[u])
  BY CompleteEffect
<1>. HIDE DEF r
<1>2. r[t].status = "complete"
  BY <1>1 DEF Entry
<1>3. \A u \in Task : Unblock(q[u]).status = "pending"
  BY DEF Unblock, Entry
<1>4. \A u \in Task \ {t} : r[u] = q[u] \/ (q[u].status = "blocked" /\ r[u].status = "pending")
  BY <1>1, <1>3
<1>. QED
  BY <1>2, <1>4 DEF r

LEMMA CompletedAfterComplete ==
    ASSUME TypeOK, NEW t \in Task, Complete(t)
    PROVE  Completed(queue') = Completed(queue) \cup {t}
<1>1. queue \in [Task -> Entry] /\ queue' = MarkTaskComplete(queue, t)
  BY DEF TypeOK, Complete
<1>2. /\ queue'[t].status = "complete"
      /\ \A u \in Task \ {t} : \/ queue'[u] = queue[u]
                               \/ queue[u].status = "blocked" /\ queue'[u].status = "pending"
  BY <1>1, StatusAfterComplete
<1>. QED
  BY <1>2 DEF Completed, WithStatus

LEMMA CompletedAfterFail ==
    ASSUME TypeOK, NEW t \in Task, Fail(t)
    PROVE  Completed(queue') = Completed(queue)
BY FailEffect DEF TypeOK, Fail, Completed, WithStatus

(* Every step keeps the invariant.                                          *)
LEMMA ResumeStep == ASSUME TypeOK, ResumeInv, [Next]_vars PROVE ResumeInv'
<1>. USE DEF ResumeInv, OnlyBuiltIsComplete, NothingForgotten, Saving
<1>. DEFINE Known == queue \in [Task -> Entry] /\ \A t \in Task : queue[t] \in Entry
<1>0. Known
  BY DEF TypeOK
<1>1. CASE UNCHANGED vars
  BY <1>1 DEF vars, DependenciesBuilt, OnlyPlanned, Completed, WithStatus
<1>2. ASSUME NEW t \in Task, Claim(t) PROVE ResumeInv'
  <2>1. Completed(queue') = Completed(queue)
    BY <1>2, CompletedAfterClaim
  <2>2. next'.completed = progress.completed
    BY <1>2 DEF Claim, Save, ClaimedCheckpoint, TypeOK, Snapshot
  <2>3. /\ queue'[t].deps = queue[t].deps
        /\ queue'[t].status = "claimed"
        /\ \A u \in Task \ {t} : queue'[u] = queue[u]
    BY <1>0, <1>2, ClaimEffect, ResumeAssumption DEF Claim
  <2>4. t \in Plan /\ queue[t].deps \subseteq Completed(queue)
    BY <1>2 DEF Claim, Available, WithStatus, OnlyPlanned
  <2>5. DependenciesBuilt'
    BY <1>2, <2>3, <2>4 DEF DependenciesBuilt, WithStatus, Claim
  <2>6. OnlyPlanned'
    BY <2>3, <2>4 DEF OnlyPlanned
  <2>. QED
    BY <1>2, <2>1, <2>2, <2>5, <2>6 DEF Claim, Save
<1>3. ASSUME NEW t \in Task, Complete(t) PROVE ResumeInv'
  <2>1. Completed(queue') = Completed(queue) \cup {t}
    BY <1>3, CompletedAfterComplete
  <2>2. next'.completed = Completed(queue')
    BY <1>3 DEF Complete, Save, ProgressCheckpoint
  <2>3. /\ queue'[t].status = "complete"
        /\ \A u \in Task \ {t} : \/ queue'[u] = queue[u]
                                 \/ queue[u].status = "blocked" /\ queue'[u].status = "pending"
    BY <1>0, <1>3, StatusAfterComplete DEF Complete
  <2>4. t \in Plan
    BY <1>3 DEF Complete, OnlyPlanned
  <2>5. DependenciesBuilt'
    BY <1>3, <2>3 DEF DependenciesBuilt, WithStatus, Complete
  <2>6. OnlyPlanned'
    BY <2>3, <2>4 DEF OnlyPlanned
  <2>. QED
    BY <1>3, <2>1, <2>2, <2>5, <2>6 DEF Complete, Save
<1>4. ASSUME NEW t \in Task, Fail(t) PROVE ResumeInv'
  <2>1. Completed(queue') = Completed(queue)
    BY <1>4, CompletedAfterFail
  <2>2. next'.completed \in {next.completed, Completed(queue')}
    BY <1>4 DEF Fail, Save, ProgressCheckpoint
  <2>3. /\ queue'[t].status \in {"pending", "failed"}
        /\ \A u \in Task \ {t} : queue'[u] = queue[u]
    BY <1>0, <1>4, FailEffect DEF Fail
  <2>4. t \in Plan
    BY <1>4 DEF Fail, OnlyPlanned
  <2>5. DependenciesBuilt'
    BY <1>4, <2>3 DEF DependenciesBuilt, WithStatus, Fail
  <2>6. OnlyPlanned'
    BY <2>3, <2>4 DEF OnlyPlanned
  <2>7. NothingForgotten'
    BY <1>4, <2>1 DEF Fail, Save, ProgressCheckpoint
  <2>. QED
    BY <1>4, <2>1, <2>2, <2>5, <2>6, <2>7 DEF Fail
<1>5. CASE Truncate
  BY <1>5 DEF Truncate, DependenciesBuilt, OnlyPlanned, Completed, WithStatus
<1>6. CASE Write
  BY <1>6 DEF Write, DependenciesBuilt, OnlyPlanned, Completed, WithStatus, NoSnapshot
<1>7. CASE Crash
  BY <1>7 DEF Crash, DependenciesBuilt, OnlyPlanned, Completed, WithStatus, NoSnapshot
<1>8. CASE ResumeRun
  <2>1. Loaded.completed = IF torn THEN {} ELSE progress.completed
    BY DEF Loaded, LoadSnapshot, NoSnapshot, TypeOK, Snapshot
  <2>2. /\ Completed(queue') = Plan \cap Loaded.completed
        /\ \A t \in Task : queue'[t].status # "claimed"
        /\ \A t \in Task \ Plan : queue'[t].status = "absent"
    BY <1>8, SeedEffect DEF ResumeRun
  <2>3. progress'.completed = Loaded.completed
    BY <1>8, <2>1 DEF ResumeRun, NoSnapshot
  <2>4. DependenciesBuilt' /\ OnlyPlanned'
    BY <2>2 DEF DependenciesBuilt, OnlyPlanned, WithStatus
  <2>5. OnlyBuiltIsComplete'
    BY <1>8, <2>1, <2>2, <2>3 DEF ResumeRun
  <2>6. Completed(queue) \subseteq Plan
    BY DEF OnlyPlanned, Completed, WithStatus
  <2>7. NothingForgotten'
    BY <1>8, <2>1, <2>2, <2>3, <2>6 DEF ResumeRun
  <2>. QED
    BY <2>4, <2>5, <2>7
<1>. QED
  BY <1>1, <1>2, <1>3, <1>4, <1>5, <1>6, <1>7, <1>8 DEF Next

LEMMA ResumeInvariant == Spec => []ResumeInv
<1>1. Init => ResumeInv
  <2>. SUFFICES ASSUME Init PROVE ResumeInv
    OBVIOUS
  <2>1. \A t \in Task : queue[t].status \in {"pending", "absent"}
    BY FreshPlanEffect DEF Init
  <2>2. OnlyPlanned
    BY FreshPlanEffect DEF Init, OnlyPlanned
  <2>3. Completed(queue) = {} /\ WithStatus(queue, "claimed") = {}
    BY <2>1 DEF Completed, WithStatus
  <2>. QED
    BY <2>2, <2>3 DEF Init, NoSnapshot, ResumeInv, OnlyBuiltIsComplete, DependenciesBuilt,
                      NothingForgotten, Saving
<1>2. TypeOK /\ ResumeInv /\ [Next]_vars => ResumeInv'
  BY ResumeStep
<1>. QED
  BY <1>1, <1>2, ResumeTypeCorrect, PTL DEF Spec

(* However often the coordinator crashes and resumes, a task is worked on   *)
(* only when all of its dependencies have been built.                       *)
THEOREM DependenciesAreBuilt == Spec => []DependenciesBuilt
<1>1. ResumeInv => DependenciesBuilt
  BY DEF ResumeInv
<1>. QED
  BY <1>1, ResumeInvariant, PTL

(* A crash that does not tear progress.json loses nothing that              *)
(* markTaskComplete has returned for.                                       *)
THEOREM AcknowledgedWorkIsKept == Spec => []AcknowledgedIsKept
<1>1. ResumeInv => AcknowledgedIsKept
  BY DEF ResumeInv, NothingForgotten, AcknowledgedIsKept
<1>. QED
  BY <1>1, ResumeInvariant, PTL
=============================================================================
