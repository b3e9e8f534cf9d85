------------------------------- MODULE Resume -------------------------------
(***************************************************************************)
(* Crashes of the coordinator and `resume: true`: tasks.json and            *)
(* progress.json are two files written one after the other, the second one  *)
(* in place; a resumed run rebuilds tasks.json from the plan and from       *)
(* progress.json alone.                                                     *)
(*                                                                          *)
(* A queue operation holds tasks.lock until its checkpoint is written, so   *)
(* one write is under way at a time.  How workers are scheduled is module   *)
(* Dispatch's subject: here any available task may be claimed.              *)
(***************************************************************************)
EXTENDS QueueOps

CONSTANTS
    Coordinator,
    MaxCrashes    \* bound: how often the coordinator crashes

ASSUME ResumeAssumption ==
    /\ Coordinator \in Identity
    /\ MaxCrashes \in Nat

VARIABLES
    queue,     \* tasks.json
    progress,  \* progress.json, when it can be parsed
    torn,      \* progress.json has been truncated and not yet written
    pc,        \* the queue operation: "idle", "truncate", "write", or "down"
    next,      \* the snapshot it is about to write
    crashes,
    built,     \* tasks whose work was really done (not in the code)
    acked,     \* tasks markTaskComplete has returned for (not in the code)
    lost       \* a resume found progress.json torn (not in the code)

vars == <<queue, progress, torn, pc, next, crashes, built, acked, lost>>

Init ==
    /\ queue = CreateFromPlan(NothingDone)
    /\ progress = NoSnapshot
    /\ torn = FALSE
    /\ pc = "idle"
    /\ next = NoSnapshot
    /\ crashes = 0
    /\ built = {} /\ acked = {}
    /\ lost = FALSE

Save(snapshot) == pc' = "truncate" /\ next' = snapshot

Claim(t) ==
    /\ pc = "idle"
    /\ t \in Available(queue)
    /\ queue' = ClaimTask(queue, t, Coordinator)
    /\ Save(ClaimedCheckpoint(progress, t))
    /\ UNCHANGED <<progress, torn, crashes, built, acked, lost>>

Complete(t) ==
    /\ pc = "idle"
    /\ queue[t].status = "claimed"
    /\ queue' = MarkTaskComplete(queue, t)
    /\ Save(ProgressCheckpoint(queue'))
    /\ built' = built \cup {t}
    /\ UNCHANGED <<progress, torn, crashes, acked, lost>>

Fail(t) ==
    /\ pc = "idle"
    /\ queue[t].status = "claimed"
    /\ queue' = MarkTaskFailed(queue, t)
    /\ IF FailsForGood(queue, t)
       THEN Save(ProgressCheckpoint(queue'))
       ELSE UNCHANGED <<pc, next>>
    /\ UNCHANGED <<progress, torn, crashes, built, acked, lost>>

(* fs.writeFile truncates progress.json before it writes it.                *)
Truncate ==
    /\ pc = "truncate"
    /\ torn' = TRUE
    /\ pc' = "write"
    /\ UNCHANGED <<queue, progress, next, crashes, built, acked, lost>>

Write ==
    /\ pc = "write"
    /\ progress' = next
    /\ torn' = FALSE
    /\ pc' = "idle"
    /\ next' = NoSnapshot
    /\ acked' = acked \cup next.completed
    /\ UNCHANGED <<queue, crashes, built, lost>>

(* The coordinator dies, and its workers with it.                           *)
Crash ==
    /\ pc # "down"
    /\ crashes < MaxCrashes
    /\ crashes' = crashes + 1
    /\ pc' = "down"
    /\ next' = NoSnapshot
    /\ UNCHANGED <<queue, progress, torn, built, acked, lost>>

Loaded == IF torn THEN NoSnapshot ELSE LoadSnapshot(progress)

(* Bug: the torn file is kept.                                              *)
ResumeInPlace ==
    /\ pc = "down"
    /\ queue' = Seed(Loaded)
    /\ lost' = (lost \/ torn)
    /\ pc' = "idle"
    /\ UNCHANGED <<progress, torn, next, crashes, built, acked>>

(* findResumeCoordDir skips a directory whose progress.json cannot be       *)
(* parsed: the run starts in a new one, without any.                        *)
ResumeRun ==
    /\ pc = "down"
    /\ queue' = Seed(Loaded)
    /\ progress' = IF torn THEN NoSnapshot ELSE progress
    /\ torn' = FALSE
    /\ lost' = (lost \/ torn)
    /\ pc' = "idle"
    /\ UNCHANGED <<next, crashes, built, acked>>

Next ==
    \/ \E t \in Task : Claim(t) \/ Complete(t) \/ Fail(t)
    \/ Truncate \/ Write \/ Crash \/ ResumeRun

Spec == Init /\ [][Next]_vars

-----------------------------------------------------------------------------
(* The files hold what they are declared to hold; progress.json is in       *)
(* pieces only during a write or after a crash.                             *)
TypeOK ==
    /\ queue \in [Task -> Entry]
    /\ {progress, next} \subseteq Snapshot
    /\ pc \in {"idle", "truncate", "write", "down"}
    /\ torn \in BOOLEAN /\ (torn => pc \in {"write", "down"})
    /\ crashes \in 0..MaxCrashes
    /\ {built, acked} \subseteq SUBSET Task
    /\ lost \in BOOLEAN

(* However often the coordinator crashes and resumes, a task is worked on   *)
(* only when the work of all its dependencies has really been done: the two *)
(* files never make unfinished work look complete.                          *)
DependenciesBuilt ==
    \A t \in WithStatus(queue, "claimed") : queue[t].deps \subseteq built

(* A task is not done again once markTaskComplete has returned for it, as   *)
(* long as no crash has torn progress.json.                                 *)
AcknowledgedIsKept == ~lost => acked \subseteq Completed(queue)

(* "the task is re-queued": what a crash interrupted is pending after a     *)
(* resume.                                                                  *)
InterruptedIsRequeued ==
    [][pc = "down" /\ pc' # "down" =>
         \A t \in WithStatus(queue, "claimed") : queue'[t].status = "pending"]_vars
=============================================================================
