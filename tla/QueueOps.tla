----------------------------- MODULE QueueOps -----------------------------
(***************************************************************************)
(* The task queue of a coordination run as a value: what tasks.json and     *)
(* progress.json hold, and what the operations of TaskQueueManager          *)
(* (src/coordinate/task-queue.ts) make of them.  TaskQueue, Dispatch and    *)
(* Resume are state machines that share these definitions.                  *)
(*                                                                          *)
(* A task is a model value; its text, files and timestamps are left out.    *)
(* The position of a task in the file only breaks ties of getNextTask, so   *)
(* a tie is a nondeterministic choice.  Operators under "Bug:" are the      *)
(* mistakes the runs are shown to catch; nothing uses them.                 *)
(***************************************************************************)
EXTENDS Integers, FiniteSets

CONSTANTS
    Task,          \* every task id that may ever be in the queue
    Identity,      \* the identities that claim tasks
    NoTask, NoOne, \* "no parent" and "not claimed"
    Plan,          \* the tasks createFromPlan is given
    PlanDeps,      \* dependsOn of each plan task
    PlanParent,    \* parentTaskId of each plan task (TASK-XX.Y), or NoTask
    PlanPriority,  \* the priority of each plan task
    Priority,      \* the priorities in use, of P0 .. P3; P2 is the default
    MaxRestarts    \* maxRestarts of markTaskFailed (default 2)

ASSUME QueueAssumption ==
    /\ NoTask \notin Task
    /\ NoOne \notin Identity
    /\ Plan \subseteq Task
    /\ PlanDeps \in [Plan -> SUBSET Task]
    /\ PlanParent \in [Plan -> Task \cup {NoTask}]
    /\ Priority \subseteq 0..3 /\ 2 \in Priority
    /\ PlanPriority \in [Plan -> Priority]
    /\ MaxRestarts \in Nat \ {0}

Status == {"absent", "pending_review", "pending", "blocked", "claimed",
           "complete", "failed", "rejected", "skipped"}

(* One entry of tasks.json; "absent" is a task that is not in the file.     *)
Entry == [status    : Status,
          claimedBy : Identity \cup {NoOne},
          parent    : Task \cup {NoTask},
          deps      : SUBSET Task,
          blockedBy : SUBSET Task,
          restarts  : Nat,
          priority  : Priority]

Snapshot == [completed : SUBSET Task, failed : SUBSET Task, claimed : SUBSET Task]

NoSnapshot == [completed |-> {}, failed |-> {}, claimed |-> {}]

NewEntry(status, parent, deps, priority) ==
    [status |-> status, claimedBy |-> NoOne, parent |-> parent, deps |-> deps,
     blockedBy |-> {}, restarts |-> 0, priority |-> priority]

AbsentEntry == NewEntry("absent", NoTask, {}, 2)

(* The plan's tasks start with the status their caller gives them: pending, *)
(* except for those a resumed run finds in progress.json.                   *)
CreateFromPlan(status) ==
    [t \in Task |-> IF t \in Plan
                    THEN NewEntry(status[t], PlanParent[t], PlanDeps[t], PlanPriority[t])
                    ELSE AbsentEntry]

NothingDone == [t \in Plan |-> "pending"]

(* loadProgressSnapshot: what was claimed and not complete counts as failed.*)
LoadSnapshot(progress) ==
    [progress EXCEPT !.failed  = @ \cup (progress.claimed \ progress.completed),
                     !.claimed = {}]

(* Bug: tasks that were in progress are taken for complete.                 *)
SeedOptimistically(snapshot) ==
    CreateFromPlan([t \in Plan |->
        IF snapshot.completed # {} /\ t \in snapshot.completed \cup snapshot.failed
        THEN "complete" ELSE "pending"])

(* specTasksToQueueEntries; a snapshot with no complete task is ignored.    *)
Seed(snapshot) ==
    CreateFromPlan([t \in Plan |->
        IF snapshot.completed = {} THEN "pending"
        ELSE IF t \in snapshot.completed THEN "complete"
        ELSE IF t \in snapshot.failed THEN "failed"
        ELSE "pending"])

(***************************************************************************)
(* Reading the queue                                                        *)
(***************************************************************************)
WithStatus(q, s) == {t \in Task : q[t].status = s}

Completed(q) == WithStatus(q, "complete")

Present(q) == Task \ WithStatus(q, "absent")

Children(q, p) == {t \in Task : q[t].parent = p}

WaitingParents(q) == {t \in WithStatus(q, "blocked") : q[t].blockedBy # {}}

(* Bug: tasks still under review are handed out.                            *)
AvailableUnreviewed(q) ==
    {t \in WithStatus(q, "pending") \cup WithStatus(q, "pending_review") :
        q[t].deps \subseteq Completed(q)}

(* Bug: dependencies are not looked at.                                     *)
AvailableInAnyOrder(q) == WithStatus(q, "pending")

Available(q) ==
    {t \in WithStatus(q, "pending") :
        /\ q[t].deps \subseteq Completed(q)
        /\ q[t].parent # NoTask => q[t].parent \in WaitingParents(q)}

Before(a, b) ==
    \/ a.priority < b.priority
    \/ /\ a.priority = b.priority
       /\ Cardinality(a.deps) < Cardinality(b.deps)

NextTasks(q) == {t \in Available(q) : \A u \in Available(q) : ~Before(q[u], q[t])}

IsComplete(q) == \A t \in Task : q[t].status \in {"absent", "complete", "failed", "rejected"}

(***************************************************************************)
(* Changing the queue                                                       *)
(***************************************************************************)
ClaimTask(q, t, w) == [q EXCEPT ![t].status = "claimed", ![t].claimedBy = w]

ToPending(entry) == [entry EXCEPT !.status = "pending", !.claimedBy = NoOne]

ReleaseTask(q, t) == [q EXCEPT ![t] = ToPending(q[t])]

Unblock(entry) == [entry EXCEPT !.status = "pending", !.blockedBy = {}]

UpdateBlockedTasks(q) ==
    [t \in Task |->
        IF /\ q[t].status = "blocked"
           /\ q[t].deps \cup q[t].blockedBy \subseteq Completed(q)
        THEN Unblock(q[t])
        ELSE q[t]]

(* The parent of a completed subtask is unblocked as soon as all of its     *)
(* subtasks are complete, whatever its own dependencies are.                *)
UnblockParent(q, t) ==
    LET p == q[t].parent
    IN  IF /\ p \in Task
           /\ q[p].status = "blocked"
           /\ Children(q, p) \subseteq Completed(q)
        THEN [q EXCEPT ![p] = Unblock(q[p])]
        ELSE q

(* Bug: completing a task does not look for tasks that waited for it.       *)
MarkOnlyComplete(q, t) == [q EXCEPT ![t].status = "complete"]

MarkTaskComplete(q, t) ==
    UpdateBlockedTasks(UnblockParent([q EXCEPT ![t].status = "complete"], t))

FailsForGood(q, t) == q[t].restarts + 1 >= MaxRestarts

MarkTaskFailed(q, t) ==
    [q EXCEPT ![t] =
        LET counted == [q[t] EXCEPT !.restarts = @ + 1]
        IN  IF FailsForGood(q, t)
            THEN [counted EXCEPT !.status = "failed"]
            ELSE ToPending(counted)]

AddDiscoveredTask(q, t, status, deps, priority) ==
    [q EXCEPT ![t] = NewEntry(status, NoTask, deps, priority)]

WaitingFor(entry, kids) == [entry EXCEPT !.status = "blocked", !.blockedBy = kids]

CreateSubtasks(q, p, kids) ==
    [t \in Task |->
        IF t \in kids THEN NewEntry("pending", p, {}, q[p].priority)
        ELSE IF t = p THEN WaitingFor(q[p], kids)
        ELSE q[t]]

Approved(entry, deps, priority) ==
    [entry EXCEPT !.status = "pending", !.deps = deps, !.priority = priority]

ApproveTask(q, t, deps, priority) ==
    UpdateBlockedTasks([q EXCEPT ![t] = Approved(q[t], deps, priority)])

RejectTask(q, t) == [q EXCEPT ![t].status = "rejected"]

SkipTask(q, t) == [q EXCEPT ![t].status = "skipped"]

(* progress.json is recomputed from the queue when a task ends for good,    *)
(* and only grows its claimed list when a task is claimed.                  *)
ProgressCheckpoint(q) ==
    [completed |-> Completed(q),
     failed    |-> WithStatus(q, "failed"),
     claimed   |-> WithStatus(q, "claimed")]

(* Bug: the rest of the snapshot is not carried over.                       *)
NothingButClaims(snapshot, t) == [NoSnapshot EXCEPT !.claimed = snapshot.claimed \cup {t}]

(* Bug: the claimed list is replaced, not extended.                         *)
LatestClaimOnly(snapshot, t) == [snapshot EXCEPT !.claimed = {t}]

ClaimedCheckpoint(snapshot, t) == [snapshot EXCEPT !.claimed = @ \cup {t}]

=============================================================================
