----------------------------- MODULE TaskQueue -----------------------------
(***************************************************************************)
(* The task queue used by everyone at once: the coordinator, its            *)
(* supervisor, the workers, the planner and the approval gate.              *)
(*                                                                          *)
(* Every operation of TaskQueueManager is one read-modify-write of          *)
(* tasks.json under tasks.lock (module FileLock), so each is one atomic     *)
(* step here.  The state machine lets the callers apply them in any order,  *)
(* with arguments that may be out of date: a task is handed out by one step *)
(* and claimed by another.                                                  *)
(*                                                                          *)
(* A new task's id is made up from a count of the tasks there are, and      *)
(* nothing looks whether it is in use.  An id is known here by its series,  *)
(* its parent and its number: TASK-01.2 is number 2 of series TASK under    *)
(* TASK-01, DISC-03 is number 3 of series DISC under no parent.             *)
(***************************************************************************)
EXTENDS QueueOps

CONSTANTS
    Series,        \* what each id begins with
    ParentId,      \* the id each subtask's id extends, or NoTask
    Number,        \* the number each id ends in
    Snapshots,     \* what progress.json may hold when the run starts
    Discoveries,   \* the dependsOn a discovered or modified task may have
    MaxSubtasks,   \* maxSubtasks of createSubtasks (default 5)
    FailureBound   \* bound: restartCount stays at most this

(* An id is its series, parent and number; a subtask begins as its parent   *)
(* does.                                                                    *)
ASSUME IdsAssumption ==
    /\ IsFiniteSet(Task)
    /\ Series \in [Task -> {"TASK", "DISC", "FIX"}]
    /\ ParentId \in [Task -> Task \cup {NoTask}]
    /\ Number \in [Task -> Nat \ {0}]
    /\ \A t \in Task : ParentId[t] # NoTask => Series[t] = Series[ParentId[t]]
    /\ \A t, u \in Task :
          Series[t] = Series[u] /\ ParentId[t] = ParentId[u] /\ Number[t] = Number[u] => t = u

(* The plan numbers its subtasks, and its DISC and FIX tasks if it has any, *)
(* without gaps.                                                            *)
ASSUME PlanAssumption ==
    \A t \in Plan :
        /\ PlanParent[t] = ParentId[t]
        /\ ParentId[t] # NoTask
             => Number[t] <= Cardinality({u \in Plan : PlanParent[u] = ParentId[t]})
        /\ ParentId[t] = NoTask /\ Series[t] # "TASK"
             => Number[t] <= Cardinality({u \in Plan : Series[u] = Series[t]})

ASSUME BoundsAssumption ==
    /\ Snapshots \subseteq Snapshot
    /\ Discoveries \subseteq SUBSET Task
    /\ MaxSubtasks \in Nat
    /\ FailureBound \in Nat

VARIABLES
    queue,      \* tasks.json
    progress,   \* progress.json
    offered,    \* tasks getNextTask has returned to some caller
    handed,     \* tasks that have been claimed for a worker at some time
    reused      \* ids given to a task while the queue had them (not in the code)

vars == <<queue, progress, offered, handed, reused>>

(* A fresh run finds no progress.json; a resumed one seeds the queue.       *)
Init ==
    /\ progress \in Snapshots
    /\ queue = Seed(LoadSnapshot(progress))
    /\ offered = {}
    /\ handed = {}
    /\ reused = {}

(***************************************************************************)
(* The ids of new tasks                                                     *)
(***************************************************************************)
(* Bug: subtasks that are done are not counted.                             *)
SubtaskIdsAfterOpen(q, p, count) ==
    LET there == Cardinality(Children(q, p) \ Completed(q))
    IN  {t \in Task : ParentId[t] = p /\ Number[t] \in there + 1..there + count}

SubtaskIds(q, p, count) ==
    LET there == Cardinality(Children(q, p))
    IN  {t \in Task : ParentId[t] = p /\ Number[t] \in there + 1..there + count}

(* The subtasks of DISC-01 begin with DISC as well, and are counted.        *)
InSeries(q, series) == {t \in Present(q) : Series[t] = series}

IsNextId(q, t, series) ==
    /\ ParentId[t] = NoTask
    /\ Series[t] = series
    /\ Number[t] = Cardinality(InSeries(q, series)) + 1

NumbersGiven(ids) == reused' = reused \cup (ids \cap Present(queue))

(***************************************************************************)
(* The operations                                                           *)
(***************************************************************************)
(* The approval gate denies a gated plan task, one that a resumed run has   *)
(* seeded as complete or failed included: it runs to its end before the     *)
(* coordinator asks for the first task.                                     *)
GateSkip(t) ==
    /\ offered = {}
    /\ t \in Plan
    /\ queue' = SkipTask(queue, t)
    /\ UNCHANGED <<progress, offered, handed, reused>>

GetNextTask(t) ==
    /\ t \in NextTasks(queue)
    /\ offered' = offered \cup {t}
    /\ UNCHANGED <<queue, progress, handed, reused>>

(* Bug: a task is claimed without asking the queue for it.                  *)
ClaimUnasked(t, w) ==
    /\ queue[t].status = "pending"
    /\ queue' = ClaimTask(queue, t, w)
    /\ progress' = ClaimedCheckpoint(progress, t)
    /\ handed' = handed \cup {t}
    /\ UNCHANGED <<offered, reused>>

(* claimTask refuses a task that is no longer pending, but does not look at *)
(* its dependencies or its parent again.                                    *)
Claim(t, w) ==
    /\ t \in offered
    /\ queue[t].status = "pending"
    /\ queue' = ClaimTask(queue, t, w)
    /\ progress' = ClaimedCheckpoint(progress, t)
    /\ handed' = handed \cup {t}
    /\ UNCHANGED <<offered, reused>>

(* Complete, Fail and Release look at no status: their callers may be late. *)
Complete(t) ==
    /\ t \in handed
    /\ queue' = MarkTaskComplete(queue, t)
    /\ progress' = ProgressCheckpoint(queue')
    /\ UNCHANGED <<offered, handed, reused>>

Fail(t) ==
    /\ t \in handed
    /\ queue[t].restarts < FailureBound
    /\ queue' = MarkTaskFailed(queue, t)
    /\ progress' = IF FailsForGood(queue, t) THEN ProgressCheckpoint(queue') ELSE progress
    /\ UNCHANGED <<offered, handed, reused>>

Release(t) ==
    /\ t \in handed
    /\ queue' = ReleaseTask(queue, t)
    /\ UNCHANGED <<progress, offered, handed, reused>>

(* A worker adds a task for review (DISC-nn); the reviewer adds one that    *)
(* needs none (FIX-nn).                                                     *)
Discover(t, status, deps, priority) ==
    /\ IsNextId(queue, t, IF status = "pending" THEN "FIX" ELSE "DISC")
    /\ NumbersGiven({t})
    /\ status = "pending_review" => handed # {}
    /\ queue' = AddDiscoveredTask(queue, t, status, deps, priority)
    /\ UNCHANGED <<progress, offered, handed>>

(* p is broken down.  Creating no subtask at all would block p for nothing; *)
(* no caller does.  Bound: Task has the ids that are needed.                *)
Subdivide(p, count) ==
    LET kids == SubtaskIds(queue, p, count)
    IN  /\ p \in handed
        /\ Cardinality(kids) = count
        /\ Cardinality(Children(queue, p)) + count <= MaxSubtasks
        /\ queue' = CreateSubtasks(queue, p, kids)
        /\ NumbersGiven(kids)
        /\ UNCHANGED <<progress, offered, handed>>

(* Bug: a late approval overrides the rejection.                            *)
ApproveLate(t, deps, priority) ==
    /\ queue[t].status \in {"pending_review", "rejected"}
    /\ queue' = ApproveTask(queue, t, deps, priority)
    /\ UNCHANGED <<progress, offered, handed, reused>>

Approve(t, deps, priority) ==
    /\ queue[t].status = "pending_review"
    /\ queue' = ApproveTask(queue, t, deps, priority)
    /\ UNCHANGED <<progress, offered, handed, reused>>

Reject(t) ==
    /\ queue[t].status = "pending_review"
    /\ queue' = RejectTask(queue, t)
    /\ UNCHANGED <<progress, offered, handed, reused>>

Next ==
    \/ \E t \in Task : \/ GateSkip(t)
                       \/ GetNextTask(t)
                       \/ Complete(t)
                       \/ Fail(t)
                       \/ Release(t)
                       \/ Reject(t)
    \/ \E t \in Task, w \in Identity : Claim(t, w)
    \/ \E t \in Task, status \in {"pending", "pending_review"}, deps \in Discoveries,
          priority \in Priority : Discover(t, status, deps, priority)
    \/ \E t \in Task, deps \in Discoveries, priority \in Priority : Approve(t, deps, priority)
    \/ \E p \in Task, count \in 1..MaxSubtasks : Subdivide(p, count)

Spec == Init /\ [][Next]_vars

-----------------------------------------------------------------------------
(***************************************************************************)
(* Properties                                                               *)
(***************************************************************************)

(* The files hold entries of the declared shape, and a task is claimed only *)
(* after getNextTask returned it.                                           *)
TypeOK ==
    /\ queue \in [Task -> Entry]
    /\ progress \in Snapshot
    /\ offered \subseteq Task
    /\ handed \subseteq offered
    /\ reused \subseteq Task

(* No missed wakeup: a blocked task still waits for something.  The last    *)
(* subtask to complete always unblocks its parent, whoever completes it and *)
(* however often tasks are released and completed again.                    *)
NoMissedWakeup ==
    \A t \in WithStatus(queue, "blocked") :
        ~(queue[t].deps \cup queue[t].blockedBy \subseteq Completed(queue))

(* A task that review has not let through, that review rejected or that the *)
(* approval gate skipped is never in a worker's hands: releaseTask and      *)
(* markTaskComplete, which check no status, never see one.                  *)
NotApproved == {"absent", "pending_review", "rejected", "skipped"}
OnlyApprovedWork ==
    \A t \in offered \cup handed : queue[t].status \notin NotApproved

(* The checkpoint knows of every task some worker holds: a crash right now  *)
(* does not make a half-edited task look as if it had never been started.   *)
ClaimsAreRecorded == WithStatus(queue, "claimed") \subseteq progress.claimed

(* A new task never gets the id of a task that is in the queue, although    *)
(* ids are only counted up: whatever has been discovered, broken down,      *)
(* completed, rejected or released before, counting finds a free one.       *)
IdsAreUnique == reused = {}

(* A verdict of the reviewer or of the gate is final.                       *)
VerdictIsFinal ==
    [][\A t \in Task : queue[t].status \in {"rejected", "skipped"}
                         => queue'[t].status = queue[t].status]_vars
=============================================================================
