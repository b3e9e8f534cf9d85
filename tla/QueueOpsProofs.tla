--------------------------- MODULE QueueOpsProofs ---------------------------
(***************************************************************************)
(* Lemmas about the operations on the queue, for every set of tasks: what   *)
(* each returns, and what it leaves alone.                                  *)
(***************************************************************************)
EXTENDS QueueOps, TLAPS

(* An operation that rewrites one entry by one of its declared shape yields *)
(* a queue again.                                                           *)
LEMMA SetEntryType ==
    ASSUME NEW q \in [Task -> Entry], NEW t \in Task, NEW e \in Entry
    PROVE  [q EXCEPT ![t] = e] \in [Task -> Entry]
  OBVIOUS

(* Entries keep their shape through each of the entry operators.            *)
LEMMA EntryType ==
    ASSUME NEW e \in Entry
    PROVE  /\ ToPending(e) \in Entry
           /\ Unblock(e) \in Entry
           /\ \A s \in Status : [e EXCEPT !.status = s] \in Entry
           /\ [e EXCEPT !.restarts = @ + 1] \in Entry
<1>1. ToPending(e) \in Entry
  BY DEF Entry, ToPending, Status
<1>2. Unblock(e) \in Entry
  BY DEF Entry, Unblock, Status
<1>3. ASSUME NEW s \in Status
      PROVE  [e EXCEPT !.status = s] \in Entry
  BY DEF Entry
<1>4. [e EXCEPT !.restarts = @ + 1] \in Entry
  BY DEF Entry
<1>. QED
  BY <1>1, <1>2, <1>3, <1>4

(* A new entry has the declared shape.                                      *)
LEMMA NewEntryType ==
    ASSUME NEW s \in Status, NEW p \in Task \cup {NoTask},
           NEW deps \in SUBSET Task, NEW priority \in Priority
    PROVE  NewEntry(s, p, deps, priority) \in Entry
  BY QueueAssumption DEF Entry, NewEntry

(* The plan makes a queue: each planned task with the status it is given,   *)
(* and nothing else.                                                        *)
LEMMA PlanEffect ==
    ASSUME NEW status \in [Plan -> Status]
    PROVE  /\ CreateFromPlan(status) \in [Task -> Entry]
           /\ \A t \in Plan : /\ CreateFromPlan(status)[t].status = status[t]
                             /\ CreateFromPlan(status)[t].parent = PlanParent[t]
                             /\ CreateFromPlan(status)[t].restarts = 0
           /\ \A t \in Task \ Plan : /\ CreateFromPlan(status)[t].status = "absent"
                                    /\ CreateFromPlan(status)[t].parent = NoTask
<1>1. AbsentEntry \in Entry /\ AbsentEntry.status = "absent" /\ AbsentEntry.parent = NoTask
  <2>1. AbsentEntry \in Entry
    BY NewEntryType, QueueAssumption DEF AbsentEntry, Status
  <2>. QED
    BY <2>1 DEF AbsentEntry, NewEntry
<1>2. ASSUME NEW t \in Plan
      PROVE  /\ CreateFromPlan(status)[t] \in Entry
             /\ CreateFromPlan(status)[t].status = status[t]
             /\ CreateFromPlan(status)[t].parent = PlanParent[t]
             /\ CreateFromPlan(status)[t].restarts = 0
  <2>. DEFINE e == NewEntry(status[t], PlanParent[t], PlanDeps[t], PlanPriority[t])
  <2>1. CreateFromPlan(status)[t] = e
    BY QueueAssumption DEF CreateFromPlan
  <2>2. e \in Entry
    BY QueueAssumption, NewEntryType
  <2>3. e.status = status[t] /\ e.parent = PlanParent[t] /\ e.restarts = 0
    BY DEF NewEntry
  <2>. QED
    BY <2>1, <2>2, <2>3
<1>3. \A t \in Task \ Plan : CreateFromPlan(status)[t] = AbsentEntry
  BY DEF CreateFromPlan
<1>4. CreateFromPlan(status) \in [Task -> Entry]
  <2>1. \A t \in Task : CreateFromPlan(status)[t] \in Entry
    BY <1>1, <1>2, <1>3
  <2>. QED
    BY <2>1 DEF CreateFromPlan
<1>. QED
  BY <1>1, <1>2, <1>3, <1>4

LEMMA FreshPlanEffect ==
    /\ CreateFromPlan(NothingDone) \in [Task -> Entry]
    /\ \A t \in Plan : CreateFromPlan(NothingDone)[t].status = "pending"
    /\ \A t \in Task \ Plan : CreateFromPlan(NothingDone)[t].status = "absent"
    /\ \A t \in Task : CreateFromPlan(NothingDone)[t].status \in {"pending", "absent"}
<1>1. NothingDone \in [Plan -> Status] /\ \A t \in Plan : NothingDone[t] = "pending"
  BY DEF NothingDone, Status
<1>. QED
  BY <1>1, PlanEffect

(* The seed of a resumed run is a queue: planned tasks with the statuses    *)
(* the snapshot gives them.                                                 *)
LEMMA SeedEffect ==
    ASSUME NEW s
    PROVE  /\ Seed(s) \in [Task -> Entry]
           /\ \A t \in Task \ Plan : Seed(s)[t].status = "absent" /\ Seed(s)[t].parent = NoTask
           /\ \A t \in Plan : /\ Seed(s)[t].status \in {"pending", "complete", "failed"}
                             /\ Seed(s)[t].parent = PlanParent[t]
           /\ \A t \in Task : Seed(s)[t].status \notin {"claimed", "blocked"}
           /\ Completed(Seed(s)) = Plan \cap s.completed
<1>. DEFINE f == [t \in Plan |-> IF s.completed = {} THEN "pending"
                                  ELSE IF t \in s.completed THEN "complete"
                                  ELSE IF t \in s.failed THEN "failed"
                                  ELSE "pending"]
<1>1. Seed(s) = CreateFromPlan(f)
  BY DEF Seed
<1>2. /\ f \in [Plan -> Status]
      /\ \A t \in Plan : f[t] \in {"pending", "complete", "failed"}
      /\ \A t \in Plan : f[t] = "complete" <=> t \in s.completed
  BY DEF Status
<1>. HIDE DEF f
<1>3. /\ Seed(s) \in [Task -> Entry]
      /\ \A t \in Plan : Seed(s)[t].status = f[t] /\ Seed(s)[t].parent = PlanParent[t]
      /\ \A t \in Task \ Plan : Seed(s)[t].status = "absent" /\ Seed(s)[t].parent = NoTask
  BY <1>1, <1>2, PlanEffect
<1>4. Completed(Seed(s)) = Plan \cap s.completed
  BY <1>2, <1>3, QueueAssumption DEF Completed, WithStatus
<1>. QED
  BY <1>2, <1>3, <1>4

(* What the entry operators leave alone.                                    *)
LEMMA EntryFields ==
    ASSUME NEW e \in Entry
    PROVE  /\ ToPending(e).status = "pending"
           /\ ToPending(e).parent = e.parent
           /\ ToPending(e).blockedBy = e.blockedBy
           /\ ToPending(e).deps = e.deps
           /\ ToPending(e).restarts = e.restarts
           /\ Unblock(e).status = "pending"
           /\ Unblock(e).parent = e.parent
           /\ Unblock(e).blockedBy = {}
           /\ Unblock(e).restarts = e.restarts
  BY DEF Entry, ToPending, Unblock

LEMMA ClaimedEntry ==
    ASSUME NEW e \in Entry, NEW w \in Identity
    PROVE  LET f == [e EXCEPT !.status = "claimed", !.claimedBy = w]
           IN  /\ f \in Entry
               /\ f.status = "claimed"
               /\ f.parent = e.parent
               /\ f.blockedBy = e.blockedBy
               /\ f.deps = e.deps
  BY DEF Entry, Status

LEMMA ApprovedEntry ==
    ASSUME NEW e \in Entry, NEW deps \in SUBSET Task, NEW priority \in Priority
    PROVE  /\ Approved(e, deps, priority) \in Entry
           /\ Approved(e, deps, priority).status = "pending"
           /\ Approved(e, deps, priority).parent = e.parent
           /\ Approved(e, deps, priority).blockedBy = e.blockedBy
  BY DEF Entry, Status, Approved

LEMMA WaitingEntry ==
    ASSUME NEW e \in Entry, NEW kids \in SUBSET Task
    PROVE  /\ WaitingFor(e, kids) \in Entry
           /\ WaitingFor(e, kids).status = "blocked"
           /\ WaitingFor(e, kids).parent = e.parent
           /\ WaitingFor(e, kids).blockedBy = kids
           /\ WaitingFor(e, kids).deps = e.deps
  BY DEF Entry, Status, WaitingFor

(* The unblocking pass changes blocked entries only, and those only to      *)
(* pending: it never completes, fails or releases anything.                 *)
LEMMA UpdateBlockedEffect ==
    ASSUME NEW q \in [Task -> Entry]
    PROVE  /\ UpdateBlockedTasks(q) \in [Task -> Entry]
           /\ \A t \in Task :
                 \/ UpdateBlockedTasks(q)[t] = q[t]
                 \/ /\ q[t].status = "blocked"
                    /\ UpdateBlockedTasks(q)[t] = Unblock(q[t])
  BY EntryType DEF UpdateBlockedTasks

LEMMA UnblockParentEffect ==
    ASSUME NEW q \in [Task -> Entry], NEW u \in Task
    PROVE  /\ UnblockParent(q, u) \in [Task -> Entry]
           /\ \A t \in Task :
                 \/ UnblockParent(q, u)[t] = q[t]
                 \/ /\ q[t].status = "blocked"
                    /\ UnblockParent(q, u)[t] = Unblock(q[t])
  BY EntryType DEF UnblockParent

(* Completing u completes u and otherwise only unblocks.                    *)
LEMMA CompleteEffect ==
    ASSUME NEW q \in [Task -> Entry], NEW u \in Task
    PROVE  /\ MarkTaskComplete(q, u) \in [Task -> Entry]
           /\ MarkTaskComplete(q, u)[u] = [q[u] EXCEPT !.status = "complete"]
           /\ \A t \in Task \ {u} :
                 \/ MarkTaskComplete(q, u)[t] = q[t]
                 \/ /\ q[t].status = "blocked"
                    /\ MarkTaskComplete(q, u)[t] = Unblock(q[t])
<1>. DEFINE q1 == [q EXCEPT ![u].status = "complete"]
            q2 == UnblockParent(q1, u)
<1>1. /\ q1 \in [Task -> Entry]
      /\ q1[u] = [q[u] EXCEPT !.status = "complete"]
      /\ q1[u].status = "complete"
      /\ \A t \in Task \ {u} : q1[t] = q[t]
  <2>1. [q[u] EXCEPT !.status = "complete"] \in Entry
    BY EntryType DEF Status
  <2>. QED
    BY <2>1, SetEntryType DEF Entry
<1>2. /\ q2 \in [Task -> Entry]
      /\ \A t \in Task : \/ q2[t] = q1[t]
                         \/ /\ q1[t].status = "blocked"
                            /\ q2[t] = Unblock(q1[t])
  <2>. HIDE DEF q1
  <2>. QED
    BY <1>1, UnblockParentEffect
<1>3. /\ UpdateBlockedTasks(q2) \in [Task -> Entry]
      /\ \A t \in Task : \/ UpdateBlockedTasks(q2)[t] = q2[t]
                         \/ /\ q2[t].status = "blocked"
                            /\ UpdateBlockedTasks(q2)[t] = Unblock(q2[t])
  <2>. HIDE DEF q2
  <2>. QED
    BY <1>2, UpdateBlockedEffect
<1>4. MarkTaskComplete(q, u) = UpdateBlockedTasks(q2)
  BY DEF MarkTaskComplete
<1>5. \A t \in Task : Unblock(q1[t]).status = "pending"
  BY <1>1 DEF Unblock, Entry
<1>. HIDE DEF q1, q2
<1>6. MarkTaskComplete(q, u)[u] = q1[u]
  BY <1>1, <1>2, <1>3, <1>4
<1>7. ASSUME NEW t \in Task \ {u}
      PROVE  \/ MarkTaskComplete(q, u)[t] = q[t]
             \/ /\ q[t].status = "blocked"
                /\ MarkTaskComplete(q, u)[t] = Unblock(q[t])
  <2>1. CASE q2[t] = q1[t]
    BY <2>1, <1>1, <1>3, <1>4
  <2>2. CASE q1[t].status = "blocked" /\ q2[t] = Unblock(q1[t])
    BY <2>2, <1>1, <1>3, <1>4, <1>5
  <2>. QED
    BY <2>1, <2>2, <1>2
<1>. QED
  BY <1>1, <1>3, <1>4, <1>6, <1>7

(* What a failure leaves: a pending task, or a failed one whose restarts    *)
(* have reached the limit.                                                  *)
LEMMA FailEffect ==
    ASSUME NEW q \in [Task -> Entry], NEW u \in Task
    PROVE  /\ MarkTaskFailed(q, u) \in [Task -> Entry]
           /\ \A t \in Task \ {u} : MarkTaskFailed(q, u)[t] = q[t]
           /\ MarkTaskFailed(q, u)[u].deps = q[u].deps
           /\ MarkTaskFailed(q, u)[u].parent = q[u].parent
           /\ MarkTaskFailed(q, u)[u].blockedBy = q[u].blockedBy
           /\ \/ MarkTaskFailed(q, u)[u].status = "pending"
              \/ /\ MarkTaskFailed(q, u)[u].status = "failed"
                 /\ FailsForGood(q, u)
                 /\ MarkTaskFailed(q, u)[u].restarts >= MaxRestarts
<1>. DEFINE counted == [q[u] EXCEPT !.restarts = @ + 1]
            e == IF FailsForGood(q, u)
                 THEN [counted EXCEPT !.status = "failed"] ELSE ToPending(counted)
<1>1. counted \in Entry /\ counted.restarts = q[u].restarts + 1
      /\ counted.parent = q[u].parent /\ counted.blockedBy = q[u].blockedBy
      /\ counted.deps = q[u].deps
  BY EntryType DEF Entry
<1>2. MarkTaskFailed(q, u) = [q EXCEPT ![u] = e]
  BY DEF MarkTaskFailed
<1>. HIDE DEF counted
<1>3. [counted EXCEPT !.status = "failed"] \in Entry /\ ToPending(counted) \in Entry
  BY <1>1, EntryType DEF Status
<1>4. /\ e \in Entry
      /\ e.parent = q[u].parent /\ e.blockedBy = q[u].blockedBy /\ e.deps = q[u].deps
      /\ \/ e.status = "pending"
         \/ e.status = "failed" /\ FailsForGood(q, u) /\ e.restarts = q[u].restarts + 1
  BY <1>1, <1>3 DEF ToPending, Entry
<1>. HIDE DEF e
<1>. QED
  BY <1>2, <1>4, SetEntryType DEF FailsForGood

(* Releasing u makes it pending, whatever it was.                           *)
LEMMA ReleaseEffect ==
    ASSUME NEW q \in [Task -> Entry], NEW u \in Task
    PROVE  /\ ReleaseTask(q, u) \in [Task -> Entry]
           /\ \A t \in Task \ {u} : ReleaseTask(q, u)[t] = q[t]
           /\ ReleaseTask(q, u)[u] = ToPending(q[u])
  BY EntryType, SetEntryType DEF ReleaseTask

(* Claiming u changes its status and owner only.                            *)
LEMMA ClaimEffect ==
    ASSUME NEW q \in [Task -> Entry], NEW u \in Task, NEW w \in Identity
    PROVE  /\ ClaimTask(q, u, w) \in [Task -> Entry]
           /\ \A t \in Task \ {u} : ClaimTask(q, u, w)[t] = q[t]
           /\ ClaimTask(q, u, w)[u].status = "claimed"
           /\ ClaimTask(q, u, w)[u].parent = q[u].parent
           /\ ClaimTask(q, u, w)[u].blockedBy = q[u].blockedBy
           /\ ClaimTask(q, u, w)[u].deps = q[u].deps
<1>. DEFINE e == [q[u] EXCEPT !.status = "claimed", !.claimedBy = w]
<1>1. e \in Entry /\ e.status = "claimed" /\ e.parent = q[u].parent
      /\ e.blockedBy = q[u].blockedBy /\ e.deps = q[u].deps
  BY ClaimedEntry
<1>2. ClaimTask(q, u, w) = [q EXCEPT ![u] = e]
  BY DEF ClaimTask
<1>. QED
  BY <1>1, <1>2, SetEntryType

(* Approval makes u pending with the reviewer's dependencies and priority,  *)
(* and otherwise only unblocks.                                             *)
LEMMA ApproveEffect ==
    ASSUME NEW q \in [Task -> Entry], NEW u \in Task,
           NEW deps \in SUBSET Task, NEW priority \in Priority
    PROVE  /\ ApproveTask(q, u, deps, priority) \in [Task -> Entry]
           /\ ApproveTask(q, u, deps, priority)[u].status = "pending"
           /\ ApproveTask(q, u, deps, priority)[u].parent = q[u].parent
           /\ ApproveTask(q, u, deps, priority)[u].blockedBy = q[u].blockedBy
           /\ \A t \in Task \ {u} :
                 \/ ApproveTask(q, u, deps, priority)[t] = q[t]
                 \/ /\ q[t].status = "blocked"
                    /\ ApproveTask(q, u, deps, priority)[t] = Unblock(q[t])
<1>. DEFINE e == Approved(q[u], deps, priority)
            q1 == [q EXCEPT ![u] = e]
<1>1. e \in Entry /\ e.status = "pending" /\ e.parent = q[u].parent
      /\ e.blockedBy = q[u].blockedBy
  BY ApprovedEntry
<1>2. ApproveTask(q, u, deps, priority) = UpdateBlockedTasks(q1)
  BY DEF ApproveTask
<1>3. q1 \in [Task -> Entry] /\ q1[u] = e /\ \A t \in Task \ {u} : q1[t] = q[t]
  BY <1>1, SetEntryType
<1>. HIDE DEF e, q1
<1>. QED
  BY <1>1, <1>2, <1>3, UpdateBlockedEffect

(* Rejecting or skipping u changes its status only.                         *)
LEMMA VerdictEffect ==
    ASSUME NEW q \in [Task -> Entry], NEW u \in Task
    PROVE  /\ RejectTask(q, u) = [q EXCEPT ![u] = [q[u] EXCEPT !.status = "rejected"]]
           /\ RejectTask(q, u) \in [Task -> Entry]
           /\ SkipTask(q, u) = [q EXCEPT ![u] = [q[u] EXCEPT !.status = "skipped"]]
           /\ SkipTask(q, u) \in [Task -> Entry]
  BY EntryType, SetEntryType DEF RejectTask, SkipTask, Status

(* Subdividing p adds the kids and blocks p on exactly them.                *)
LEMMA SubdivideEffect ==
    ASSUME NEW q \in [Task -> Entry], NEW p \in Task, NEW kids \in SUBSET Task
    PROVE  /\ CreateSubtasks(q, p, kids) \in [Task -> Entry]
           /\ \A t \in Task \ (kids \cup {p}) : CreateSubtasks(q, p, kids)[t] = q[t]
           /\ \A t \in kids : CreateSubtasks(q, p, kids)[t]
                                = NewEntry("pending", p, {}, q[p].priority)
           /\ p \notin kids => CreateSubtasks(q, p, kids)[p]
                                = WaitingFor(q[p], kids)
<1>1. WaitingFor(q[p], kids) \in Entry
  BY WaitingEntry
<1>2. NewEntry("pending", p, {}, q[p].priority) \in Entry
  BY NewEntryType DEF Entry, Status
<1>. QED
  BY <1>1, <1>2 DEF CreateSubtasks

(* Adding a discovered task adds that one entry.                            *)
LEMMA DiscoverEffect ==
    ASSUME NEW q \in [Task -> Entry], NEW u \in Task, NEW s \in Status,
           NEW deps \in SUBSET Task, NEW priority \in Priority
    PROVE  /\ AddDiscoveredTask(q, u, s, deps, priority) \in [Task -> Entry]
           /\ AddDiscoveredTask(q, u, s, deps, priority)[u] = NewEntry(s, NoTask, deps, priority)
           /\ \A t \in Task \ {u} : AddDiscoveredTask(q, u, s, deps, priority)[t] = q[t]
  BY NewEntryType, SetEntryType DEF AddDiscoveredTask

(* After a look at all blocked tasks, whoever is still blocked waits for a  *)
(* task that is not complete.                                               *)
Waiting(q, t) == q[t].status = "blocked" => ~(q[t].deps \cup q[t].blockedBy \subseteq Completed(q))

LEMMA UpdateBlockedWakes ==
    ASSUME NEW q \in [Task -> Entry], NEW t \in Task
    PROVE  Waiting(UpdateBlockedTasks(q), t)
<1>. DEFINE u == UpdateBlockedTasks(q)
<1>1. \A v \in Task : \/ u[v] = q[v]
                      \/ q[v].status = "blocked" /\ u[v] = Unblock(q[v])
  BY DEF UpdateBlockedTasks
<1>2. \A v \in Task : q[v] \in Entry /\ Unblock(q[v]).status = "pending"
  BY DEF Unblock, Entry
<1>3. Completed(u) = Completed(q)
  BY <1>1, <1>2 DEF Completed, WithStatus
<1>4. CASE q[t].status = "blocked" /\ q[t].deps \cup q[t].blockedBy \subseteq Completed(q)
  <2>1. u[t] = Unblock(q[t])
    BY <1>4 DEF UpdateBlockedTasks
  <2>. QED
    BY <2>1, <1>2 DEF Waiting
<1>5. CASE ~(q[t].status = "blocked" /\ q[t].deps \cup q[t].blockedBy \subseteq Completed(q))
  <2>1. u[t] = q[t]
    BY <1>5 DEF UpdateBlockedTasks
  <2>. QED
    BY <2>1, <1>3, <1>5 DEF Waiting
<1>. QED
  BY <1>4, <1>5
=============================================================================
