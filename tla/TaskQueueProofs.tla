-------------------------- MODULE TaskQueueProofs --------------------------
(***************************************************************************)
(* Theorems about TaskQueue, for every set of tasks, plan and bound.        *)
(***************************************************************************)
EXTENDS TaskQueue, QueueOpsProofs, FiniteSetTheorems

-----------------------------------------------------------------------------
(***************************************************************************)
(* What each step of the queue does to the entry of a task u.               *)
(***************************************************************************)
Unchanged(u) == queue'[u] = queue[u]

SameLinks(u) ==
    /\ queue'[u].parent = queue[u].parent
    /\ queue'[u].blockedBy = queue[u].blockedBy

Unblocked(u) ==
    /\ queue[u].status = "blocked"
    /\ queue'[u].status = "pending"
    /\ queue'[u].parent = queue[u].parent
    /\ queue'[u].blockedBy = {}

LEMMA UnblockedBy ==
    ASSUME TypeOK, NEW u \in Task, queue[u].status = "blocked",
           queue'[u] = Unblock(queue[u])
    PROVE  Unblocked(u)
<1>1. queue[u] \in Entry
  BY DEF TypeOK
<1>. QED
  BY <1>1, EntryFields DEF Unblocked

LEMMA CompleteStep ==
    ASSUME TypeOK, NEW t \in Task, Complete(t), NEW u \in Task
    PROVE  /\ u = t => queue'[u].status = "complete" /\ SameLinks(u)
           /\ u # t => Unchanged(u) \/ Unblocked(u)
<1>1. queue' = MarkTaskComplete(queue, t) /\ queue \in [Task -> Entry]
  BY DEF Complete, TypeOK
<1>2. /\ MarkTaskComplete(queue, t)[t] = [queue[t] EXCEPT !.status = "complete"]
      /\ \A v \in Task \ {t} : \/ MarkTaskComplete(queue, t)[v] = queue[v]
                               \/ /\ queue[v].status = "blocked"
                                  /\ MarkTaskComplete(queue, t)[v] = Unblock(queue[v])
  BY <1>1, CompleteEffect
<1>3. [queue[t] EXCEPT !.status = "complete"].status = "complete"
      /\ [queue[t] EXCEPT !.status = "complete"].parent = queue[t].parent
      /\ [queue[t] EXCEPT !.status = "complete"].blockedBy = queue[t].blockedBy
  BY <1>1 DEF Entry
<1>. QED
  BY <1>1, <1>2, <1>3, UnblockedBy DEF Unchanged, SameLinks

LEMMA VerdictStep ==
    ASSUME TypeOK, NEW t \in Task, GateSkip(t) \/ Reject(t), NEW u \in Task
    PROVE  /\ u = t => queue'[u].status \in {"skipped", "rejected"} /\ SameLinks(u)
           /\ u # t => Unchanged(u)
<1>1. queue \in [Task -> Entry]
  BY DEF TypeOK
<1>2. PICK s \in {"skipped", "rejected"} :
         queue' = [queue EXCEPT ![t] = [queue[t] EXCEPT !.status = s]]
  BY <1>1, VerdictEffect DEF GateSkip, Reject
<1>3. [queue[t] EXCEPT !.status = s].status = s
      /\ [queue[t] EXCEPT !.status = s].parent = queue[t].parent
      /\ [queue[t] EXCEPT !.status = s].blockedBy = queue[t].blockedBy
  BY <1>1 DEF Entry
<1>. QED
  BY <1>1, <1>2, <1>3 DEF Unchanged, SameLinks

LEMMA FailStep ==
    ASSUME TypeOK, NEW t \in Task, Fail(t), NEW u \in Task
    PROVE  /\ u = t => /\ SameLinks(u)
                       /\ \/ queue'[u].status = "pending"
                          \/ /\ queue'[u].status = "failed"
                             /\ FailsForGood(queue, t)
                             /\ queue'[u].restarts >= MaxRestarts
           /\ u # t => Unchanged(u)
<1>1. queue' = MarkTaskFailed(queue, t) /\ queue \in [Task -> Entry]
  BY DEF Fail, TypeOK
<1>. QED
  BY <1>1, FailEffect DEF Unchanged, SameLinks

LEMMA ReleaseStep ==
    ASSUME TypeOK, NEW t \in Task, Release(t), NEW u \in Task
    PROVE  /\ u = t => queue'[u].status = "pending" /\ SameLinks(u)
           /\ u # t => Unchanged(u)
<1>1. queue' = ReleaseTask(queue, t) /\ queue \in [Task -> Entry] /\ queue[t] \in Entry
  BY DEF Release, TypeOK
<1>. QED
  BY <1>1, ReleaseEffect, EntryFields DEF Unchanged, SameLinks

LEMMA ClaimStep ==
    ASSUME TypeOK, NEW t \in Task, NEW w \in Identity, Claim(t, w), NEW u \in Task
    PROVE  /\ u = t => queue'[u].status = "claimed" /\ SameLinks(u)
           /\ u # t => Unchanged(u)
<1>1. queue' = ClaimTask(queue, t, w) /\ queue \in [Task -> Entry]
  BY DEF Claim, TypeOK
<1>. QED
  BY <1>1, ClaimEffect DEF Unchanged, SameLinks

LEMMA DiscoverStep ==
    ASSUME TypeOK, NEW t \in Task, NEW s \in {"pending", "pending_review"},
           NEW deps \in Discoveries, NEW priority \in Priority,
           Discover(t, s, deps, priority), NEW u \in Task
    PROVE  /\ u = t => queue'[u].status = s /\ queue'[u].parent = NoTask
                       /\ queue'[u].blockedBy = {}
           /\ u # t => Unchanged(u)
<1>1. /\ queue' = AddDiscoveredTask(queue, t, s, deps, priority)
      /\ queue \in [Task -> Entry] /\ s \in Status /\ deps \in SUBSET Task
  BY BoundsAssumption DEF Discover, TypeOK, Status
<1>2. /\ AddDiscoveredTask(queue, t, s, deps, priority)[t] = NewEntry(s, NoTask, deps, priority)
      /\ \A v \in Task \ {t} : AddDiscoveredTask(queue, t, s, deps, priority)[v] = queue[v]
  BY <1>1 DEF AddDiscoveredTask
<1>3. /\ NewEntry(s, NoTask, deps, priority).status = s
      /\ NewEntry(s, NoTask, deps, priority).parent = NoTask
      /\ NewEntry(s, NoTask, deps, priority).blockedBy = {}
  BY DEF NewEntry
<1>. QED
  BY <1>1, <1>2, <1>3 DEF Unchanged

LEMMA ApproveStep ==
    ASSUME TypeOK, NEW t \in Task, NEW deps \in Discoveries, NEW priority \in Priority,
           Approve(t, deps, priority), NEW u \in Task
    PROVE  /\ u = t => queue'[u].status = "pending" /\ SameLinks(u)
           /\ u # t => Unchanged(u) \/ Unblocked(u)
<1>1. /\ queue' = ApproveTask(queue, t, deps, priority)
      /\ queue \in [Task -> Entry] /\ deps \in SUBSET Task
  BY BoundsAssumption DEF Approve, TypeOK
<1>2. /\ ApproveTask(queue, t, deps, priority)[t].status = "pending"
      /\ ApproveTask(queue, t, deps, priority)[t].parent = queue[t].parent
      /\ ApproveTask(queue, t, deps, priority)[t].blockedBy = queue[t].blockedBy
      /\ \A v \in Task \ {t} :
            \/ ApproveTask(queue, t, deps, priority)[v] = queue[v]
            \/ /\ queue[v].status = "blocked"
               /\ ApproveTask(queue, t, deps, priority)[v] = Unblock(queue[v])
  BY <1>1, ApproveEffect
<1>. QED
  BY <1>1, <1>2, UnblockedBy DEF Unchanged, SameLinks

LEMMA SubdivideStep ==
    ASSUME TypeOK, NEW p \in Task, NEW count \in 1..MaxSubtasks, Subdivide(p, count),
           NEW u \in Task
    PROVE  LET kids == SubtaskIds(queue, p, count)
           IN  /\ u \in kids => /\ queue'[u].status = "pending"
                                /\ queue'[u].parent = p
                                /\ queue'[u].blockedBy = {}
               /\ u \notin kids /\ u = p => /\ queue'[u].status = "blocked"
                                            /\ queue'[u].parent = queue[u].parent
                                            /\ queue'[u].blockedBy = kids
                                            /\ queue'[u].deps = queue[u].deps
               /\ u \notin kids /\ u # p => Unchanged(u)
<1>. DEFINE kids == SubtaskIds(queue, p, count)
<1>1. /\ queue' = CreateSubtasks(queue, p, kids) /\ queue \in [Task -> Entry]
      /\ queue[p] \in Entry /\ kids \in SUBSET Task
  BY DEF Subdivide, TypeOK, SubtaskIds
<1>. HIDE DEF kids
<1>2. /\ \A v \in Task \ (kids \cup {p}) : CreateSubtasks(queue, p, kids)[v] = queue[v]
      /\ \A v \in kids : CreateSubtasks(queue, p, kids)[v]
                           = NewEntry("pending", p, {}, queue[p].priority)
      /\ p \notin kids => CreateSubtasks(queue, p, kids)[p]
                           = WaitingFor(queue[p], kids)
  BY <1>1, SubdivideEffect
<1>3. /\ NewEntry("pending", p, {}, queue[p].priority).status = "pending"
      /\ NewEntry("pending", p, {}, queue[p].priority).parent = p
      /\ NewEntry("pending", p, {}, queue[p].priority).blockedBy = {}
  BY DEF NewEntry
<1>4. /\ WaitingFor(queue[p], kids).status = "blocked"
      /\ WaitingFor(queue[p], kids).parent = queue[p].parent
      /\ WaitingFor(queue[p], kids).blockedBy = kids
      /\ WaitingFor(queue[p], kids).deps = queue[p].deps
  BY <1>1, WaitingEntry
<1>5. CASE u \in kids
  BY <1>1, <1>2, <1>3, <1>5 DEF kids
<1>6. CASE u \notin kids /\ u = p
  BY <1>1, <1>2, <1>4, <1>6 DEF kids
<1>7. CASE u \notin kids /\ u # p
  BY <1>1, <1>2, <1>7 DEF Unchanged, kids
<1>. QED
  BY <1>5, <1>6, <1>7

-----------------------------------------------------------------------------
(* The files always hold entries of the declared shape.                     *)
THEOREM TypeCorrect == Spec => []TypeOK
<1>1. Init => TypeOK
  BY SeedEffect, BoundsAssumption DEF Init, TypeOK
<1>2. TypeOK /\ [Next]_vars => TypeOK'
  <2>. SUFFICES ASSUME TypeOK, [Next]_vars
                PROVE  TypeOK'
    OBVIOUS
  <2>. USE DEF TypeOK
  <2>1. ASSUME NEW q \in [Task -> Entry]
        PROVE  ProgressCheckpoint(q) \in Snapshot
    BY DEF ProgressCheckpoint, Snapshot, Completed, WithStatus
  <2>2. ASSUME NEW t \in Task
        PROVE  ClaimedCheckpoint(progress, t) \in Snapshot
    BY DEF ClaimedCheckpoint, Snapshot
  <2>3. CASE UNCHANGED vars
    BY <2>3 DEF vars
  <2>4. ASSUME NEW t \in Task, GateSkip(t)
        PROVE  TypeOK'
    BY <2>4, VerdictEffect DEF GateSkip
  <2>5. ASSUME NEW t \in Task, GetNextTask(t)
        PROVE  TypeOK'
    BY <2>5 DEF GetNextTask
  <2>6. ASSUME NEW t \in Task, Complete(t)
        PROVE  TypeOK'
    BY <2>6, <2>1, CompleteEffect DEF Complete
  <2>7. ASSUME NEW t \in Task, Fail(t)
        PROVE  TypeOK'
    BY <2>7, <2>1, FailEffect DEF Fail
  <2>8. ASSUME NEW t \in Task, Release(t)
        PROVE  TypeOK'
    BY <2>8, ReleaseEffect DEF Release
  <2>9. ASSUME NEW t \in Task, Reject(t)
        PROVE  TypeOK'
    BY <2>9, VerdictEffect DEF Reject
  <2>10. ASSUME NEW t \in Task, NEW w \in Identity, Claim(t, w)
         PROVE  TypeOK'
    BY <2>10, <2>2, ClaimEffect DEF Claim
  <2>11. ASSUME NEW t \in Task, NEW s \in {"pending", "pending_review"},
                NEW deps \in Discoveries, NEW priority \in Priority,
                Discover(t, s, deps, priority)
         PROVE  TypeOK'
    BY <2>11, DiscoverEffect, BoundsAssumption DEF Discover, NumbersGiven, Status
  <2>12. ASSUME NEW t \in Task, NEW deps \in Discoveries, NEW priority \in Priority,
                Approve(t, deps, priority)
         PROVE  TypeOK'
    BY <2>12, ApproveEffect, BoundsAssumption DEF Approve
  <2>13. ASSUME NEW p \in Task, NEW count \in 1..MaxSubtasks, Subdivide(p, count)
         PROVE  TypeOK'
    <3>1. SubtaskIds(queue, p, count) \in SUBSET Task
      BY DEF SubtaskIds
    <3>. QED
      BY <3>1, <2>13, SubdivideEffect DEF Subdivide, NumbersGiven
  <2>. QED
    BY <2>3, <2>4, <2>5, <2>6, <2>7, <2>8, <2>9, <2>10, <2>11, <2>12, <2>13 DEF Next
<1>. QED
  BY <1>1, <1>2, PTL DEF Spec

-----------------------------------------------------------------------------
(***************************************************************************)
(* New ids.  Counting finds a free id because no number in the queue is     *)
(* above the count: a task is never removed, and every task was numbered,   *)
(* by the plan or by an earlier count, from one up without gaps.            *)
(***************************************************************************)
NumberedBelow(q, t) ==
    /\ ParentId[t] # NoTask => Number[t] <= Cardinality(Children(q, ParentId[t]))
    /\ ParentId[t] = NoTask /\ Series[t] # "TASK"
         => Number[t] <= Cardinality(InSeries(q, Series[t]))

Linked(q, t) ==
    q[t].parent = IF q[t].status = "absent" THEN NoTask ELSE ParentId[t]

NumbersInv ==
    /\ \A t \in Task : Linked(queue, t)
    /\ \A t \in Present(queue) : NumberedBelow(queue, t)
    /\ Plan \cup offered \subseteq Present(queue)
    /\ reused = {}

(* The sets that are counted are finite.                                    *)
LEMMA FiniteCounts ==
    ASSUME NEW q, NEW S \in SUBSET Task
    PROVE  /\ IsFiniteSet(S) /\ Cardinality(S) \in Nat
           /\ \A T \in SUBSET S : Cardinality(T) <= Cardinality(S)
<1>1. IsFiniteSet(S)
  BY IdsAssumption, FS_Subset
<1>. QED
  BY <1>1, FS_Subset, FS_CardinalityType

(* As long as no task is removed, no number rises above the count.          *)
LEMMA NumbersStay ==
    ASSUME NEW q, NEW r,
           \A t \in Task : Linked(q, t),
           \A t \in Task : Linked(r, t),
           Present(q) \subseteq Present(r),
           NEW t \in Present(q), NumberedBelow(q, t)
    PROVE  NumberedBelow(r, t)
<1>1. t \in Task /\ Number[t] \in Nat
  BY IdsAssumption DEF Present
<1>2. InSeries(q, Series[t]) \subseteq InSeries(r, Series[t])
      /\ InSeries(r, Series[t]) \subseteq Task
  BY DEF InSeries, Present
<1>3. Cardinality(InSeries(q, Series[t])) \in Nat /\ Cardinality(InSeries(r, Series[t])) \in Nat
      /\ Cardinality(InSeries(q, Series[t])) <= Cardinality(InSeries(r, Series[t]))
  BY <1>2, FiniteCounts
<1>4. ASSUME ParentId[t] # NoTask
      PROVE  /\ Cardinality(Children(q, ParentId[t])) \in Nat
             /\ Cardinality(Children(r, ParentId[t])) \in Nat
             /\ Cardinality(Children(q, ParentId[t])) <= Cardinality(Children(r, ParentId[t]))
  <2>1. Children(q, ParentId[t]) \subseteq Children(r, ParentId[t])
    BY <1>4 DEF Children, Linked, Present, WithStatus
  <2>2. Children(r, ParentId[t]) \subseteq Task
    BY DEF Children
  <2>. QED
    BY <2>1, <2>2, FiniteCounts
<1>. QED
  BY <1>1, <1>3, <1>4 DEF NumberedBelow

(* A discovered task gets an id that is free, and that the count covers.    *)
LEMMA FreshDiscovery ==
    ASSUME NumbersInv, NEW t \in Task, NEW series \in {"DISC", "FIX"},
           IsNextId(queue, t, series)
    PROVE  t \notin Present(queue)
<1>1. Cardinality(InSeries(queue, series)) \in Nat
  BY FiniteCounts DEF InSeries, Present
<1>. QED
  BY <1>1 DEF NumbersInv, NumberedBelow, IsNextId

(* Subtasks get ids that are free.                                          *)
LEMMA FreshSubtasks ==
    ASSUME NumbersInv, NEW p \in Task, NEW count \in 1..MaxSubtasks
    PROVE  SubtaskIds(queue, p, count) \cap Present(queue) = {}
<1>1. Cardinality(Children(queue, p)) \in Nat
  BY FiniteCounts DEF Children
<1>2. ASSUME NEW t \in SubtaskIds(queue, p, count), t \in Present(queue)
      PROVE  FALSE
  <2>1. /\ ParentId[t] = p /\ p # NoTask
        /\ Number[t] \in Cardinality(Children(queue, p)) + 1..Cardinality(Children(queue, p)) + count
    BY QueueAssumption DEF SubtaskIds
  <2>2. Number[t] <= Cardinality(Children(queue, p))
    BY <1>2, <2>1 DEF NumbersInv, NumberedBelow
  <2>. QED
    BY <1>1, <2>1, <2>2
<1>. QED
  BY <1>2

(* The plan is numbered from one up, so the first count finds a free id.    *)
LEMMA NumbersStart ==
    ASSUME Init
    PROVE  NumbersInv
<1>. DEFINE s == LoadSnapshot(progress)
<1>1. queue = Seed(s) /\ offered = {} /\ reused = {}
  BY DEF Init
<1>2. /\ \A t \in Task \ Plan : queue[t].status = "absent" /\ queue[t].parent = NoTask
      /\ \A t \in Plan : queue[t].status # "absent" /\ queue[t].parent = PlanParent[t]
  BY <1>1, SeedEffect
<1>. HIDE DEF s
<1>3. Present(queue) = Plan /\ \A t \in Task : Linked(queue, t)
  BY <1>2, QueueAssumption, PlanAssumption DEF Present, WithStatus, Linked
<1>4. ASSUME NEW t \in Plan
      PROVE  NumberedBelow(queue, t)
  <2>1. t \in Task /\ Number[t] \in Nat
    BY QueueAssumption, IdsAssumption
  <2>2. InSeries(queue, Series[t]) = {u \in Plan : Series[u] = Series[t]}
    BY <1>3 DEF InSeries
  <2>3. ASSUME ParentId[t] # NoTask
        PROVE  Children(queue, ParentId[t]) = {u \in Plan : PlanParent[u] = ParentId[t]}
    BY <1>2, <2>3, QueueAssumption DEF Children
  <2>. QED
    BY <2>2, <2>3, PlanAssumption DEF NumberedBelow
<1>. QED
  BY <1>1, <1>3, <1>4 DEF NumbersInv

(* What is not numbered keeps its id.                                       *)
KeepsIds ==
    /\ \A u \in Task : /\ queue'[u].status = "absent" <=> queue[u].status = "absent"
                       /\ queue'[u].parent = queue[u].parent
    /\ reused' = reused
    /\ offered' \subseteq Present(queue)

LEMMA IdsKept ==
    ASSUME NumbersInv, KeepsIds
    PROVE  NumbersInv'
<1>1. Present(queue') = Present(queue) /\ \A t \in Task : Linked(queue', t)
  BY DEF KeepsIds, NumbersInv, Linked, Present, WithStatus
<1>2. \A t \in Present(queue) : NumberedBelow(queue', t)
  BY <1>1, NumbersStay DEF NumbersInv
<1>. QED
  BY <1>1, <1>2 DEF NumbersInv, KeepsIds

LEMMA DiscoveryNumbered ==
    ASSUME TypeOK, NumbersInv, NEW t \in Task, NEW s \in {"pending", "pending_review"},
           NEW deps \in Discoveries, NEW priority \in Priority,
           Discover(t, s, deps, priority)
    PROVE  NumbersInv'
<1>. DEFINE series == IF s = "pending" THEN "FIX" ELSE "DISC"
<1>1. series \in {"DISC", "FIX"} /\ IsNextId(queue, t, series)
  BY DEF Discover
<1>2. t \notin Present(queue)
  BY <1>1, FreshDiscovery
<1>3. /\ Present(queue') = Present(queue) \cup {t}
      /\ \A u \in Task : Linked(queue', u)
  BY <1>1, DiscoverStep DEF Present, WithStatus, Linked, NumbersInv, Unchanged, IsNextId
<1>4. NumberedBelow(queue', t)
  <2>1. /\ ParentId[t] = NoTask /\ Series[t] = series
        /\ Number[t] = Cardinality(InSeries(queue, series)) + 1
    BY <1>1 DEF IsNextId
  <2>2. InSeries(queue', series) = InSeries(queue, series) \cup {t} /\ t \notin InSeries(queue, series)
    BY <1>2, <1>3, <2>1 DEF InSeries
  <2>3. IsFiniteSet(InSeries(queue, series)) /\ Cardinality(InSeries(queue, series)) \in Nat
    BY FiniteCounts DEF InSeries, Present
  <2>4. Cardinality(InSeries(queue', series)) = Cardinality(InSeries(queue, series)) + 1
    BY <2>2, <2>3, FS_AddElement
  <2>. QED
    BY <2>1, <2>3, <2>4 DEF NumberedBelow
<1>5. \A u \in Present(queue) : NumberedBelow(queue', u)
  BY <1>3, NumbersStay DEF NumbersInv
<1>6. reused' = {} /\ offered' = offered
  BY <1>2 DEF Discover, NumbersGiven, NumbersInv
<1>. QED
  BY <1>3, <1>4, <1>5, <1>6 DEF NumbersInv

LEMMA SubtasksNumbered ==
    ASSUME TypeOK, NumbersInv, NEW p \in Task, NEW count \in 1..MaxSubtasks,
           Subdivide(p, count)
    PROVE  NumbersInv'
<1>. DEFINE kids == SubtaskIds(queue, p, count)
<1>1. kids \cap Present(queue) = {} /\ kids \subseteq Task /\ \A k \in kids : ParentId[k] = p
  BY FreshSubtasks DEF SubtaskIds
<1>2. p \in Present(queue) /\ p # NoTask
  BY QueueAssumption DEF Subdivide, TypeOK, NumbersInv
<1>3. /\ Present(queue') = Present(queue) \cup kids
      /\ \A u \in Task : Linked(queue', u)
  <2>1. ASSUME NEW u \in Task
        PROVE  /\ u \in Present(queue') <=> u \in Present(queue) \cup kids
               /\ Linked(queue', u)
    <3>1. CASE u \in kids
      BY <3>1, <1>1, SubdivideStep DEF Present, WithStatus, Linked
    <3>2. CASE u \notin kids /\ u = p
      <4>1. queue'[u].status = "blocked" /\ queue'[u].parent = queue[u].parent
        BY <3>2, SubdivideStep
      <4>. QED
        BY <3>2, <4>1, <1>2 DEF Present, WithStatus, Linked, NumbersInv
    <3>3. CASE u \notin kids /\ u # p
      <4>1. queue'[u] = queue[u]
        BY <3>3, SubdivideStep DEF Unchanged
      <4>. QED
        BY <3>3, <4>1 DEF Present, WithStatus, Linked, NumbersInv
    <3>. QED
      BY <3>1, <3>2, <3>3
  <2>. QED
    BY <2>1, <1>1 DEF Present
<1>4. ASSUME NEW k \in kids
      PROVE  NumberedBelow(queue', k)
  <2>1. Children(queue', p) = Children(queue, p) \cup kids /\ Children(queue, p) \cap kids = {}
    BY <1>1, <1>2, <1>3 DEF Children, Linked, NumbersInv, Present, WithStatus
  <2>2. /\ IsFiniteSet(Children(queue, p)) /\ Cardinality(Children(queue, p)) \in Nat
        /\ IsFiniteSet(kids) /\ Cardinality(kids) = count
    <3>1. Children(queue, p) \in SUBSET Task /\ kids \in SUBSET Task
      BY <1>1 DEF Children
    <3>. QED
      BY <3>1, FiniteCounts DEF Subdivide
  <2>3. Cardinality(Children(queue', p)) = Cardinality(Children(queue, p)) + count
    <3>. DEFINE old == Children(queue, p)
    <3>. HIDE DEF kids, old
    <3>1. Cardinality(old \cup kids) = Cardinality(old) + count - Cardinality(old \cap kids)
      BY <2>2, FS_Union DEF old
    <3>2. Cardinality(old \cap kids) = 0
      BY <2>1, FS_EmptySet DEF old
    <3>. QED
      BY <2>1, <2>2, <3>1, <3>2 DEF old
  <2>4. Number[k] <= Cardinality(Children(queue, p)) + count
    BY <2>2 DEF SubtaskIds
  <2>. QED
    BY <1>1, <1>2, <2>3, <2>4 DEF NumberedBelow
<1>5. \A u \in Present(queue) : NumberedBelow(queue', u)
  BY <1>3, NumbersStay DEF NumbersInv
<1>6. reused' = {} /\ offered' = offered
  BY <1>1 DEF Subdivide, NumbersGiven, NumbersInv
<1>. QED
  BY <1>3, <1>4, <1>5, <1>6 DEF NumbersInv

LEMMA NumbersHold == Spec => []NumbersInv
<1>1. TypeOK /\ NumbersInv /\ [Next]_vars => NumbersInv'
  <2>. SUFFICES ASSUME TypeOK, NumbersInv, [Next]_vars
                PROVE  NumbersInv'
    OBVIOUS
  <2>1. Plan \cup offered \cup handed \subseteq Present(queue) /\ Present(queue) \subseteq Task
    BY DEF NumbersInv, TypeOK, Present
  <2>2. CASE UNCHANGED vars
    BY <2>1, <2>2, IdsKept DEF vars, KeepsIds
  <2>3. ASSUME NEW t \in Task, GateSkip(t) \/ Reject(t)
        PROVE  NumbersInv'
    <3>1. t \in Present(queue) /\ reused' = reused /\ offered' = offered
      BY <2>1, <2>3 DEF GateSkip, Reject, Present, WithStatus
    <3>. QED
      BY <2>1, <2>3, <3>1, VerdictStep, IdsKept
         DEF KeepsIds, Unchanged, SameLinks, Present, WithStatus
  <2>4. ASSUME NEW t \in Task, GetNextTask(t)
        PROVE  NumbersInv'
    <3>1. t \in Present(queue) /\ queue' = queue /\ reused' = reused /\ offered' = offered \cup {t}
      BY <2>4 DEF GetNextTask, NextTasks, Available, WithStatus, Present
    <3>. QED
      BY <2>1, <3>1, IdsKept DEF KeepsIds
  <2>5. ASSUME NEW t \in Task, Complete(t)
        PROVE  NumbersInv'
    <3>1. t \in Present(queue) /\ reused' = reused /\ offered' = offered
      BY <2>1, <2>5 DEF Complete
    <3>. QED
      BY <2>1, <2>5, <3>1, CompleteStep, IdsKept
         DEF KeepsIds, Unchanged, Unblocked, SameLinks, Present, WithStatus
  <2>6. ASSUME NEW t \in Task, Fail(t)
        PROVE  NumbersInv'
    <3>1. t \in Present(queue) /\ reused' = reused /\ offered' = offered
      BY <2>1, <2>6 DEF Fail
    <3>. QED
      BY <2>1, <2>6, <3>1, FailStep, IdsKept DEF KeepsIds, Unchanged, SameLinks, Present, WithStatus
  <2>7. ASSUME NEW t \in Task, Release(t)
        PROVE  NumbersInv'
    <3>1. t \in Present(queue) /\ reused' = reused /\ offered' = offered
      BY <2>1, <2>7 DEF Release
    <3>. QED
      BY <2>1, <2>7, <3>1, ReleaseStep, IdsKept
         DEF KeepsIds, Unchanged, SameLinks, Present, WithStatus
  <2>8. ASSUME NEW t \in Task, NEW w \in Identity, Claim(t, w)
        PROVE  NumbersInv'
    <3>1. t \in Present(queue) /\ reused' = reused /\ offered' = offered
      BY <2>1, <2>8 DEF Claim
    <3>. QED
      BY <2>1, <2>8, <3>1, ClaimStep, IdsKept DEF KeepsIds, Unchanged, SameLinks, Present, WithStatus
  <2>9. ASSUME NEW t \in Task, NEW s \in {"pending", "pending_review"},
               NEW deps \in Discoveries, NEW priority \in Priority,
               Discover(t, s, deps, priority)
        PROVE  NumbersInv'
    BY <2>9, DiscoveryNumbered
  <2>10. ASSUME NEW t \in Task, NEW deps \in Discoveries, NEW priority \in Priority,
                Approve(t, deps, priority)
         PROVE  NumbersInv'
    <3>1. t \in Present(queue) /\ reused' = reused /\ offered' = offered
      BY <2>10 DEF Approve, Present, WithStatus
    <3>. QED
      BY <2>1, <2>10, <3>1, ApproveStep, IdsKept
         DEF KeepsIds, Unchanged, Unblocked, SameLinks, Present, WithStatus
  <2>11. ASSUME NEW p \in Task, NEW count \in 1..MaxSubtasks, Subdivide(p, count)
         PROVE  NumbersInv'
    BY <2>11, SubtasksNumbered
  <2>. QED
    BY <2>2, <2>3, <2>4, <2>5, <2>6, <2>7, <2>8, <2>9, <2>10, <2>11 DEF Next
<1>. QED
  BY <1>1, NumbersStart, TypeCorrect, PTL DEF Spec

(* A new task never gets the id of a task that is in the queue.             *)
THEOREM IdsAreNeverReused == Spec => []IdsAreUnique
<1>1. NumbersInv => IdsAreUnique
  BY DEF NumbersInv, IdsAreUnique
<1>. QED
  BY <1>1, NumbersHold, PTL

-----------------------------------------------------------------------------
(* Nothing that review or the gate has not let through is ever offered to a *)
(* caller or in a worker's hands.                                           *)
THEOREM OnlyApprovedTasksRun == Spec => []OnlyApprovedWork
<1>1. Init => OnlyApprovedWork
  BY DEF Init, OnlyApprovedWork
<1>2. TypeOK /\ NumbersInv /\ OnlyApprovedWork /\ [Next]_vars => OnlyApprovedWork'
  <2>. SUFFICES ASSUME TypeOK, NumbersInv, OnlyApprovedWork, [Next]_vars,
                       NEW u \in offered' \cup handed'
                PROVE  queue'[u].status \notin NotApproved
    BY DEF OnlyApprovedWork
  <2>1. handed \subseteq offered /\ offered \subseteq Task
    BY DEF TypeOK
  <2>2. u \in offered => queue[u].status \notin NotApproved
    BY DEF OnlyApprovedWork
  <2>3. Unblocked(u) => queue'[u].status \notin NotApproved
    BY DEF Unblocked, NotApproved
  <2>. USE DEF NotApproved
  <2>4. CASE UNCHANGED vars
    BY <2>1, <2>2, <2>4 DEF vars
  <2>5. ASSUME NEW t \in Task, GateSkip(t)
        PROVE  queue'[u].status \notin NotApproved
    BY <2>1, <2>5 DEF GateSkip
  <2>6. ASSUME NEW t \in Task, Reject(t)
        PROVE  queue'[u].status \notin NotApproved
    <3>1. u \in offered /\ u # t
      BY <2>1, <2>2, <2>6 DEF Reject
    <3>. QED
      BY <3>1, <2>1, <2>2, <2>6, VerdictStep DEF Unchanged
  <2>7. ASSUME NEW t \in Task, GetNextTask(t)
        PROVE  queue'[u].status \notin NotApproved
    <3>1. queue[t].status = "pending"
      BY <2>7 DEF GetNextTask, NextTasks, Available, WithStatus
    <3>. QED
      BY <3>1, <2>1, <2>2, <2>7 DEF GetNextTask
  <2>8. ASSUME NEW t \in Task, Complete(t)
        PROVE  queue'[u].status \notin NotApproved
    <3>1. u \in offered
      BY <2>1, <2>8 DEF Complete
    <3>. QED
      BY <3>1, <2>1, <2>2, <2>3, <2>8, CompleteStep DEF Unchanged
  <2>9. ASSUME NEW t \in Task, Fail(t)
        PROVE  queue'[u].status \notin NotApproved
    <3>1. u \in offered
      BY <2>1, <2>9 DEF Fail
    <3>. QED
      BY <3>1, <2>1, <2>2, <2>9, FailStep DEF Unchanged
  <2>10. ASSUME NEW t \in Task, Release(t)
         PROVE  queue'[u].status \notin NotApproved
    <3>1. u \in offered
      BY <2>1, <2>10 DEF Release
    <3>. QED
      BY <3>1, <2>1, <2>2, <2>10, ReleaseStep DEF Unchanged
  <2>11. ASSUME NEW t \in Task, NEW w \in Identity, Claim(t, w)
         PROVE  queue'[u].status \notin NotApproved
    <3>1. u \in offered
      BY <2>1, <2>11 DEF Claim
    <3>. QED
      BY <3>1, <2>1, <2>2, <2>11, ClaimStep DEF Unchanged
  <2>12. ASSUME NEW t \in Task, NEW s \in {"pending", "pending_review"},
                NEW deps \in Discoveries, NEW priority \in Priority,
                Discover(t, s, deps, priority)
         PROVE  queue'[u].status \notin NotApproved
    <3>1. u \in offered /\ t \notin Present(queue)
      BY <2>1, <2>12, FreshDiscovery DEF Discover
    <3>2. u # t
      BY <3>1 DEF NumbersInv
    <3>. QED
      BY <3>1, <3>2, <2>1, <2>2, <2>12, DiscoverStep DEF Unchanged
  <2>13. ASSUME NEW t \in Task, NEW deps \in Discoveries, NEW priority \in Priority,
                Approve(t, deps, priority)
         PROVE  queue'[u].status \notin NotApproved
    <3>1. u \in offered
      BY <2>1, <2>13 DEF Approve
    <3>. QED
      BY <3>1, <2>1, <2>2, <2>3, <2>13, ApproveStep DEF Unchanged
  <2>14. ASSUME NEW p \in Task, NEW count \in 1..MaxSubtasks, Subdivide(p, count)
         PROVE  queue'[u].status \notin NotApproved
    <3>1. u \in offered
      BY <2>1, <2>14 DEF Subdivide
    <3>. QED
      BY <3>1, <2>1, <2>2, <2>14, SubdivideStep DEF Unchanged
  <2>. QED
    BY <2>4, <2>5, <2>6, <2>7, <2>8, <2>9, <2>10, <2>11, <2>12, <2>13, <2>14 DEF Next
<1>. QED
  BY <1>1, <1>2, TypeCorrect, NumbersHold, PTL DEF Spec

(* The checkpoint knows of every task that is claimed.                      *)
THEOREM EveryClaimIsRecorded == Spec => []ClaimsAreRecorded
<1>1. Init => ClaimsAreRecorded
  BY SeedEffect DEF Init, ClaimsAreRecorded, WithStatus
<1>2. TypeOK /\ ClaimsAreRecorded /\ [Next]_vars => ClaimsAreRecorded'
  <2>. SUFFICES ASSUME TypeOK, ClaimsAreRecorded, [Next]_vars,
                       NEW u \in Task, queue'[u].status = "claimed"
                PROVE  u \in progress'.claimed
    BY DEF ClaimsAreRecorded, WithStatus
  <2>1. Unchanged(u) => u \in progress.claimed
    BY DEF ClaimsAreRecorded, WithStatus, Unchanged
  <2>2. ~Unblocked(u)
    BY DEF Unblocked
  <2>3. progress' = ProgressCheckpoint(queue') => u \in progress'.claimed
    BY DEF ProgressCheckpoint, WithStatus
  <2>4. CASE UNCHANGED vars
    BY <2>1, <2>4 DEF vars, Unchanged
  <2>5. ASSUME NEW t \in Task, GateSkip(t) \/ Reject(t)
        PROVE  u \in progress'.claimed
    BY <2>1, <2>5, VerdictStep DEF GateSkip, Reject
  <2>6. ASSUME NEW t \in Task, GetNextTask(t)
        PROVE  u \in progress'.claimed
    BY <2>1, <2>6 DEF GetNextTask, Unchanged
  <2>7. ASSUME NEW t \in Task, Complete(t)
        PROVE  u \in progress'.claimed
    BY <2>3, <2>7 DEF Complete
  <2>8. ASSUME NEW t \in Task, Fail(t)
        PROVE  u \in progress'.claimed
    <3>1. Unchanged(u)
      BY <2>8, FailStep
    <3>. QED
      BY <3>1, <2>1, <2>3, <2>8 DEF Fail
  <2>9. ASSUME NEW t \in Task, Release(t)
        PROVE  u \in progress'.claimed
    BY <2>1, <2>9, ReleaseStep DEF Release
  <2>10. ASSUME NEW t \in Task, NEW w \in Identity, Claim(t, w)
         PROVE  u \in progress'.claimed
    <3>1. progress'.claimed = progress.claimed \cup {t}
      BY <2>10 DEF Claim, ClaimedCheckpoint, TypeOK, Snapshot
    <3>. QED
      BY <3>1, <2>1, <2>10, ClaimStep
  <2>11. ASSUME NEW t \in Task, NEW s \in {"pending", "pending_review"},
                NEW deps \in Discoveries, NEW priority \in Priority,
                Discover(t, s, deps, priority)
         PROVE  u \in progress'.claimed
    <3>1. Unchanged(u)
      BY <2>11, DiscoverStep
    <3>. QED
      BY <3>1, <2>1, <2>11 DEF Discover
  <2>12. ASSUME NEW t \in Task, NEW deps \in Discoveries, NEW priority \in Priority,
                Approve(t, deps, priority)
         PROVE  u \in progress'.claimed
    <3>1. Unchanged(u)
      BY <2>2, <2>12, ApproveStep
    <3>. QED
      BY <3>1, <2>1, <2>12 DEF Approve
  <2>13. ASSUME NEW p \in Task, NEW count \in 1..MaxSubtasks, Subdivide(p, count)
         PROVE  u \in progress'.claimed
    <3>1. Unchanged(u)
      BY <2>13, SubdivideStep
    <3>. QED
      BY <3>1, <2>1, <2>13 DEF Subdivide
  <2>. QED
    BY <2>4, <2>5, <2>6, <2>7, <2>8, <2>9, <2>10, <2>11, <2>12, <2>13 DEF Next
<1>. QED
  BY <1>1, <1>2, TypeCorrect, PTL DEF Spec

(* A task of the plan needs no review: what the gate may skip was not       *)
(* rejected before.                                                         *)
PlanIsTrusted == \A t \in Plan : queue[t].status \notin {"pending_review", "rejected"}

LEMMA PlanStaysTrusted == Spec => []PlanIsTrusted
<1>1. Init => PlanIsTrusted
  BY SeedEffect DEF Init, PlanIsTrusted
<1>2. TypeOK /\ NumbersInv /\ PlanIsTrusted /\ [Next]_vars => PlanIsTrusted'
  <2>. SUFFICES ASSUME TypeOK, NumbersInv, PlanIsTrusted, [Next]_vars, NEW u \in Plan
                PROVE  queue'[u].status \notin {"pending_review", "rejected"}
    BY DEF PlanIsTrusted
  <2>. DEFINE Trusted == queue'[u].status \notin {"pending_review", "rejected"}
  <2>1. /\ u \in Task /\ u \in Present(queue)
        /\ Unchanged(u) \/ Unblocked(u) => Trusted
    BY QueueAssumption DEF PlanIsTrusted, NumbersInv, Unchanged, Unblocked
  <2>. HIDE DEF Trusted
  <2>2. CASE UNCHANGED vars
    BY <2>1, <2>2 DEF vars, Unchanged, Trusted
  <2>3. ASSUME NEW t \in Task, GateSkip(t)
        PROVE  Trusted
    <3>1. queue' = [queue EXCEPT ![t] = [queue[t] EXCEPT !.status = "skipped"]]
          /\ queue \in [Task -> Entry] /\ queue[t] \in Entry
      BY <2>3, VerdictEffect DEF GateSkip, TypeOK
    <3>2. [queue[t] EXCEPT !.status = "skipped"].status = "skipped"
      BY <3>1 DEF Entry
    <3>. QED
      BY <2>1, <3>1, <3>2 DEF Trusted, Unchanged
  <2>4. ASSUME NEW t \in Task, Reject(t)
        PROVE  Trusted
    <3>1. u # t
      BY <2>4 DEF Reject, PlanIsTrusted
    <3>. QED
      BY <2>1, <2>4, <3>1, VerdictStep
  <2>5. ASSUME NEW t \in Task, GetNextTask(t)
        PROVE  Trusted
    BY <2>1, <2>5 DEF GetNextTask, Unchanged
  <2>6. ASSUME NEW t \in Task, Complete(t)
        PROVE  Trusted
    BY <2>1, <2>6, CompleteStep DEF Trusted
  <2>7. ASSUME NEW t \in Task, Fail(t)
        PROVE  Trusted
    BY <2>1, <2>7, FailStep DEF Trusted
  <2>8. ASSUME NEW t \in Task, Release(t)
        PROVE  Trusted
    BY <2>1, <2>8, ReleaseStep DEF Trusted
  <2>9. ASSUME NEW t \in Task, NEW w \in Identity, Claim(t, w)
        PROVE  Trusted
    BY <2>1, <2>9, ClaimStep DEF Trusted
  <2>10. ASSUME NEW t \in Task, NEW s \in {"pending", "pending_review"},
                NEW deps \in Discoveries, NEW priority \in Priority,
                Discover(t, s, deps, priority)
         PROVE  Trusted
    <3>1. t \notin Present(queue)
      BY <2>10, FreshDiscovery DEF Discover
    <3>. QED
      BY <2>1, <2>10, <3>1, DiscoverStep
  <2>11. ASSUME NEW t \in Task, NEW deps \in Discoveries, NEW priority \in Priority,
                Approve(t, deps, priority)
         PROVE  Trusted
    BY <2>1, <2>11, ApproveStep DEF Trusted
  <2>12. ASSUME NEW p \in Task, NEW count \in 1..MaxSubtasks, Subdivide(p, count)
         PROVE  Trusted
    BY <2>1, <2>12, SubdivideStep DEF Trusted
  <2>. QED
    BY <2>2, <2>3, <2>4, <2>5, <2>6, <2>7, <2>8, <2>9, <2>10, <2>11, <2>12 DEF Next, Trusted
<1>. QED
  BY <1>1, <1>2, TypeCorrect, NumbersHold, PTL DEF Spec

(* A verdict stays: only an approved task is ever completed, failed or      *)
(* released, and everything else asks for another status.                   *)
THEOREM VerdictsAreFinal == Spec => VerdictIsFinal
<1>1. TypeOK /\ NumbersInv /\ PlanIsTrusted /\ OnlyApprovedWork /\ [Next]_vars
      => [\A t \in Task : queue[t].status \in {"rejected", "skipped"}
                             => queue'[t].status = queue[t].status]_vars
  <2>. SUFFICES ASSUME TypeOK, NumbersInv, PlanIsTrusted, OnlyApprovedWork, Next,
                       NEW u \in Task, queue[u].status \in {"rejected", "skipped"}
                PROVE  queue'[u].status = queue[u].status
    OBVIOUS
  <2>1. u \notin offered /\ u \notin handed
    BY DEF OnlyApprovedWork, NotApproved
  <2>2. Unchanged(u) => queue'[u].status = queue[u].status
    BY DEF Unchanged
  <2>3. ~Unblocked(u)
    BY DEF Unblocked
  <2>4. ASSUME NEW t \in Task, GateSkip(t) \/ Reject(t)
        PROVE  queue'[u].status = queue[u].status
    <3>1. CASE u = t
      <4>1. GateSkip(t) /\ queue[u].status = "skipped"
        BY <2>4, <3>1 DEF Reject, GateSkip, PlanIsTrusted
      <4>. QED
        BY <3>1, <4>1, VerdictEffect DEF GateSkip, TypeOK, Entry
    <3>2. CASE u # t
      BY <2>2, <2>4, <3>2, VerdictStep
    <3>. QED
      BY <3>1, <3>2
  <2>5. ASSUME NEW t \in Task, GetNextTask(t)
        PROVE  Unchanged(u)
    BY <2>5 DEF GetNextTask, Unchanged
  <2>6. ASSUME NEW t \in Task, Complete(t)
        PROVE  Unchanged(u)
    BY <2>1, <2>3, <2>6, CompleteStep DEF Complete
  <2>7. ASSUME NEW t \in Task, Fail(t)
        PROVE  Unchanged(u)
    BY <2>1, <2>7, FailStep DEF Fail
  <2>8. ASSUME NEW t \in Task, Release(t)
        PROVE  Unchanged(u)
    BY <2>1, <2>8, ReleaseStep DEF Release
  <2>9. ASSUME NEW t \in Task, NEW w \in Identity, Claim(t, w)
        PROVE  Unchanged(u)
    BY <2>1, <2>9, ClaimStep DEF Claim
  <2>10. ASSUME NEW t \in Task, NEW s \in {"pending", "pending_review"},
                NEW deps \in Discoveries, NEW priority \in Priority,
                Discover(t, s, deps, priority)
         PROVE  Unchanged(u)
    <3>1. t \notin Present(queue)
      BY <2>10, FreshDiscovery DEF Discover
    <3>. QED
      BY <3>1, <2>10, DiscoverStep DEF Present, WithStatus
  <2>11. ASSUME NEW t \in Task, NEW deps \in Discoveries, NEW priority \in Priority,
                Approve(t, deps, priority)
         PROVE  Unchanged(u)
    BY <2>3, <2>11, ApproveStep DEF Approve
  <2>12. ASSUME NEW p \in Task, NEW count \in 1..MaxSubtasks, Subdivide(p, count)
         PROVE  Unchanged(u)
    <3>1. u \notin SubtaskIds(queue, p, count)
      BY FreshSubtasks DEF Present, WithStatus
    <3>2. u # p
      BY <2>1, <2>12 DEF Subdivide
    <3>. QED
      BY <3>1, <3>2, <2>12, SubdivideStep
  <2>. QED
    BY <2>2, <2>4, <2>5, <2>6, <2>7, <2>8, <2>9, <2>10, <2>11, <2>12 DEF Next
<1>. QED
  BY <1>1, TypeCorrect, NumbersHold, PlanStaysTrusted, OnlyApprovedTasksRun, PTL DEF Spec, VerdictIsFinal

-----------------------------------------------------------------------------
(* As long as no task becomes complete, a blocked task that is left alone   *)
(* goes on waiting.                                                         *)
LEMMA StillWaiting ==
    ASSUME NoMissedWakeup, NEW t \in Task, Unchanged(t),
           Completed(queue') \subseteq Completed(queue)
    PROVE  Waiting(queue', t)
BY DEF NoMissedWakeup, Unchanged, Waiting, WithStatus

(* No wakeup is missed: completing and approving, the two operations that   *)
(* can give a blocked task what it waits for, both look at all blocked      *)
(* tasks afterwards.                                                        *)
THEOREM NoWakeupIsMissed == Spec => []NoMissedWakeup
<1>1. Init => NoMissedWakeup
  BY SeedEffect DEF Init, NoMissedWakeup, WithStatus
<1>2. TypeOK /\ NoMissedWakeup /\ [Next]_vars => NoMissedWakeup'
  <2>. SUFFICES ASSUME TypeOK, NoMissedWakeup, [Next]_vars, NEW u \in Task
                PROVE  Waiting(queue', u)
    BY DEF NoMissedWakeup, Waiting, WithStatus, Completed
  <2>. DEFINE Shrinks == Completed(queue') \subseteq Completed(queue)
  <2>1. CASE UNCHANGED vars
    BY <2>1, StillWaiting DEF vars, Unchanged
  <2>2. ASSUME NEW t \in Task, GateSkip(t) \/ Reject(t)
        PROVE  Waiting(queue', u)
    <3>1. Shrinks
      BY <2>2, VerdictStep DEF Completed, WithStatus, Unchanged
    <3>2. u = t => queue'[u].status # "blocked"
      BY <2>2, VerdictStep
    <3>. QED
      BY <3>1, <3>2, <2>2, VerdictStep, StillWaiting DEF Waiting
  <2>3. ASSUME NEW t \in Task, GetNextTask(t)
        PROVE  Waiting(queue', u)
    BY <2>3, StillWaiting DEF GetNextTask, Unchanged
  <2>4. ASSUME NEW t \in Task, Complete(t)
        PROVE  Waiting(queue', u)
    <3>. DEFINE done == [queue EXCEPT ![t].status = "complete"]
    <3>1. queue \in [Task -> Entry] /\ queue' = UpdateBlockedTasks(UnblockParent(done, t))
      BY <2>4 DEF Complete, MarkTaskComplete, TypeOK
    <3>2. done \in [Task -> Entry]
      <4>1. [queue[t] EXCEPT !.status = "complete"] \in Entry
        BY <3>1 DEF Entry, Status
      <4>. QED
        BY <4>1, <3>1
    <3>3. UnblockParent(done, t) \in [Task -> Entry]
      BY <3>2, UnblockParentEffect
    <3>. QED
      BY <3>1, <3>3, UpdateBlockedWakes
  <2>5. ASSUME NEW t \in Task, Fail(t)
        PROVE  Waiting(queue', u)
    <3>1. Shrinks
      BY <2>5, FailStep DEF Completed, WithStatus, Unchanged
    <3>2. u = t => queue'[u].status # "blocked"
      BY <2>5, FailStep
    <3>. QED
      BY <3>1, <3>2, <2>5, FailStep, StillWaiting DEF Waiting
  <2>6. ASSUME NEW t \in Task, Release(t)
        PROVE  Waiting(queue', u)
    <3>1. Shrinks
      BY <2>6, ReleaseStep DEF Completed, WithStatus, Unchanged
    <3>2. u = t => queue'[u].status # "blocked"
      BY <2>6, ReleaseStep
    <3>. QED
      BY <3>1, <3>2, <2>6, ReleaseStep, StillWaiting DEF Waiting
  <2>7. ASSUME NEW t \in Task, NEW w \in Identity, Claim(t, w)
        PROVE  Waiting(queue', u)
    <3>1. Shrinks
      BY <2>7, ClaimStep DEF Completed, WithStatus, Unchanged
    <3>2. u = t => queue'[u].status # "blocked"
      BY <2>7, ClaimStep
    <3>. QED
      BY <3>1, <3>2, <2>7, ClaimStep, StillWaiting DEF Waiting
  <2>8. ASSUME NEW t \in Task, NEW s \in {"pending", "pending_review"},
               NEW deps \in Discoveries, NEW priority \in Priority,
               Discover(t, s, deps, priority)
        PROVE  Waiting(queue', u)
    <3>1. Shrinks
      BY <2>8, DiscoverStep DEF Completed, WithStatus, Unchanged
    <3>2. u = t => queue'[u].status # "blocked"
      BY <2>8, DiscoverStep
    <3>. QED
      BY <3>1, <3>2, <2>8, DiscoverStep, StillWaiting DEF Waiting
  <2>9. ASSUME NEW t \in Task, NEW deps \in Discoveries, NEW priority \in Priority,
               Approve(t, deps, priority)
        PROVE  Waiting(queue', u)
    <3>. DEFINE open == [queue EXCEPT ![t] = Approved(queue[t], deps, priority)]
    <3>1. queue \in [Task -> Entry] /\ queue' = UpdateBlockedTasks(open)
      BY <2>9 DEF Approve, ApproveTask, TypeOK
    <3>2. open \in [Task -> Entry]
      <4>1. queue[t] \in Entry /\ deps \in SUBSET Task
        BY <3>1, BoundsAssumption
      <4>2. Approved(queue[t], deps, priority) \in Entry
        BY <4>1, ApprovedEntry
      <4>. QED
        BY <4>2, <3>1
    <3>. QED
      BY <3>1, <3>2, UpdateBlockedWakes
  <2>10. ASSUME NEW p \in Task, NEW count \in 1..MaxSubtasks, Subdivide(p, count)
         PROVE  Waiting(queue', u)
    <3>. DEFINE kids == SubtaskIds(queue, p, count)
    <3>1. Shrinks
      BY <2>10, SubdivideStep DEF Completed, WithStatus, Unchanged
    <3>2. u \in kids => queue'[u].status # "blocked"
      BY <2>10, SubdivideStep
    <3>3. CASE u \notin kids /\ u = p
      <4>1. kids # {} /\ kids \subseteq Task
        BY <2>10, FS_EmptySet DEF Subdivide, SubtaskIds
      <4>2. PICK k \in kids : k \in Task
        BY <4>1
      <4>3. k \notin Completed(queue') /\ k \in queue'[u].blockedBy
        BY <3>3, <4>2, <2>10, SubdivideStep DEF Completed, WithStatus
      <4>. QED
        BY <4>3 DEF Waiting
    <3>. QED
      BY <3>1, <3>2, <3>3, <2>10, SubdivideStep, StillWaiting DEF Waiting
  <2>. QED
    BY <2>1, <2>2, <2>3, <2>4, <2>5, <2>6, <2>7, <2>8, <2>9, <2>10 DEF Next
<1>. QED
  BY <1>1, <1>2, TypeCorrect, PTL DEF Spec
=============================================================================
