-------------------------- MODULE SupervisionProofs --------------------------
(***************************************************************************)
(* Theorems about the supervisor, the workers it watches and their exit     *)
(* handlers, for any plan, any number of workers of either kind and any     *)
(* limits: what the state holds, and that no claim loses its worker.        *)
(***************************************************************************)
EXTENDS Supervision, QueueOpsProofs

(* The task is the worker's, and its worker or its exit handler will still  *)
(* settle it: a handler that claims it again starts another worker.         *)
Owns(w, t) == worker[w].task = t /\ handler[w] \notin {"reclaim", "done"}

Owned ==
    \A t \in Task \ Orphans : queue[t].status = "claimed" => \E w \in Worker : Owns(w, t)

Started ==
    \A w \in Worker :
        /\ worker[w].life = "none" => /\ worker[w].task = NoTask /\ handler[w] = "idle"
                                      /\ ~tracker[w].there
        /\ worker[w].life # "none" => worker[w].task \in Task

(* The supervisor has a worker in hand between the look at it and the next. *)
Ending == {"abandon", "kill", "fail", "forget"}

InHand == {"wrap up", "restart", "signal", "release"} \cup Ending

Ticking ==
    /\ tick.at \in InHand => tick.on \in Worker /\ worker[tick.on].life # "none"
    /\ \A w \in Worker : tracker[w].restarts > MaxRestarts => tick.at \in Ending /\ tick.on = w

Shapes ==
    /\ nudges \in [Worker -> Seq({"restart", "abort"})]
    /\ tick = [at |-> tick.at, on |-> tick.on]

SupervisionInv == TypeOK /\ Shapes /\ Started /\ Ticking /\ Owned

Labels == {"idle", "scan", "wrap up", "restart", "abandon", "signal", "kill",
           "release", "fail", "forget", "cleanup", "give back"}

LEMMA Types ==
    ASSUME SupervisionInv
    PROVE  /\ kind \in Kinds /\ queue \in [Task -> Entry] /\ worker \in [Worker -> WorkerRecord]
           /\ tracker \in [Worker -> TrackerRecord] /\ silence \in [Worker -> 0..2]
           /\ stale \subseteq Task /\ todo \subseteq Worker /\ stopped \in BOOLEAN
           /\ restarts \in [Task -> Nat]
           /\ handler \in [Worker -> {"idle", "complete", "abandon", "release", "reclaim", "done"}]
           /\ nudges \in [Worker -> Seq({"restart", "abort"})]
           /\ tick.at \in Labels
BY DEF SupervisionInv, TypeOK, Shapes, Labels

LEMMA Limits ==
    /\ Coordinator \in Identity /\ RestartLimit \in Nat /\ MaxRestarts \in Nat
    /\ NoTask \notin Task /\ First \in Task /\ Orphans \subseteq Task
BY SupervisionAssumption, QueueAssumption

LEMMA RecordTypes ==
    ASSUME NEW t \in Task
    PROVE  /\ NotStarted \in WorkerRecord /\ NotStarted.life = "none" /\ NotStarted.task = NoTask
           /\ NewProcess(t) \in WorkerRecord
           /\ NewProcess(t).life = "running" /\ NewProcess(t).task = t
           /\ Untracked \in TrackerRecord /\ Untracked.restarts = 0 /\ ~Untracked.there
           /\ Tracked \in TrackerRecord /\ Tracked.restarts = 0 /\ Tracked.there
BY DEF NotStarted, NewProcess, Untracked, Tracked, WorkerRecord, TrackerRecord

LEMMA WorkerTypes ==
    ASSUME NEW r \in WorkerRecord, NEW code \in {0, 1, 42}, NEW told \in BOOLEAN
    PROVE  /\ Ended(r, code) \in WorkerRecord /\ Ended(r, code).task = r.task
           /\ Ended(r, code).life = "exited"
           /\ [r EXCEPT !.told = told] \in WorkerRecord
           /\ [r EXCEPT !.told = told].task = r.task /\ [r EXCEPT !.told = told].life = r.life
           /\ [r EXCEPT !.code = code] \in WorkerRecord
           /\ [r EXCEPT !.code = code].task = r.task /\ [r EXCEPT !.code = code].life = r.life
BY DEF Ended, WorkerRecord

LEMMA TrackerTypes ==
    ASSUME NEW r \in TrackerRecord, NEW nudged \in BOOLEAN
    PROVE  /\ [r EXCEPT !.nudged = nudged] \in TrackerRecord
           /\ [r EXCEPT !.nudged = nudged].restarts = r.restarts
           /\ [r EXCEPT !.nudged = nudged].there = r.there
           /\ [r EXCEPT !.restarts = @ + 1] \in TrackerRecord
           /\ [r EXCEPT !.restarts = @ + 1].restarts = r.restarts + 1
           /\ [r EXCEPT !.restarts = @ + 1].there = r.there
           /\ r.restarts \in Nat /\ r.there \in BOOLEAN
BY DEF TrackerRecord

LEMMA WriteTypes ==
    ASSUME SupervisionInv, NEW q \in [Task -> Entry], Write(q)
    PROVE  queue' = q /\ queue' \in [Task -> Entry] /\ stale' \subseteq Task
BY Types DEF Write

(* What each operation does to the claims.                                  *)
LEMMA ClaimHere ==
    ASSUME SupervisionInv, NEW t \in Task
    PROVE  /\ ClaimTask(queue, t, Coordinator) \in [Task -> Entry]
           /\ \A u \in Task \ {t} : ClaimTask(queue, t, Coordinator)[u] = queue[u]
<1>1. queue \in [Task -> Entry] /\ Coordinator \in Identity
  BY Types, Limits
<1>. QED
  BY <1>1, ClaimEffect

LEMMA ReleaseHere ==
    ASSUME SupervisionInv, NEW t \in Task
    PROVE  /\ ReleaseTask(queue, t) \in [Task -> Entry]
           /\ \A u \in Task \ {t} : ReleaseTask(queue, t)[u] = queue[u]
           /\ ReleaseTask(queue, t)[t].status = "pending"
<1>1. queue \in [Task -> Entry]
  BY Types
<1>2. ReleaseTask(queue, t)[t] = ToPending(queue[t]) /\ queue[t] \in Entry
  BY <1>1, ReleaseEffect
<1>. QED
  BY <1>1, <1>2, ReleaseEffect, EntryFields

LEMMA FailHere ==
    ASSUME SupervisionInv, NEW t \in Task
    PROVE  /\ MarkTaskFailed(queue, t) \in [Task -> Entry]
           /\ \A u \in Task \ {t} : MarkTaskFailed(queue, t)[u] = queue[u]
           /\ MarkTaskFailed(queue, t)[t].status # "claimed"
BY Types, FailEffect

LEMMA CompleteHere ==
    ASSUME SupervisionInv, NEW t \in Task
    PROVE  /\ MarkTaskComplete(queue, t) \in [Task -> Entry]
           /\ \A u \in Task \ {t} : MarkTaskComplete(queue, t)[u].status = "claimed"
                                    => queue[u].status = "claimed"
           /\ MarkTaskComplete(queue, t)[t].status # "claimed"
<1> DEFINE q == MarkTaskComplete(queue, t)
<1>1. queue \in [Task -> Entry]
  BY Types
<1>2. /\ q \in [Task -> Entry] /\ q[t] = [queue[t] EXCEPT !.status = "complete"]
      /\ \A u \in Task \ {t} : \/ q[u] = queue[u]
                               \/ queue[u].status = "blocked" /\ q[u] = Unblock(queue[u])
  BY <1>1, CompleteEffect
<1>3. q[t].status = "complete"
  BY <1>1, <1>2 DEF Entry
<1>4. ASSUME NEW u \in Task \ {t}, q[u].status = "claimed"
      PROVE  queue[u].status = "claimed"
  BY <1>1, <1>2, <1>4, EntryFields
<1>. QED
  BY <1>2, <1>3, <1>4

(* Claims and their owners: a step takes away an owner only with the claim. *)
LEMMA OwnersStay ==
    ASSUME Owned,
           \A t \in Task \ Orphans : queue'[t].status = "claimed" =>
              \/ \E w \in Worker : Owns(w, t)'
              \/ queue[t].status = "claimed" /\ \A w \in Worker : Owns(w, t) => Owns(w, t)'
    PROVE  Owned'
BY DEF Owned

LEMMA OwnersUntouched ==
    ASSUME SupervisionInv, queue' = queue,
           \A w \in Worker : worker'[w].task = worker[w].task,
           \A w \in Worker : handler'[w] = handler[w] \/ handler'[w] \notin {"reclaim", "done"}
    PROVE  Owned'
<1>1. Owned
  BY DEF SupervisionInv
<1>2. \A w \in Worker, t \in Task : Owns(w, t) => Owns(w, t)'
  BY DEF Owns
<1>. QED
  BY <1>1, <1>2, OwnersStay
(* A task is not claimed any more, whoever worked on it.                    *)
LEMMA OwnersSettle ==
    ASSUME SupervisionInv, NEW t0 \in Task, queue'[t0].status # "claimed",
           \A u \in Task \ {t0} : queue'[u].status = "claimed" => queue[u].status = "claimed",
           \A w \in Worker : worker'[w].task = worker[w].task,
           \A w \in Worker : handler'[w] = handler[w] \/ worker[w].task = t0
    PROVE  Owned'
<1>1. Owned
  BY DEF SupervisionInv
<1>2. \A w \in Worker, t \in Task \ {t0} : Owns(w, t) => Owns(w, t)'
  BY DEF Owns
<1>. QED
  BY <1>1, <1>2, OwnersStay

-----------------------------------------------------------------------------
(* Starting a worker                                                        *)

LEMMA StartEffect ==
    ASSUME SupervisionInv, NEW t \in Task, Unstarted # {}, Start(t)
    PROVE  /\ worker' \in [Worker -> WorkerRecord] /\ tracker' \in [Worker -> TrackerRecord]
           /\ \E w \in Unstarted :
                 /\ worker'[w].task = t /\ worker'[w].life = "running"
                 /\ tracker'[w].restarts = 0
                 /\ \A v \in Worker \ {w} : worker'[v] = worker[v] /\ tracker'[v] = tracker[v]
<1>1. PICK n \in Unstarted : n = NewWorker
  BY DEF NewWorker
<1>2. n \in Worker
  BY <1>1 DEF Unstarted
<1>3. /\ worker' = [worker EXCEPT ![n] = NewProcess(t)]
      /\ tracker' = [tracker EXCEPT ![n] = Tracked]
  BY <1>1 DEF Start
<1>. QED
  BY <1>1, <1>2, <1>3, Types, RecordTypes

(* A new worker disturbs nothing that the invariant says of the others.     *)
LEMMA StartKeeps ==
    ASSUME SupervisionInv, NEW t \in Task, Unstarted # {}, Start(t), UNCHANGED tick,
           \A w \in Worker : handler'[w] = handler[w] \/ worker[w].life # "none"
    PROVE  /\ Started' /\ Ticking'
           /\ \A w \in Worker : tracker'[w].restarts <= MaxRestarts + 1
           /\ \E w \in Worker : worker'[w].task = t /\ handler'[w] = "idle"
           /\ \A w \in Worker, u \in Task : worker[w].task = u => worker'[w].task = u
<1>1. /\ worker' \in [Worker -> WorkerRecord] /\ tracker' \in [Worker -> TrackerRecord]
      /\ worker \in [Worker -> WorkerRecord] /\ tracker \in [Worker -> TrackerRecord]
  BY StartEffect, Types
<1>2. PICK n \in Unstarted :
         /\ worker'[n].task = t /\ worker'[n].life = "running" /\ tracker'[n].restarts = 0
         /\ \A v \in Worker \ {n} : worker'[v] = worker[v] /\ tracker'[v] = tracker[v]
  BY StartEffect
<1>3. n \in Worker /\ worker[n].life = "none" /\ MaxRestarts \in Nat /\ NoTask \notin Task
  BY <1>2, Limits DEF Unstarted
<1>4. Started /\ Ticking /\ \A w \in Worker : tracker[w].restarts <= MaxRestarts + 1
  BY DEF SupervisionInv, TypeOK
<1>5. Started'
  BY <1>2, <1>3, <1>4 DEF Started
<1>6. Ticking'
  <2>1. tick'.at \in InHand => tick'.on \in Worker /\ worker'[tick'.on].life # "none"
    BY <1>2, <1>3, <1>4 DEF Ticking
  <2>2. \A w \in Worker : tracker'[w].restarts > MaxRestarts => tick'.at \in Ending /\ tick'.on = w
    BY <1>2, <1>3, <1>4 DEF Ticking
  <2>. QED
    BY <2>1, <2>2 DEF Ticking
<1>7. \A w \in Worker : tracker'[w].restarts <= MaxRestarts + 1
  BY <1>2, <1>3, <1>4
<1>8. worker'[n].task = t /\ handler'[n] = "idle"
  BY <1>2, <1>3, <1>4 DEF Started
<1>9. \A w \in Worker, u \in Task : worker[w].task = u => worker'[w].task = u
  BY <1>2, <1>3, <1>4 DEF Started
<1>. QED
  BY <1>3, <1>5, <1>6, <1>7, <1>8, <1>9

(* A step that starts no worker keeps each in its place.                    *)
LEMMA StartedStays ==
    ASSUME SupervisionInv,
           \A w \in Worker : worker'[w].task = worker[w].task,
           \A w \in Worker : worker'[w].life = "none" <=> worker[w].life = "none",
           \A w \in Worker : tracker'[w].there => tracker[w].there,
           \A w \in Worker : handler'[w] = handler[w] \/ worker[w].life # "none"
    PROVE  Started'
BY DEF SupervisionInv, Started

LEMMA TickingStays ==
    ASSUME SupervisionInv, tick' = tick,
           \A w \in Worker : worker'[w].life = "none" <=> worker[w].life = "none",
           \A w \in Worker : tracker'[w].restarts = tracker[w].restarts \/ tracker'[w].restarts = 0
    PROVE  Ticking' /\ \A w \in Worker : tracker'[w].restarts <= MaxRestarts + 1
<1>1. Ticking /\ \A w \in Worker : tracker[w].restarts <= MaxRestarts + 1
  BY DEF SupervisionInv, TypeOK
<1>2. MaxRestarts \in Nat
  BY Limits
<1>3. tick'.at \in InHand => tick'.on \in Worker /\ worker'[tick'.on].life # "none"
  BY <1>1 DEF Ticking
<1>4. \A w \in Worker : tracker'[w].restarts > MaxRestarts => tick'.at \in Ending /\ tick'.on = w
  BY <1>1, <1>2 DEF Ticking
<1>5. \A w \in Worker : tracker'[w].restarts <= MaxRestarts + 1
  BY <1>1, <1>2
<1>. QED
  BY <1>3, <1>4, <1>5 DEF Ticking

(* The supervisor has no worker in hand any more, or another one.           *)
LEMMA TickingMoves ==
    ASSUME SupervisionInv, tick.at \notin Ending \/ tick.at = "forget",
           tick'.at \notin InHand \/ (tick'.on \in Worker /\ worker[tick'.on].life # "none"),
           worker' = worker,
           \A w \in Worker : \/ tracker'[w].restarts = 0
                             \/ tracker'[w].restarts = tracker[w].restarts /\ ~(tick.at = "forget" /\ tick.on = w)
    PROVE  Ticking' /\ \A w \in Worker : tracker'[w].restarts <= MaxRestarts + 1
<1>1. Ticking /\ \A w \in Worker : tracker[w].restarts <= MaxRestarts + 1
  BY DEF SupervisionInv, TypeOK
<1>2. MaxRestarts \in Nat
  BY Limits
<1>3. \A w \in Worker : ~(tracker'[w].restarts > MaxRestarts)
  BY <1>1, <1>2 DEF Ticking
<1>4. tick'.at \in InHand => tick'.on \in Worker /\ worker'[tick'.on].life # "none"
  OBVIOUS
<1>5. \A w \in Worker : tracker'[w].restarts <= MaxRestarts + 1
  BY <1>1, <1>2
<1>. QED
  BY <1>3, <1>4, <1>5 DEF Ticking

-----------------------------------------------------------------------------
(* Each step keeps the invariant: the workers                               *)

LEMMA InitHolds ==
    Init => SupervisionInv
<1> SUFFICES ASSUME Init PROVE SupervisionInv
  OBVIOUS
<1>1. PICK w \in Worker :
         /\ worker = [v \in Worker |-> IF v = w THEN NewProcess(First) ELSE NotStarted]
         /\ tracker = [v \in Worker |-> IF v = w THEN Tracked ELSE Untracked]
  BY SupervisionAssumption DEF Init
<1>2. /\ worker \in [Worker -> WorkerRecord] /\ tracker \in [Worker -> TrackerRecord]
      /\ worker[w].task = First /\ worker[w].life = "running"
      /\ \A v \in Worker \ {w} : worker[v] = NotStarted /\ tracker[v] = Untracked
      /\ \A v \in Worker : tracker[v].restarts = 0
  BY <1>1, RecordTypes, Limits
<1>3. queue \in [Task -> Entry] /\ \A t \in Task \ (Orphans \cup {First}) : queue[t].status # "claimed"
  <2>. DEFINE plan == CreateFromPlan(NothingDone)
  <2>1. plan \in [Task -> Entry] /\ \A t \in Task : plan[t].status # "claimed"
    BY FreshPlanEffect
  <2>2. \A t \in Task : ClaimTask(plan, t, Coordinator)[t] \in Entry
    BY <2>1, Limits, ClaimEffect
  <2>3. queue = [t \in Task |-> IF t \in Orphans \cup {First}
                                THEN ClaimTask(plan, t, Coordinator)[t]
                                ELSE plan[t]]
    BY DEF Init
  <2>. HIDE DEF plan
  <2>. QED
    BY <2>1, <2>2, <2>3
<1>4. TypeOK
  <2>1. \A v \in Worker : tracker[v].restarts <= MaxRestarts + 1
    BY <1>2, Limits
  <2>2. nudges \in [Worker -> Seq({"restart", "abort"})]
    BY DEF Init
  <2>3. tick.at = "cleanup" /\ tick.on = NoOne
    BY DEF Init
  <2>4. /\ kind \in Kinds /\ stale \subseteq Task
        /\ todo \subseteq Worker /\ stopped \in BOOLEAN
    BY DEF Init
  <2>7. silence \in [Worker -> 0..2]
    BY DEF Init
  <2>5. /\ restarts \in [Task -> Nat]
        /\ handler \in [Worker -> {"idle", "complete", "abandon", "release", "reclaim", "done"}]
    BY DEF Init
  <2>6. \A v \in Worker : nudges[v] \in Seq({"restart", "abort"})
    BY <2>2
  <2>. QED
    BY <1>2, <1>3, <2>1, <2>3, <2>4, <2>5, <2>6, <2>7 DEF TypeOK
<1>5. Shapes
  BY DEF Init, Shapes
<1>6. Started
  <2>1. worker[w].life # "none" /\ worker[w].task \in Task
    BY <1>2, Limits
  <2>2. \A v \in Worker \ {w} : /\ worker[v].life = "none" /\ worker[v].task = NoTask
                                /\ ~tracker[v].there
    BY <1>2, RecordTypes, Limits
  <2>3. \A v \in Worker : handler[v] = "idle"
    BY DEF Init
  <2>. QED
    BY <2>1, <2>2, <2>3 DEF Started
<1>7. Ticking
  <2>1. tick.at = "cleanup"
    BY DEF Init
  <2>2. \A v \in Worker : ~(tracker[v].restarts > MaxRestarts)
    BY <1>2, Limits
  <2>. QED
    BY <2>1, <2>2 DEF Ticking, InHand, Ending
<1>8. Owned
  <2>1. Owns(w, First)
    BY <1>2 DEF Owns, Init
  <2>. QED
    BY <1>3, <2>1 DEF Owned
<1>. QED
  BY <1>4, <1>5, <1>6, <1>7, <1>8 DEF SupervisionInv

LEMMA SpawnKeeps ==
    ASSUME SupervisionInv, NEW t \in Task, Spawn(t)
    PROVE  SupervisionInv'
<1>1. /\ Unstarted # {} /\ Write(ClaimTask(queue, t, Coordinator)) /\ Start(t)
      /\ UNCHANGED <<kind, nudges, silence, tick, todo, stopped, restarts, handler>>
  BY DEF Spawn
<1>2. /\ queue' \in [Task -> Entry] /\ stale' \subseteq Task
      /\ \A u \in Task \ {t} : queue'[u] = queue[u]
  BY <1>1, ClaimHere, WriteTypes
<1>3. /\ Started' /\ Ticking'
      /\ \A w \in Worker : tracker'[w].restarts <= MaxRestarts + 1
      /\ \E w \in Worker : worker'[w].task = t /\ handler'[w] = "idle"
      /\ \A w \in Worker, u \in Task : worker[w].task = u => worker'[w].task = u
  BY <1>1, StartKeeps
<1>4. worker' \in [Worker -> WorkerRecord] /\ tracker' \in [Worker -> TrackerRecord]
  BY <1>1, StartEffect
<1>5. TypeOK' /\ Shapes'
  BY <1>1, <1>2, <1>3, <1>4 DEF SupervisionInv, TypeOK, Shapes
<1>6. Owned'
  <2>1. \E w \in Worker : Owns(w, t)'
    BY <1>3 DEF Owns
  <2>2. \A u \in Task, w \in Worker : Owns(w, u) => Owns(w, u)'
    BY <1>1, <1>3 DEF Owns
  <2>. QED
    BY <1>2, <2>1, <2>2, OwnersStay DEF SupervisionInv
<1>. QED
  BY <1>3, <1>5, <1>6 DEF SupervisionInv

(* What happens to one worker's record alone.                               *)
LEMMA WorkerKeeps ==
    ASSUME SupervisionInv, NEW w \in Worker, Running(w),
           NEW r \in WorkerRecord, r.task = worker[w].task, r.life # "none",
           worker' = [worker EXCEPT ![w] = r],
           nudges' = [nudges EXCEPT ![w] = << >>],
           silence' \in [Worker -> 0..2],
           tracker' \in [Worker -> TrackerRecord],
           \A v \in Worker : /\ tracker'[v].there = tracker[v].there
                             /\ tracker'[v].restarts = tracker[v].restarts,
           UNCHANGED <<kind, queue, stale, tick, todo, stopped, restarts, handler>>
    PROVE  SupervisionInv'
<1>1. /\ worker' \in [Worker -> WorkerRecord]
      /\ \A v \in Worker : worker'[v].task = worker[v].task
      /\ \A v \in Worker : worker'[v].life = "none" <=> worker[v].life = "none"
  BY Types DEF Running
<1>2. nudges' \in [Worker -> Seq({"restart", "abort"})]
  BY Types
<1>3. Started'
  BY <1>1, StartedStays
<1>4. Ticking' /\ \A v \in Worker : tracker'[v].restarts <= MaxRestarts + 1
  BY <1>1, TickingStays
<1>5. Owned'
  BY <1>1, OwnersUntouched
<1>6. TypeOK' /\ Shapes'
  BY <1>1, <1>2, <1>4 DEF SupervisionInv, TypeOK, Shapes
<1>. QED
  BY <1>3, <1>4, <1>5, <1>6 DEF SupervisionInv

LEMMA TurnKeeps ==
    ASSUME SupervisionInv, NEW w \in Worker, Turn(w)
    PROVE  SupervisionInv'
<1>1. worker[w] \in WorkerRecord /\ tracker[w] \in TrackerRecord /\ worker[w].life # "none"
  BY Types DEF Turn, Running
<1>2. PICK r \in WorkerRecord :
         worker' = [worker EXCEPT ![w] = r] /\ r.task = worker[w].task /\ r.life # "none"
  <2>1. PICK k \in 0..Len(nudges[w]) :
           LET read  == SubSeq(nudges[w], 1, k)
               order == FirstOf(read, {"restart", "abort"})
           IN  worker' = [worker EXCEPT ![w] =
                 IF kind = "process" /\ order = "restart" THEN Ended(worker[w], 42)
                 ELSE IF kind = "process" /\ order = "abort" THEN Ended(worker[w], 1)
                 ELSE IF kind = "sdk" /\ FirstOf(read, {"abort"}) = "abort"
                      THEN [worker[w] EXCEPT !.told = TRUE]
                 ELSE worker[w]]
    BY DEF Turn
  <2>2. /\ Ended(worker[w], 42) \in WorkerRecord /\ Ended(worker[w], 1) \in WorkerRecord
        /\ [worker[w] EXCEPT !.told = TRUE] \in WorkerRecord
        /\ Ended(worker[w], 42).task = worker[w].task /\ Ended(worker[w], 42).life = "exited"
        /\ Ended(worker[w], 1).task = worker[w].task /\ Ended(worker[w], 1).life = "exited"
        /\ [worker[w] EXCEPT !.told = TRUE].task = worker[w].task
        /\ [worker[w] EXCEPT !.told = TRUE].life = worker[w].life
    BY <1>1, WorkerTypes
  <2>. QED
    BY <1>1, <2>1, <2>2
<1>3. silence' \in [Worker -> 0..2]
  BY Types DEF Turn
<1>4. /\ tracker' \in [Worker -> TrackerRecord]
      /\ \A v \in Worker : /\ tracker'[v].there = tracker[v].there
                           /\ tracker'[v].restarts = tracker[v].restarts
  <2>1. tracker' = [tracker EXCEPT ![w] = [tracker[w] EXCEPT !.nudged = FALSE]]
    BY DEF Turn
  <2>. QED
    BY <1>1, <2>1, Types, TrackerTypes
<1>. QED
  BY <1>2, <1>3, <1>4, WorkerKeeps DEF Turn

LEMMA ExitKeeps ==
    ASSUME SupervisionInv, NEW w \in Worker, Exit(w)
    PROVE  SupervisionInv'
<1>1. worker[w] \in WorkerRecord
  BY Types
<1>2. PICK code \in {0, 1} : worker' = [worker EXCEPT ![w] = Ended(worker[w], code)]
  BY DEF Exit, ExitCodes
<1>3. PICK r \in WorkerRecord :
         worker' = [worker EXCEPT ![w] = r] /\ r.task = worker[w].task /\ r.life # "none"
  BY <1>1, <1>2, WorkerTypes
<1>4. silence' \in [Worker -> 0..2] /\ tracker' \in [Worker -> TrackerRecord]
  BY Types DEF Exit
<1>. QED
  BY <1>3, <1>4, WorkerKeeps DEF Exit

LEMMA SilenceKeeps ==
    ASSUME SupervisionInv, NEW w \in Worker, Silence(w)
    PROVE  SupervisionInv'
<1>1. silence' \in [Worker -> 0..2]
  <2>1. silence[w] \in 0..2 /\ silence[w] < 2 /\ silence' = [silence EXCEPT ![w] = silence[w] + 1]
    BY Types DEF Silence
  <2>2. silence[w] + 1 \in 0..2
    BY <2>1
  <2>. QED
    BY <2>1, <2>2, Types
<1>2. TypeOK' /\ Shapes'
  BY <1>1 DEF SupervisionInv, TypeOK, Shapes, Silence
<1>3. Started' /\ Ticking' /\ Owned'
  BY DEF SupervisionInv, Started, Ticking, Owned, Owns, Silence
<1>. QED
  BY <1>2, <1>3 DEF SupervisionInv

LEMMA GrowStaleKeeps ==
    ASSUME SupervisionInv, NEW t \in Task, GrowStale(t)
    PROVE  SupervisionInv'
<1>1. TypeOK' /\ Shapes'
  BY DEF SupervisionInv, TypeOK, Shapes, GrowStale
<1>2. Started' /\ Ticking' /\ Owned'
  BY DEF SupervisionInv, Started, Ticking, Owned, Owns, GrowStale
<1>. QED
  BY <1>1, <1>2 DEF SupervisionInv

-----------------------------------------------------------------------------
(* The exit handlers                                                        *)

LEMMA HandlerOf ==
    ASSUME SupervisionInv, NEW w \in Worker, handler[w] # "idle"
    PROVE  worker[w].task \in Task /\ worker[w].life # "none"
BY DEF SupervisionInv, Started

LEMMA HandleExitKeeps ==
    ASSUME SupervisionInv, NEW w \in Worker, HandleExit(w)
    PROVE  SupervisionInv'
<1>1. /\ worker[w].life = "exited" /\ worker[w].task \in Task /\ handler[w] = "idle"
      /\ worker[w] \in WorkerRecord
  BY Types DEF HandleExit, SupervisionInv, Started
<1>2. /\ worker' \in [Worker -> WorkerRecord]
      /\ \A v \in Worker : worker'[v].task = worker[v].task /\ worker'[v].life = worker[v].life
  <2>1. worker' = [worker EXCEPT ![w] = [worker[w] EXCEPT !.code = 0]]
    BY DEF HandleExit
  <2>2. /\ [worker[w] EXCEPT !.code = 0] \in WorkerRecord
        /\ [worker[w] EXCEPT !.code = 0].task = worker[w].task
        /\ [worker[w] EXCEPT !.code = 0].life = worker[w].life
    BY <1>1, WorkerTypes
  <2>. QED
    BY <1>1, <2>1, <2>2, Types
<1>3. /\ tracker' \in [Worker -> TrackerRecord] /\ ~tracker'[w].there /\ tracker'[w].restarts = 0
      /\ \A v \in Worker \ {w} : tracker'[v] = tracker[v]
  <2>1. tracker' = [tracker EXCEPT ![w] = Untracked]
    BY DEF HandleExit
  <2>. QED
    BY <1>1, <2>1, Types, RecordTypes
<1>4. silence' \in [Worker -> 0..2]
  <2>1. silence' = [silence EXCEPT ![w] = 0]
    BY DEF HandleExit
  <2>. QED
    BY <2>1, Types
<1>5. restarts' \in [Task -> Nat]
  <2>1. \/ restarts' = restarts
        \/ restarts' = [restarts EXCEPT ![worker[w].task] = restarts[worker[w].task] + 1]
    BY DEF HandleExit
  <2>2. restarts[worker[w].task] + 1 \in Nat
    BY <1>1, Types
  <2>. QED
    BY <1>1, <2>1, <2>2, Types
<1>6. \E label \in {"complete", "release", "abandon"} : handler' = [handler EXCEPT ![w] = label]
  BY DEF HandleExit, Settle
<1>7. /\ handler' \in [Worker -> {"idle", "complete", "abandon", "release", "reclaim", "done"}]
      /\ handler'[w] \notin {"reclaim", "done"}
      /\ \A v \in Worker \ {w} : handler'[v] = handler[v]
  BY <1>6, Types
<1>8. UNCHANGED <<kind, queue, nudges, stale, tick, todo, stopped>>
  BY DEF HandleExit
<1>9. Started'
  BY <1>1, <1>2, <1>3, <1>7, StartedStays
<1>10. Ticking' /\ \A v \in Worker : tracker'[v].restarts <= MaxRestarts + 1
  BY <1>2, <1>3, <1>8, TickingStays
<1>11. Owned'
  BY <1>2, <1>7, <1>8, OwnersUntouched
<1>12. TypeOK' /\ Shapes'
  BY <1>2, <1>3, <1>4, <1>5, <1>7, <1>8, <1>10 DEF SupervisionInv, TypeOK, Shapes
<1>. QED
  BY <1>9, <1>10, <1>11, <1>12 DEF SupervisionInv

(* The handler settles the task: it is not claimed any more.                *)
LEMMA SettlingKeeps ==
    ASSUME SupervisionInv, NEW w \in Worker, handler[w] # "idle",
           NEW label \in {"done", "reclaim"}, Settle(w, label),
           NEW q \in [Task -> Entry], Write(q), q[worker[w].task].status # "claimed",
           \A u \in Task \ {worker[w].task} : q[u].status = "claimed" => queue[u].status = "claimed",
           UNCHANGED <<kind, worker, nudges, tracker, silence, tick, todo, stopped, restarts>>
    PROVE  SupervisionInv'
<1>1. worker[w].task \in Task /\ worker[w].life # "none"
  BY HandlerOf
<1>2. queue' = q /\ queue' \in [Task -> Entry] /\ stale' \subseteq Task
  BY WriteTypes
<1>3. /\ handler' \in [Worker -> {"idle", "complete", "abandon", "release", "reclaim", "done"}]
      /\ \A v \in Worker \ {w} : handler'[v] = handler[v]
  BY Types DEF Settle
<1>4. Started'
  BY <1>1, <1>3, StartedStays
<1>5. Ticking'
  BY DEF SupervisionInv, Ticking
<1>6. Owned'
  BY <1>1, <1>2, <1>3, OwnersSettle
<1>7. TypeOK' /\ Shapes'
  BY <1>2, <1>3 DEF SupervisionInv, TypeOK, Shapes
<1>. QED
  BY <1>4, <1>5, <1>6, <1>7 DEF SupervisionInv

LEMMA CompleteKeeps ==
    ASSUME SupervisionInv, NEW w \in Worker, CompleteTask(w)
    PROVE  SupervisionInv'
<1>1. worker[w].task \in Task /\ handler[w] # "idle"
  BY HandlerOf DEF CompleteTask
<1>2. PICK q \in [Task -> Entry] : q = MarkTaskComplete(queue, worker[w].task)
  BY <1>1, CompleteHere
<1>3. /\ q[worker[w].task].status # "claimed"
      /\ \A u \in Task \ {worker[w].task} : q[u].status = "claimed" => queue[u].status = "claimed"
  BY <1>1, <1>2, CompleteHere
<1>4. /\ Write(q) /\ Settle(w, "done")
      /\ UNCHANGED <<kind, worker, nudges, tracker, silence, tick, todo, stopped, restarts>>
  BY <1>2 DEF CompleteTask
<1>. QED
  BY <1>1, <1>3, <1>4, SettlingKeeps

LEMMA AbandonKeeps ==
    ASSUME SupervisionInv, NEW w \in Worker, AbandonTask(w)
    PROVE  SupervisionInv'
<1>1. worker[w].task \in Task /\ handler[w] # "idle"
  BY HandlerOf DEF AbandonTask
<1>2. PICK q \in [Task -> Entry] : q = MarkTaskFailed(queue, worker[w].task)
  BY <1>1, FailHere
<1>3. /\ q[worker[w].task].status # "claimed"
      /\ \A u \in Task \ {worker[w].task} : q[u].status = "claimed" => queue[u].status = "claimed"
  BY <1>1, <1>2, FailHere
<1>4. /\ Write(q) /\ Settle(w, "done")
      /\ UNCHANGED <<kind, worker, nudges, tracker, silence, tick, todo, stopped, restarts>>
  BY <1>2 DEF AbandonTask
<1>. QED
  BY <1>1, <1>3, <1>4, SettlingKeeps

LEMMA ReleaseForRestartKeeps ==
    ASSUME SupervisionInv, NEW w \in Worker, ReleaseForRestart(w)
    PROVE  SupervisionInv'
<1>1. worker[w].task \in Task /\ handler[w] # "idle"
  BY HandlerOf DEF ReleaseForRestart
<1>2. PICK q \in [Task -> Entry] : q = ReleaseTask(queue, worker[w].task)
  BY <1>1, ReleaseHere
<1>3. /\ q[worker[w].task].status # "claimed"
      /\ \A u \in Task \ {worker[w].task} : q[u].status = "claimed" => queue[u].status = "claimed"
  BY <1>1, <1>2, ReleaseHere
<1>4. /\ Write(q) /\ Settle(w, "reclaim")
      /\ UNCHANGED <<kind, worker, nudges, tracker, silence, tick, todo, stopped, restarts>>
  BY <1>2 DEF ReleaseForRestart
<1>. QED
  BY <1>1, <1>3, <1>4, SettlingKeeps

(* The handler that claims the task again owns it no more: the worker that  *)
(* it starts does.                                                          *)
LEMMA ReclaimKeeps ==
    ASSUME SupervisionInv, NEW w \in Worker, Reclaim(w)
    PROVE  SupervisionInv'
<1> DEFINE t == worker[w].task
<1>1. t \in Task /\ worker[w].life # "none" /\ handler[w] = "reclaim"
  BY HandlerOf DEF Reclaim
<1>2. /\ handler' \in [Worker -> {"idle", "complete", "abandon", "release", "reclaim", "done"}]
      /\ \A v \in Worker \ {w} : handler'[v] = handler[v]
      /\ UNCHANGED <<kind, nudges, silence, tick, todo, stopped, restarts>>
  BY Types DEF Reclaim, Settle
<1>3. \A u \in Task, v \in Worker : Owns(v, u) => v # w
  BY <1>1 DEF Owns
<1>4. CASE Unstarted # {} /\ Write(ClaimTask(queue, t, Coordinator)) /\ Start(t)
  <2>1. /\ queue' \in [Task -> Entry] /\ stale' \subseteq Task
        /\ \A u \in Task \ {t} : queue'[u] = queue[u]
    BY <1>1, <1>4, ClaimHere, WriteTypes
  <2>2. \A v \in Worker : handler'[v] = handler[v] \/ worker[v].life # "none"
    BY <1>1, <1>2
  <2>. HIDE DEF t
  <2>3. /\ Started' /\ Ticking'
        /\ \A v \in Worker : tracker'[v].restarts <= MaxRestarts + 1
        /\ \E v \in Worker : worker'[v].task = t /\ handler'[v] = "idle"
        /\ \A v \in Worker, u \in Task : worker[v].task = u => worker'[v].task = u
    BY <1>1, <1>2, <1>4, <2>2, StartKeeps
  <2>4. worker' \in [Worker -> WorkerRecord] /\ tracker' \in [Worker -> TrackerRecord]
    BY <1>1, <1>4, StartEffect
  <2>5. TypeOK' /\ Shapes'
    BY <1>2, <2>1, <2>3, <2>4 DEF SupervisionInv, TypeOK, Shapes
  <2>6. Owned'
    <3>1. \E v \in Worker : worker'[v].task = t /\ handler'[v] \notin {"reclaim", "done"}
      BY <2>3
    <3>2. \A u \in Task, v \in Worker : Owns(v, u) => Owns(v, u)'
      BY <1>2, <1>3, <2>3 DEF Owns
    <3>3. Owned
      BY DEF SupervisionInv
    <3>4. ASSUME NEW u \in Task \ Orphans, queue'[u].status = "claimed"
          PROVE  \E v \in Worker : Owns(v, u)'
      BY <2>1, <3>1, <3>2, <3>3, <3>4 DEF Owned, Owns
    <3>. QED
      BY <3>4 DEF Owned
  <2>. QED
    BY <2>3, <2>5, <2>6 DEF SupervisionInv
<1>5. CASE UNCHANGED <<queue, stale, worker, tracker>>
  <2>1. Started'
    BY <1>1, <1>2, <1>5, StartedStays
  <2>2. Ticking'
    BY <1>2, <1>5 DEF SupervisionInv, Ticking
  <2>3. Owned'
    <3>1. \A u \in Task, v \in Worker : Owns(v, u) => Owns(v, u)'
      BY <1>2, <1>3, <1>5 DEF Owns
    <3>. QED
      BY <1>5, <3>1, OwnersStay DEF SupervisionInv
  <2>4. TypeOK' /\ Shapes'
    BY <1>2, <1>5 DEF SupervisionInv, TypeOK, Shapes
  <2>. QED
    BY <2>1, <2>2, <2>3, <2>4 DEF SupervisionInv
<1>. QED
  BY <1>4, <1>5 DEF Reclaim

-----------------------------------------------------------------------------
(* The supervisor's tick                                                    *)

LEMMA Goes ==
    ASSUME NEW label, NEW on, Goto(label, on)
    PROVE  tick'.at = label /\ tick'.on = on /\ tick' = [at |-> tick'.at, on |-> tick'.on]
BY DEF Goto

(* Nothing but the supervisor's own place, and the workers it has to look   *)
(* at, is touched.                                                          *)
LEMMA PlaceKeeps ==
    ASSUME SupervisionInv, tick' = [at |-> tick'.at, on |-> tick'.on],
           tick'.at \in Labels \ InHand, tick.at \notin Ending, todo' \subseteq Worker,
           stopped' \in BOOLEAN,
           IF tick'.at = "give back" THEN tick'.on \subseteq Task ELSE tick'.on \in Worker \cup {NoOne},
           queue' \in [Task -> Entry], stale' \subseteq Task,
           \A u \in Task : queue'[u].status = "claimed" => queue[u].status = "claimed",
           UNCHANGED <<kind, worker, nudges, tracker, silence, restarts, handler>>
    PROVE  SupervisionInv'
<1>1. Started'
  BY DEF SupervisionInv, Started
<1>2. Ticking'
  <2>1. tick.at \notin Ending /\ tick'.at \notin InHand
    BY DEF Labels
  <2>2. worker' = worker /\ tracker' = tracker
    OBVIOUS
  <2>3. tick.at # "forget"
    BY <2>1 DEF Ending
  <2>. QED
    BY <2>1, <2>2, <2>3, TickingMoves
<1>3. Owned'
  <2>1. \A w \in Worker, u \in Task : Owns(w, u) => Owns(w, u)'
    BY DEF Owns
  <2>. QED
    BY <2>1, OwnersStay DEF SupervisionInv
<1>4. TypeOK' /\ Shapes'
  BY DEF SupervisionInv, TypeOK, Shapes, Labels
<1>. QED
  BY <1>1, <1>2, <1>3, <1>4 DEF SupervisionInv

LEMMA TickBeginsKeeps ==
    ASSUME SupervisionInv, TickBegins
    PROVE  SupervisionInv'
<1>1. tick'.at = "scan" /\ tick'.on = NoOne /\ tick' = [at |-> tick'.at, on |-> tick'.on]
  BY Goes DEF TickBegins
<1>2. todo' \subseteq Worker /\ tick.at = "idle"
      /\ UNCHANGED <<kind, queue, worker, nudges, tracker, silence, stale, stopped,
                     restarts, handler>>
  BY DEF TickBegins
<1>. QED
  BY <1>1, <1>2, PlaceKeeps, Types DEF Labels, InHand, Ending

LEMMA ScanEndsKeeps ==
    ASSUME SupervisionInv, ScanEnds
    PROVE  SupervisionInv'
<1>1. tick'.at = "cleanup" /\ tick'.on = NoOne /\ tick' = [at |-> tick'.at, on |-> tick'.on]
  BY Goes DEF ScanEnds
<1>2. tick.at = "scan"
      /\ UNCHANGED <<kind, queue, worker, nudges, tracker, silence, stale, todo, stopped,
                     restarts, handler>>
  BY DEF ScanEnds
<1>. QED
  BY <1>1, <1>2, PlaceKeeps, Types DEF Labels, InHand, Ending

LEMMA FindForgottenKeeps ==
    ASSUME SupervisionInv, FindForgotten
    PROVE  SupervisionInv'
<1>1. tick'.at = "give back" /\ tick'.on = Forgotten /\ tick' = [at |-> tick'.at, on |-> tick'.on]
  BY DEF FindForgotten
<1>2. tick.at = "cleanup"
      /\ UNCHANGED <<kind, queue, worker, nudges, tracker, silence, stale, todo, stopped,
                     restarts, handler>>
  BY DEF FindForgotten
<1>3. Forgotten \subseteq Task
  BY Types DEF Forgotten
<1>. QED
  BY <1>1, <1>2, <1>3, PlaceKeeps, Types DEF Labels, InHand, Ending

LEMMA CleanupKeeps ==
    ASSUME SupervisionInv, Cleanup
    PROVE  SupervisionInv'
<1>1. /\ tick.at = "give back" /\ tick.on \subseteq Task /\ tick = [at |-> tick.at, on |-> tick.on]
      /\ UNCHANGED <<kind, worker, nudges, tracker, silence, todo, restarts, handler>>
  BY DEF Cleanup, SupervisionInv, TypeOK, Shapes
<1>2. ASSUME NEW t \in tick.on, Write(ReleaseTask(queue, t)),
             tick' = [tick EXCEPT !.on = tick.on \ {t}], UNCHANGED stopped
      PROVE  SupervisionInv'
  <2>1. t \in Task
    BY <1>1
  <2>2. /\ queue' \in [Task -> Entry] /\ stale' \subseteq Task
        /\ \A u \in Task : queue'[u].status = "claimed" => queue[u].status = "claimed"
    <3>1. PICK q \in [Task -> Entry] : q = ReleaseTask(queue, t)
      BY <2>1, ReleaseHere
    <3>2. queue' = q /\ stale' \subseteq Task
      BY <1>2, <3>1, WriteTypes
    <3>3. \A u \in Task : q[u].status = "claimed" => queue[u].status = "claimed"
      BY <2>1, <3>1, ReleaseHere
    <3>. QED
      BY <3>2, <3>3
  <2>3. tick' = [at |-> "give back", on |-> tick.on \ {t}]
    BY <1>1, <1>2
  <2>4. tick'.at = "give back" /\ tick'.on \subseteq Task /\ tick' = [at |-> tick'.at, on |-> tick'.on]
    BY <1>1, <2>3
  <2>. QED
    BY <1>1, <1>2, <2>2, <2>4, PlaceKeeps, Types DEF Labels, InHand, Ending
<1>3. ASSUME stopped' = (\A w \in Worker : ~tracker[w].there), Goto("idle", NoOne),
             UNCHANGED <<queue, stale>>
      PROVE  SupervisionInv'
  <2>1. tick'.at = "idle" /\ tick'.on = NoOne /\ tick' = [at |-> tick'.at, on |-> tick'.on]
    BY <1>3, Goes
  <2>2. stopped' \in BOOLEAN
    BY <1>3
  <2>. QED
    BY <1>1, <1>3, <2>1, <2>2, PlaceKeeps, Types DEF Labels, InHand, Ending
<1>. QED
  BY <1>2, <1>3 DEF Cleanup

LEMMA Held ==
    ASSUME SupervisionInv, tick.at \in InHand
    PROVE  /\ tick.on \in Worker /\ worker[tick.on].life # "none"
           /\ worker[tick.on].task \in Task
BY DEF SupervisionInv, Ticking, Started

(* A worker is released: the supervisor goes on to the next.                *)
LEMMA ReleaseStuckKeeps ==
    ASSUME SupervisionInv, ReleaseStuck
    PROVE  SupervisionInv'
<1>1. worker[tick.on].task \in Task /\ tick.at = "release"
  BY Held DEF ReleaseStuck, InHand
<1>2. PICK q \in [Task -> Entry] : q = ReleaseTask(queue, worker[tick.on].task)
  BY <1>1, ReleaseHere
<1>3. \A u \in Task : q[u].status = "claimed" => queue[u].status = "claimed"
  BY <1>1, <1>2, ReleaseHere
<1>4. queue' = q /\ stale' \subseteq Task
  BY <1>2, WriteTypes DEF ReleaseStuck
<1>5. tick'.at = "scan" /\ tick'.on = NoOne /\ tick' = [at |-> tick'.at, on |-> tick'.on]
  BY Goes DEF ReleaseStuck
<1>6. UNCHANGED <<kind, worker, nudges, tracker, silence, todo, stopped, restarts, handler>>
  BY DEF ReleaseStuck
<1>. QED
  BY <1>1, <1>3, <1>4, <1>5, <1>6, PlaceKeeps, Types DEF Labels, InHand, Ending

(* The supervisor gets on with the worker that it has in hand.              *)
LEMMA HoldingKeeps ==
    ASSUME SupervisionInv, tick' = [at |-> tick'.at, on |-> tick'.on],
           tick.at \in InHand, tick'.at \in InHand, tick'.on = tick.on,
           tick.at \in Ending => tick'.at \in Ending,
           queue' \in [Task -> Entry], stale' \subseteq Task,
           \A u \in Task : queue'[u].status = "claimed" => queue[u].status = "claimed",
           worker' \in [Worker -> WorkerRecord],
           \A w \in Worker : /\ worker'[w].task = worker[w].task
                             /\ worker'[w].life = worker[w].life,
           nudges' \in [Worker -> Seq({"restart", "abort"})],
           UNCHANGED <<kind, tracker, silence, todo, stopped, restarts, handler>>
    PROVE  SupervisionInv'
<1>1. Started'
  BY StartedStays
<1>2. tick.on \in Worker /\ worker[tick.on].life # "none"
  BY Held
<1>3. Ticking'
  BY <1>2 DEF SupervisionInv, Ticking
<1>4. Owned'
  <2>1. \A w \in Worker, u \in Task : Owns(w, u) => Owns(w, u)'
    BY DEF Owns
  <2>. QED
    BY <2>1, OwnersStay DEF SupervisionInv
<1>5. TypeOK' /\ Shapes'
  BY <1>2 DEF SupervisionInv, TypeOK, Shapes, InHand, Ending
<1>. QED
  BY <1>1, <1>3, <1>4, <1>5 DEF SupervisionInv

LEMMA RequestRestartKeeps ==
    ASSUME SupervisionInv, RequestRestart
    PROVE  SupervisionInv'
<1>1. /\ tick.at \in {"restart", "abandon"}
      /\ UNCHANGED <<kind, queue, worker, tracker, silence, stale, todo, stopped,
                     restarts, handler>>
  BY DEF RequestRestart
<1>2. PICK label \in {"signal", "kill"} :
         /\ label = IF tick.at = "restart" THEN "signal" ELSE "kill"
         /\ Goto(label, tick.on)
  BY DEF RequestRestart
<1>3. tick'.at = label /\ tick'.on = tick.on /\ tick' = [at |-> tick'.at, on |-> tick'.on]
  BY <1>2, Goes
<1>4. nudges' \in [Worker -> Seq({"restart", "abort"})]
  <2>1. tick.on \in Worker /\ nudges \in [Worker -> Seq({"restart", "abort"})]
    BY <1>1, Held, Types DEF InHand, Ending
  <2>2. PICK type \in {"restart", "abort"} :
           nudges' = [nudges EXCEPT ![tick.on] =
                        IF Running(tick.on) THEN Append(nudges[tick.on], type) ELSE nudges[tick.on]]
    BY DEF RequestRestart, SendNudge
  <2>3. Append(nudges[tick.on], type) \in Seq({"restart", "abort"})
    BY <2>1, <2>2
  <2>. QED
    BY <2>1, <2>2, <2>3
<1>5. tick.at \in InHand /\ tick'.at \in InHand /\ (tick.at \in Ending => tick'.at \in Ending)
  BY <1>1, <1>2, <1>3 DEF InHand, Ending
<1>. QED
  BY <1>1, <1>3, <1>4, <1>5, HoldingKeeps, Types

LEMMA SignalKeeps ==
    ASSUME SupervisionInv, Signal
    PROVE  SupervisionInv'
<1>1. /\ tick.at \in {"signal", "kill"}
      /\ UNCHANGED <<kind, queue, nudges, tracker, silence, stale, todo, stopped,
                     restarts, handler>>
  BY DEF Signal
<1>2. PICK label \in {"release", "fail"} :
         /\ label = IF tick.at = "signal" THEN "release" ELSE "fail"
         /\ Goto(label, tick.on)
  BY DEF Signal
<1>3. tick'.at = label /\ tick'.on = tick.on /\ tick' = [at |-> tick'.at, on |-> tick'.on]
  BY <1>2, Goes
<1>4. /\ worker' \in [Worker -> WorkerRecord]
      /\ \A w \in Worker : /\ worker'[w].task = worker[w].task
                           /\ worker'[w].life = worker[w].life
  <2>1. tick.on \in Worker /\ worker[tick.on] \in WorkerRecord
    BY <1>1, Held, Types DEF InHand, Ending
  <2>2. PICK told \in BOOLEAN : told = (worker[tick.on].told \/ Running(tick.on))
    BY <2>1 DEF WorkerRecord, Running
  <2>3. worker' = [worker EXCEPT ![tick.on] = [worker[tick.on] EXCEPT !.told = told]]
    BY <2>2 DEF Signal
  <2>4. PICK r \in WorkerRecord :
           /\ r = [worker[tick.on] EXCEPT !.told = told]
           /\ r.task = worker[tick.on].task /\ r.life = worker[tick.on].life
    BY <2>1, WorkerTypes
  <2>. QED
    BY <2>1, <2>3, <2>4, Types
<1>5. tick.at \in InHand /\ tick'.at \in InHand /\ (tick.at \in Ending => tick'.at \in Ending)
  BY <1>1, <1>2, <1>3 DEF InHand, Ending
<1>. QED
  BY <1>1, <1>3, <1>4, <1>5, HoldingKeeps, Types

LEMMA FailAbandonedKeeps ==
    ASSUME SupervisionInv, FailAbandoned
    PROVE  SupervisionInv'
<1>1. worker[tick.on].task \in Task /\ tick.at = "fail"
  BY Held DEF FailAbandoned, InHand, Ending
<1>2. PICK q \in [Task -> Entry] : q = MarkTaskFailed(queue, worker[tick.on].task)
  BY <1>1, FailHere
<1>3. \A u \in Task : q[u].status = "claimed" => queue[u].status = "claimed"
  BY <1>1, <1>2, FailHere
<1>4. queue' = q /\ stale' \subseteq Task
  BY <1>2, WriteTypes DEF FailAbandoned
<1>5. tick'.at = "forget" /\ tick'.on = tick.on /\ tick' = [at |-> tick'.at, on |-> tick'.on]
  BY Goes DEF FailAbandoned
<1>6. UNCHANGED <<kind, worker, nudges, tracker, silence, todo, stopped, restarts, handler>>
  BY DEF FailAbandoned
<1>7. tick.at \in InHand /\ tick'.at \in InHand /\ tick'.at \in Ending
  BY <1>1, <1>5 DEF InHand, Ending
<1>. QED
  BY <1>3, <1>4, <1>5, <1>6, <1>7, HoldingKeeps, Types

(* What happens to one entry of the table alone.                            *)
LEMMA TableKeeps ==
    ASSUME SupervisionInv, tracker' \in [Worker -> TrackerRecord],
           \A w \in Worker : tracker'[w].there => tracker[w].there,
           \A w \in Worker : tracker'[w].restarts <= MaxRestarts + 1,
           Ticking', tick'.at \in {"scan", "wrap up", "restart", "abandon"},
           tick' = [at |-> tick'.at, on |-> tick'.on], tick'.on \in Worker \cup {NoOne},
           todo' \subseteq Worker,
           UNCHANGED <<kind, queue, worker, nudges, silence, stale, stopped, restarts, handler>>
    PROVE  SupervisionInv'
<1>1. Started'
  BY StartedStays
<1>2. Owned'
  BY OwnersUntouched
<1>3. TypeOK' /\ Shapes'
  BY DEF SupervisionInv, TypeOK, Shapes
<1>. QED
  BY <1>1, <1>2, <1>3 DEF SupervisionInv

LEMMA WrapUpKeeps ==
    ASSUME SupervisionInv, WrapUp
    PROVE  SupervisionInv'
<1>1. tick.at = "wrap up" /\ tick.on \in Worker
      /\ UNCHANGED <<kind, queue, worker, nudges, silence, stale, todo, stopped, restarts, handler>>
  BY Held DEF WrapUp, InHand
<1>2. tick'.at = "scan" /\ tick'.on = NoOne /\ tick' = [at |-> tick'.at, on |-> tick'.on]
  BY Goes DEF WrapUp
<1>3. /\ tracker' \in [Worker -> TrackerRecord]
      /\ \A w \in Worker : /\ tracker'[w].there = tracker[w].there
                           /\ tracker'[w].restarts = tracker[w].restarts
  <2>1. tracker[tick.on] \in TrackerRecord
    BY <1>1, Types
  <2>2. PICK nudged \in BOOLEAN : nudged = tracker[tick.on].there
    BY <2>1 DEF TrackerRecord
  <2>3. tracker' = [tracker EXCEPT ![tick.on] = [tracker[tick.on] EXCEPT !.nudged = nudged]]
    BY <2>2 DEF WrapUp
  <2>4. PICK r \in TrackerRecord :
           /\ r = [tracker[tick.on] EXCEPT !.nudged = nudged]
           /\ r.there = tracker[tick.on].there /\ r.restarts = tracker[tick.on].restarts
    BY <2>1, TrackerTypes
  <2>. QED
    BY <1>1, <2>3, <2>4, Types
<1>4. Ticking' /\ \A w \in Worker : tracker'[w].restarts <= MaxRestarts + 1
  BY <1>1, <1>2, <1>3, TickingMoves DEF InHand, Ending
<1>. QED
  BY <1>1, <1>2, <1>3, <1>4, Types, TableKeeps

LEMMA ForgetAbandonedKeeps ==
    ASSUME SupervisionInv, ForgetAbandoned
    PROVE  SupervisionInv'
<1>1. tick.at = "forget" /\ tick.on \in Worker /\ worker[tick.on].task \in Task
      /\ UNCHANGED <<kind, queue, worker, nudges, silence, stale, todo, stopped, restarts, handler>>
  BY Held DEF ForgetAbandoned, InHand, Ending
<1>2. tick'.at = "scan" /\ tick'.on = NoOne /\ tick' = [at |-> tick'.at, on |-> tick'.on]
  BY Goes DEF ForgetAbandoned
<1>3. /\ tracker' \in [Worker -> TrackerRecord]
      /\ ~tracker'[tick.on].there /\ tracker'[tick.on].restarts = 0
      /\ \A w \in Worker \ {tick.on} : tracker'[w] = tracker[w]
  <2>1. tracker' = [tracker EXCEPT ![tick.on] = Untracked]
    BY DEF ForgetAbandoned
  <2>. QED
    BY <1>1, <2>1, Types, RecordTypes
<1>4. Ticking' /\ \A w \in Worker : tracker'[w].restarts <= MaxRestarts + 1
  BY <1>1, <1>2, <1>3, TickingMoves DEF InHand, Ending
<1>. QED
  BY <1>1, <1>2, <1>3, <1>4, Types, TableKeeps

(* A look at a worker counts a restart only while there are restarts left,  *)
(* or on the way to the abandonment.                                        *)
LEMMA LookKeeps ==
    ASSUME SupervisionInv, NEW w \in Worker, Look(w)
    PROVE  SupervisionInv'
<1>1. /\ tick.at = "scan" /\ w \in todo /\ todo' \subseteq Worker
      /\ UNCHANGED <<kind, queue, worker, nudges, silence, stale, stopped, restarts, handler>>
  BY Types DEF Look
<1>2. /\ tracker \in [Worker -> TrackerRecord] /\ tracker[w].restarts \in Nat
      /\ MaxRestarts \in Nat
  <2>1. tracker[w] \in TrackerRecord
    BY Types
  <2>. QED
    BY <2>1, Types, Limits, TrackerTypes
<1>3. Ticking /\ Shapes /\ \A v \in Worker : ~(tracker[v].restarts > MaxRestarts)
  BY <1>1 DEF SupervisionInv, Ticking, Ending
<1>4. tick = [at |-> tick.at, on |-> tick.on] /\ tick.on \in Worker \cup {NoOne}
  BY <1>1 DEF SupervisionInv, TypeOK, Shapes
<1>5. tracker[w].there => worker[w].life # "none"
  BY DEF SupervisionInv, Started
<1>6. \A v \in Worker : tracker[v].restarts <= MaxRestarts + 1
  BY DEF SupervisionInv, TypeOK
<1>7. CASE tracker' = [tracker EXCEPT ![w] = Untracked] /\ UNCHANGED tick
  <2>1. /\ tracker' \in [Worker -> TrackerRecord]
        /\ ~tracker'[w].there /\ tracker'[w].restarts = 0
        /\ \A v \in Worker \ {w} : tracker'[v] = tracker[v]
    BY <1>2, <1>7, RecordTypes, Limits
  <2>2. Ticking' /\ \A v \in Worker : tracker'[v].restarts <= MaxRestarts + 1
    BY <1>1, <1>7, <2>1, TickingStays
  <2>. QED
    BY <1>1, <1>4, <1>7, <2>1, <2>2, TableKeeps
<1>8. CASE /\ tracker[w].there
           /\ tracker' = [tracker EXCEPT ![w].restarts = tracker[w].restarts + 1]
           /\ Goto(IF tracker[w].restarts < MaxRestarts THEN "restart" ELSE "abandon", w)
  <2>1. /\ tracker' \in [Worker -> TrackerRecord]
        /\ tracker'[w].there = tracker[w].there
        /\ tracker'[w].restarts = tracker[w].restarts + 1
        /\ \A v \in Worker \ {w} : tracker'[v] = tracker[v]
    <3>1. tracker[w] \in TrackerRecord
      BY <1>2
    <3>2. tracker' = [tracker EXCEPT ![w] = [tracker[w] EXCEPT !.restarts = tracker[w].restarts + 1]]
      BY <1>8
    <3>. QED
      BY <1>2, <3>1, <3>2, TrackerTypes
  <2>2. /\ tick'.at = (IF tracker[w].restarts < MaxRestarts THEN "restart" ELSE "abandon")
        /\ tick'.on = w /\ tick' = [at |-> tick'.at, on |-> tick'.on]
    BY <1>8, Goes
  <2>3. \A v \in Worker : tracker'[v].restarts <= MaxRestarts + 1
    BY <1>2, <1>3, <1>6, <2>1
  <2>4. \A v \in Worker : tracker'[v].restarts > MaxRestarts => v = w /\ ~(tracker[w].restarts < MaxRestarts)
    BY <1>2, <1>3, <2>1
  <2>5. Ticking'
    BY <1>1, <1>5, <1>8, <2>2, <2>4 DEF Ticking, Ending
  <2>. QED
    BY <1>1, <2>1, <2>2, <2>3, <2>5, TableKeeps
<1>9. CASE tracker[w].there /\ Goto("wrap up", w) /\ UNCHANGED tracker
  <2>1. tick'.at = "wrap up" /\ tick'.on = w /\ tick' = [at |-> tick'.at, on |-> tick'.on]
    BY <1>9, Goes
  <2>2. Ticking'
    BY <1>1, <1>3, <1>5, <1>9, <2>1 DEF Ticking
  <2>. QED
    BY <1>1, <1>2, <1>6, <1>9, <2>1, <2>2, TableKeeps
<1>10. CASE UNCHANGED <<tracker, tick>>
  <2>1. Ticking'
    BY <1>1, <1>3, <1>10 DEF Ticking
  <2>. QED
    BY <1>1, <1>2, <1>4, <1>6, <1>10, <2>1, TableKeeps
<1>. QED
  BY <1>7, <1>8, <1>9, <1>10 DEF Look

-----------------------------------------------------------------------------
(* The supervisor, the workers and the exit handlers keep the invariant,    *)
(* however they interleave.                                                 *)
THEOREM SupervisionInductive == Spec => []SupervisionInv
<1>1. Init => SupervisionInv
  BY InitHolds
<1>2. SupervisionInv /\ [Next]_vars => SupervisionInv'
  <2> SUFFICES ASSUME SupervisionInv, [Next]_vars PROVE SupervisionInv'
    OBVIOUS
  <2>1. CASE TickStep
    BY <2>1, TickBeginsKeeps, WrapUpKeeps, RequestRestartKeeps, SignalKeeps, ReleaseStuckKeeps,
       FailAbandonedKeeps, ForgetAbandonedKeeps, ScanEndsKeeps, FindForgottenKeeps, CleanupKeeps,
       LookKeeps DEF TickStep
  <2>2. ASSUME NEW t \in Task, Spawn(t) \/ GrowStale(t) PROVE SupervisionInv'
    BY <2>2, SpawnKeeps, GrowStaleKeeps
  <2>3. ASSUME NEW w \in Worker, Turn(w) \/ Silence(w) \/ Exit(w) PROVE SupervisionInv'
    BY <2>3, TurnKeeps, SilenceKeeps, ExitKeeps
  <2>4. ASSUME NEW w \in Worker, HandlerStep(w) PROVE SupervisionInv'
    BY <2>4, HandleExitKeeps, CompleteKeeps, AbandonKeeps, ReleaseForRestartKeeps, ReclaimKeeps
       DEF HandlerStep
  <2>5. CASE UNCHANGED vars
    BY <2>5 DEF vars, SupervisionInv, TypeOK, Shapes, Started, Ticking, Owned, Owns
  <2>. QED
    BY <2>1, <2>2, <2>3, <2>4, <2>5 DEF Next
<1>. QED
  BY <1>1, <1>2, PTL DEF Spec

(* The supervisor's table, the workers and the queue hold what they are     *)
(* declared to hold, and no worker is asked to restart more than            *)
(* MaxRestarts times, whatever the plan and the limits.                     *)
THEOREM TypeCorrect == Spec => []TypeOK
<1>1. SupervisionInv => TypeOK
  BY DEF SupervisionInv
<1>. QED
  BY <1>1, SupervisionInductive, PTL

(* No interleaving of the tick, the exit handlers and the spawning loop     *)
(* leaves a claim behind that nobody will settle.                           *)
THEOREM NoOrphans == Spec => []NoOrphanIsMade
<1>1. SupervisionInv => NoOrphanIsMade
  <2>1. Plan \subseteq Task
    BY QueueAssumption
  <2>. QED
    BY <2>1 DEF SupervisionInv, Owned, Owns, NoOrphanIsMade
<1>. QED
  BY <1>1, SupervisionInductive, PTL
=============================================================================
