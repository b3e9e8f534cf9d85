---------------------------- MODULE DispatchProofs ----------------------------
(***************************************************************************)
(* Theorems about spawn_from_queue, for any plan, any number of workers and *)
(* any limits: who owns a task, how often it is tried, what is left when    *)
(* the tool returns, and that every task goes through TaskLifecycle.        *)
(***************************************************************************)
EXTENDS Dispatch, QueueOpsProofs, FiniteSetTheorems

Process == [task    : Task \cup {NoTask},
            life    : {"free", "running", "exited 0", "exited 1"},
            initial : BOOLEAN]

(* What makes a coroutine, or a worker by its handler, the owner of a task. *)
Owns(p, t) ==
    \/ /\ p \in Worker /\ worker[p].task = t /\ worker[p].life # "free"
       /\ at[p] \in {"idle", "complete", "abandon", "release", "restart"}
    \/ job[p] = t /\ at[p] \in {"first", "start", "give back"}

Ownership ==
    /\ \A t \in Task : queue[t].status = "claimed" => \E p \in Routine : Owns(p, t)
    /\ \A t \in Task, p \in Routine : Owns(p, t) => queue[t].status = "claimed"
    /\ \A t \in Task, p, q \in Routine : Owns(p, t) /\ Owns(q, t) => p = q

(* A process has no handler until its exit is seen, which takes its handle; *)
(* until it is registered the coroutine that started it knows it.           *)
Handles ==
    \A w \in Worker :
        /\ at[w] # "first"
        /\ worker[w].life = "free" => at[w] = "idle"
        /\ worker[w].life # "free" => worker[w].task \in Task
        /\ at[w] # "idle" => w \notin active /\ worker[w].life \in {"exited 0", "exited 1"}
        /\ at[w] = "idle" /\ worker[w].life # "free" =>
              w \in active \/ \E p \in Routine : at[p] = "register" /\ fresh[p] = w

Fresh ==
    \A p \in Routine : at[p] = "register" =>
        /\ fresh[p] \in Worker \ active
        /\ worker[fresh[p]].life # "free" /\ at[fresh[p]] = "idle"
        /\ \A q \in Routine : at[q] = "register" /\ fresh[p] = fresh[q] => p = q

Jobs == \A p \in Routine : at[p] \in {"first", "claim", "start", "give back"} => job[p] \in Task

Phases ==
    /\ at[Loop] \in {"idle", "first", "ask", "claim", "start", "give back", "register"}
    /\ phase # "dispatching" => InFlight = {} /\ at[Loop] \in {"idle", "first"}
    /\ at[Loop] = "first" => phase = "initial"

(* Restarts by the handler come before failures in the queue.               *)
Attempts ==
    /\ \A t \in Task : queue[t].restarts > 0 => restarts[t] >= RestartLimit + queue[t].restarts
    /\ \A w \in Worker : at[w] = "abandon" =>
          restarts[worker[w].task] >= RestartLimit + queue[worker[w].task].restarts + 1
    /\ \A t \in Task : queue[t].status = "failed" => queue[t].restarts >= MaxRestarts

(* What has been handed out once could be: its dependencies are complete.   *)
Dispatched == {"pending", "claimed", "complete", "failed"}

HandedOut ==
    /\ \A t \in Task : queue[t].deps = PlanDeps[t] /\ queue[t].status \in Dispatched
    /\ \A w \in Worker : worker[w].life # "free" =>
          PlanDeps[worker[w].task] \subseteq Completed(queue)
    /\ \A p \in Routine : at[p] \in {"first", "claim", "start", "give back"} =>
          PlanDeps[job[p]] \subseteq Completed(queue)

(* Once a round without progress is counted only the loop does anything: it *)
(* counts another only if nothing is left or a process failed to start.     *)
Rounds ==
    /\ noProgress > 0 => /\ active = {} /\ InFlight = {} /\ phase # "initial"
                         /\ at[Loop] = "claim" => queue[job[Loop]].status = "pending"
    /\ Available(queue) # {} \/ at[Loop] \in {"claim", "start"} => noProgress <= failures + 1
    /\ at[Loop] = "give back" => noProgress <= failures
    /\ phase # "done" => noProgress < MaxNoProgress
    /\ phase = "done" => /\ active = {} /\ at[Loop] = "idle" /\ Available(queue) = {}

DispatchInv ==
    /\ TypeOK /\ Ownership /\ Handles /\ Fresh /\ Jobs /\ Phases
    /\ Attempts /\ HandedOut /\ Rounds

LEMMA Types ==
    ASSUME DispatchInv
    PROVE  /\ queue \in [Task -> Entry] /\ worker \in [Worker -> Process] /\ active \subseteq Worker
           /\ at \in [Routine -> Label] /\ job \in [Routine -> Task \cup {NoTask}]
           /\ fresh \in [Routine -> Worker \cup {NoWorker}] /\ restarts \in [Task -> Nat]
           /\ noProgress \in 0..MaxNoProgress /\ failures \in 0..SpawnFailures
           /\ noProgress \in Nat /\ failures \in Nat /\ Worker \subseteq Routine /\ Loop \in Routine
           /\ Loop \notin Worker /\ NoTask \notin Task
           /\ \A w \in active : worker[w].life # "free" /\ at[w] = "idle"
<1>1. TypeOK /\ Handles
  BY DEF DispatchInv
<1>2. active \subseteq Worker /\ \A w \in active : worker[w].life # "free"
  BY <1>1 DEF TypeOK, FreeWorkers
<1>3. \A w \in active : at[w] = "idle"
  BY <1>1, <1>2 DEF Handles
<1>4. noProgress \in Nat /\ failures \in Nat
  <2>1. MaxNoProgress \in Nat /\ SpawnFailures \in Nat
    BY DispatchAssumption
  <2>2. noProgress \in 0..MaxNoProgress /\ failures \in 0..SpawnFailures
    BY <1>1 DEF TypeOK
  <2>. QED
    BY <2>1, <2>2
<1>. QED
  BY <1>1, <1>2, <1>3, <1>4, DispatchAssumption, QueueAssumption DEF TypeOK, Process, Routine

LEMMA Limits ==
    /\ RestartLimit \in Nat /\ MaxNoProgress \in Nat /\ SpawnFailures \in Nat
    /\ MaxWorkers \in Nat /\ MaxWorkers # 0 /\ MaxRestarts \in Nat /\ MaxRestarts # 0
    /\ MaxNoProgress > SpawnFailures + 1
BY DispatchAssumption, QueueAssumption

LEMMA ProcessTypes ==
    ASSUME NEW r \in Process, NEW life \in {"exited 0", "exited 1"}
    PROVE  /\ [r EXCEPT !.life = life] \in Process
           /\ [r EXCEPT !.life = life].life = life
           /\ [r EXCEPT !.life = life].task = r.task
           /\ [r EXCEPT !.life = life].initial = r.initial
BY DEF Process

LEMMA NoProcessType ==
    NoProcess \in Process /\ NoProcess.life = "free"
BY DEF NoProcess, Process

-----------------------------------------------------------------------------
(* How ownership changes hands                                              *)

LEMMA OwnersKeep ==
    ASSUME Ownership,
           \A t \in Task : queue'[t].status = "claimed" <=> queue[t].status = "claimed",
           \A p \in Routine, t \in Task : Owns(p, t)' <=> Owns(p, t)
    PROVE  Ownership'
BY DEF Ownership, Routine

LEMMA OwnerTakes ==
    ASSUME Ownership, NEW p0 \in Routine, NEW t0 \in Task,
           queue[t0].status # "claimed", queue'[t0].status = "claimed",
           \A t \in Task \ {t0} : queue'[t].status = "claimed" <=> queue[t].status = "claimed",
           \A p \in Routine, t \in Task : Owns(p, t)' <=> Owns(p, t) \/ (p = p0 /\ t = t0)
    PROVE  Ownership'
BY DEF Ownership, Routine

LEMMA OwnerDrops ==
    ASSUME Ownership, NEW p0 \in Routine, NEW t0 \in Task, Owns(p0, t0),
           queue'[t0].status # "claimed",
           \A t \in Task \ {t0} : queue'[t].status = "claimed" <=> queue[t].status = "claimed",
           \A p \in Routine, t \in Task : Owns(p, t)' <=> Owns(p, t) /\ ~(p = p0 /\ t = t0)
    PROVE  Ownership'
BY DEF Ownership, Routine

LEMMA OwnerPasses ==
    ASSUME Ownership, NEW p0 \in Routine, NEW p1 \in Routine, NEW t0 \in Task, Owns(p0, t0),
           \A t \in Task : queue'[t].status = "claimed" <=> queue[t].status = "claimed",
           \A p \in Routine, t \in Task :
              Owns(p, t)' <=> (Owns(p, t) /\ ~(p = p0 /\ t = t0)) \/ (p = p1 /\ t = t0)
    PROVE  Ownership'
BY DEF Ownership, Routine

-----------------------------------------------------------------------------
(* What the operations on the queue do to it in this module.                *)

LEMMA ClaimHere ==
    ASSUME DispatchInv, NEW t \in Task, queue' = ClaimTask(queue, t, Coordinator)
    PROVE  /\ queue' \in [Task -> Entry] /\ \A u \in Task \ {t} : queue'[u] = queue[u]
           /\ queue'[t].status = "claimed" /\ queue'[t].deps = queue[t].deps
           /\ queue'[t].restarts = queue[t].restarts
<1>1. queue \in [Task -> Entry] /\ Coordinator \in Identity
  BY Types, DispatchAssumption
<1>2. queue'[t] = [queue[t] EXCEPT !.status = "claimed", !.claimedBy = Coordinator]
  BY <1>1 DEF ClaimTask
<1>. QED
  BY <1>1, <1>2, ClaimEffect DEF Entry

LEMMA ReleaseHere ==
    ASSUME DispatchInv, NEW t \in Task, queue' = ReleaseTask(queue, t)
    PROVE  /\ queue' \in [Task -> Entry] /\ \A u \in Task \ {t} : queue'[u] = queue[u]
           /\ queue'[t].status = "pending" /\ queue'[t].deps = queue[t].deps
           /\ queue'[t].restarts = queue[t].restarts
<1>1. queue \in [Task -> Entry]
  BY Types
<1>. QED
  BY <1>1, ReleaseEffect, EntryFields

LEMMA CompleteHere ==
    ASSUME DispatchInv, NEW t \in Task, queue' = MarkTaskComplete(queue, t)
    PROVE  /\ queue' \in [Task -> Entry] /\ \A u \in Task \ {t} : queue'[u] = queue[u]
           /\ queue'[t].status = "complete" /\ queue'[t].deps = queue[t].deps
           /\ queue'[t].restarts = queue[t].restarts
<1>1. queue \in [Task -> Entry]
  BY Types
<1>2. \A u \in Task : queue[u].status # "blocked"
  BY DEF DispatchInv, HandedOut, Dispatched
<1>3. queue'[t] = [queue[t] EXCEPT !.status = "complete"] /\ queue[t] \in Entry
  BY <1>1, CompleteEffect
<1>4. /\ queue'[t].status = "complete" /\ queue'[t].deps = queue[t].deps
      /\ queue'[t].restarts = queue[t].restarts
  BY <1>3 DEF Entry
<1>5. queue' \in [Task -> Entry] /\ \A u \in Task \ {t} : queue'[u] = queue[u]
  <2>1. /\ queue' \in [Task -> Entry]
        /\ \A u \in Task \ {t} : queue'[u] = queue[u] \/ queue[u].status = "blocked"
    BY <1>1, CompleteEffect
  <2>. QED
    BY <1>2, <2>1
<1>. QED
  BY <1>4, <1>5

LEMMA FailHere ==
    ASSUME DispatchInv, NEW t \in Task, queue' = MarkTaskFailed(queue, t)
    PROVE  /\ queue' \in [Task -> Entry] /\ \A u \in Task \ {t} : queue'[u] = queue[u]
           /\ queue'[t].deps = queue[t].deps /\ queue'[t].restarts = queue[t].restarts + 1
           /\ \/ queue'[t].status = "pending"
              \/ queue'[t].status = "failed" /\ queue'[t].restarts >= MaxRestarts
<1>1. queue \in [Task -> Entry]
  BY Types
<1>2. queue'[t].restarts = queue[t].restarts + 1
  <2> DEFINE counted == [queue[t] EXCEPT !.restarts = @ + 1]
  <2>1. counted \in Entry /\ counted.restarts = queue[t].restarts + 1
    BY <1>1, EntryType DEF Entry
  <2>2. queue'[t] = IF FailsForGood(queue, t) THEN [counted EXCEPT !.status = "failed"]
                    ELSE ToPending(counted)
    BY <1>1 DEF MarkTaskFailed
  <2>. HIDE DEF counted
  <2>3. [counted EXCEPT !.status = "failed"].restarts = counted.restarts
    BY <2>1 DEF Entry
  <2>. QED
    BY <2>1, <2>2, <2>3, EntryFields
<1>. QED
  BY <1>1, <1>2, FailEffect

(* A task that is handed out has been waited for by nobody, and waits for   *)
(* nothing.                                                                 *)
LEMMA NextTaskIs ==
    ASSUME DispatchInv, NEW t \in NextTasks(queue)
    PROVE  /\ t \in Task /\ queue[t].status = "pending" /\ t \in Available(queue)
           /\ PlanDeps[t] \subseteq Completed(queue)
           /\ \A p \in Routine : ~Owns(p, t)
BY DEF NextTasks, Available, WithStatus, DispatchInv, HandedOut, Ownership

(* As long as nothing is completed a second time, or taken back.            *)
LEMMA CompletedStays ==
    ASSUME DispatchInv, NEW t \in Task, queue[t].status \in {"pending", "claimed"},
           \A u \in Task \ {t} : queue'[u] = queue[u]
    PROVE  Completed(queue) \subseteq Completed(queue')
BY DEF Completed, WithStatus

(* A step that counts no attempt and fails no task.                         *)
LEMMA AttemptsKeep ==
    ASSUME DispatchInv, restarts' = restarts,
           \A u \in Task : /\ queue'[u].restarts = queue[u].restarts
                           /\ queue'[u].status = "failed" => queue[u].status = "failed",
           \A w \in Worker : at'[w] = "abandon" => at[w] = "abandon" /\ worker'[w].task = worker[w].task
    PROVE  Attempts'
<1>1. \A w \in Worker : at[w] = "abandon" => worker[w].task \in Task
  BY DEF DispatchInv, Handles
<1>. QED
  BY <1>1 DEF DispatchInv, Attempts

-----------------------------------------------------------------------------
LEMMA ExitKeeps ==
    ASSUME DispatchInv, NEW w \in Worker, Exit(w)
    PROVE  DispatchInv'
<1>1. PICK outcome \in Outcomes :
         /\ worker[w].life = "running"
         /\ worker' = [worker EXCEPT ![w].life = IF ExitCode(outcome) = 0
                                                 THEN "exited 0" ELSE "exited 1"]
         /\ finished' = IF outcome = "finished" THEN finished \cup {worker[w].task} ELSE finished
         /\ UNCHANGED <<queue, phase, active, restarts, at, job, fresh, noProgress, failures>>
  BY DEF Exit
<1>2. PICK life \in {"exited 0", "exited 1"} : worker' = [worker EXCEPT ![w].life = life]
  BY <1>1
<1>3. /\ worker' \in [Worker -> Process] /\ worker'[w].life = life /\ worker'[w].task = worker[w].task
      /\ \A v \in Worker \ {w} : worker'[v] = worker[v]
  <2>1. worker[w] \in Process /\ worker' = [worker EXCEPT ![w] = [worker[w] EXCEPT !.life = life]]
    BY <1>2, Types
  <2>2. [worker[w] EXCEPT !.life = life] \in Process
    BY <2>1, ProcessTypes
  <2>3. worker \in [Worker -> Process]
    BY Types
  <2>4. worker'[w] = [worker[w] EXCEPT !.life = life]
    BY <2>1, <2>3
  <2>5. worker' \in [Worker -> Process] /\ \A v \in Worker \ {w} : worker'[v] = worker[v]
    BY <2>1, <2>2, <2>3
  <2>6. worker'[w].life = life /\ worker'[w].task = worker[w].task
    BY <2>1, <2>4 DEF Process
  <2>. QED
    BY <2>5, <2>6
<1>4. \A v \in Worker : worker'[v].task = worker[v].task
                        /\ (worker'[v].life = "free" <=> worker[v].life = "free")
  BY <1>1, <1>3
<1>5. TypeOK'
  <2>1. worker[w].task \in Task
    BY <1>1 DEF DispatchInv, Handles
  <2>2. finished' \subseteq Task
    BY <1>1, <2>1 DEF DispatchInv, TypeOK
  <2>. QED
    BY <1>1, <1>3, <1>4, <2>2 DEF DispatchInv, TypeOK, Process, FreeWorkers
<1>6. Ownership'
  <2>1. \A p \in Routine, t \in Task : Owns(p, t)' <=> Owns(p, t)
    BY <1>1, <1>4 DEF Owns
  <2>. QED
    BY <1>1, <2>1, OwnersKeep DEF DispatchInv
<1>7. Handles'
  <2>1. at[w] = "idle"
    BY <1>1 DEF DispatchInv, Handles
  <2>2. ASSUME NEW v \in Worker
        PROVE  at[v] # "idle" => v \notin active /\ worker'[v].life \in {"exited 0", "exited 1"}
    BY <1>3, <2>1 DEF DispatchInv, Handles
  <2>3. ASSUME NEW v \in Worker, at[v] = "idle", worker'[v].life # "free"
        PROVE  v \in active \/ \E p \in Routine : at[p] = "register" /\ fresh[p] = v
    BY <1>4, <2>3 DEF DispatchInv, Handles
  <2>4. ASSUME NEW v \in Worker
        PROVE  /\ at[v] # "first"
               /\ worker'[v].life = "free" => at[v] = "idle"
               /\ worker'[v].life # "free" => worker'[v].task \in Task
    BY <1>4 DEF DispatchInv, Handles
  <2>. QED
    BY <1>1, <2>2, <2>3, <2>4 DEF Handles
<1>8. Fresh' /\ Jobs' /\ Phases'
  BY <1>1, <1>4 DEF DispatchInv, Fresh, Jobs, Phases, InFlight
<1>9. Attempts' /\ HandedOut' /\ Rounds'
  BY <1>1, <1>4 DEF DispatchInv, Attempts, HandedOut, Rounds, InFlight
<1>. QED
  BY <1>5, <1>6, <1>7, <1>8, <1>9 DEF DispatchInv

LEMMA InitialClaimKeeps ==
    ASSUME DispatchInv, InitialClaim
    PROVE  DispatchInv'
<1>1. PICK t \in NextTasks(queue) :
         /\ queue' = ClaimTask(queue, t, Coordinator)
         /\ job' = [job EXCEPT ![Loop] = t] /\ at' = [at EXCEPT ![Loop] = "first"]
         /\ UNCHANGED <<phase, worker, active, restarts, fresh, noProgress, finished, failures>>
         /\ phase = "initial" /\ at[Loop] = "idle"
  BY DEF InitialClaim
<1>2. /\ at' \in [Routine -> Label] /\ at'[Loop] = "first" /\ job'[Loop] = t
      /\ \A p \in Routine \ {Loop} : at'[p] = at[p] /\ job'[p] = job[p]
      /\ job' \in [Routine -> Task \cup {NoTask}]
      /\ \A w \in Worker : at'[w] = at[w] /\ job'[w] = job[w]
  BY <1>1, NextTaskIs, Types DEF Label
<1>3. /\ queue' \in [Task -> Entry] /\ \A u \in Task \ {t} : queue'[u] = queue[u]
      /\ queue'[t].status = "claimed" /\ queue'[t].deps = queue[t].deps
      /\ queue'[t].restarts = queue[t].restarts
      /\ Completed(queue) \subseteq Completed(queue')
  BY <1>1, NextTaskIs, ClaimHere, CompletedStays
<1>4. TypeOK'
  BY <1>1, <1>2, <1>3 DEF DispatchInv, TypeOK, FreeWorkers
<1>5. Ownership'
  <2>1. \A p \in Routine, u \in Task : Owns(p, u)' <=> Owns(p, u) \/ (p = Loop /\ u = t)
    <3>1. ASSUME NEW p \in Routine \ {Loop}, NEW u \in Task
          PROVE  Owns(p, u)' <=> Owns(p, u)
      BY <1>1, <1>2 DEF Owns
    <3>2. ASSUME NEW u \in Task
          PROVE  ~Owns(Loop, u) /\ (Owns(Loop, u)' <=> u = t)
      BY <1>1, <1>2, Types DEF Owns
    <3>. QED
      BY <3>1, <3>2
  <2>. QED
    BY <1>1, <1>3, <2>1, OwnerTakes, NextTaskIs, Types DEF DispatchInv
<1>6. Handles'
  BY <1>1, <1>2, Types DEF DispatchInv, Handles, Routine
<1>7. Fresh' /\ Jobs' /\ Phases'
  <2>1. Fresh'
    BY <1>1, <1>2, Types DEF DispatchInv, Fresh, Routine
  <2>2. Jobs'
    BY <1>1, <1>2, NextTaskIs DEF DispatchInv, Jobs
  <2>3. Phases'
    BY <1>1, <1>2 DEF DispatchInv, Phases, InFlight
  <2>. QED
    BY <2>1, <2>2, <2>3
<1>8. Attempts' /\ HandedOut'
  <2>1. \A u \in Task : queue'[u].restarts = queue[u].restarts /\ queue'[u].deps = queue[u].deps
    BY <1>3
  <2>2. Attempts'
    BY <1>1, <1>2, <1>3, <2>1, AttemptsKeep
  <2>3. \A u \in Task : queue'[u].deps = PlanDeps[u] /\ queue'[u].status \in Dispatched
    BY <1>3, <2>1 DEF DispatchInv, HandedOut, Dispatched
  <2>4. ASSUME NEW p \in Routine, at'[p] \in {"first", "claim", "start", "give back"}
        PROVE  PlanDeps[job'[p]] \subseteq Completed(queue')
    BY <1>1, <1>2, <1>3, <2>4, NextTaskIs DEF DispatchInv, HandedOut
  <2>. QED
    BY <1>1, <1>3, <2>2, <2>3, <2>4 DEF DispatchInv, HandedOut
<1>9. Rounds'
  BY <1>1, <1>2, Types DEF DispatchInv, Rounds
<1>. QED
  BY <1>4, <1>5, <1>6, <1>7, <1>8, <1>9 DEF DispatchInv

-----------------------------------------------------------------------------
LEMMA GotoEffect ==
    ASSUME DispatchInv, NEW p \in Routine, NEW label \in Label, Goto(p, label)
    PROVE  /\ at' \in [Routine -> Label] /\ at'[p] = label
           /\ \A q \in Routine \ {p} : at'[q] = at[q]
BY Types DEF Goto

LEMMA NotFull ==
    ASSUME Full
    PROVE  active # {}
BY Limits, FS_EmptySet DEF Full

(* While a handler is in flight no round is counted.                        *)
LEMMA HandlerInFlight ==
    ASSUME DispatchInv, NEW w \in Worker, at[w] # "idle" \/ (w \in active /\ phase = "dispatching")
    PROVE  noProgress = 0 /\ phase = "dispatching"
<1>1. noProgress \in Nat /\ (at[w] # "idle" => w \in InFlight)
  BY Types DEF InFlight
<1>2. ~(noProgress > 0)
  BY <1>1 DEF DispatchInv, Rounds
<1>3. phase = "dispatching"
  BY <1>1 DEF DispatchInv, Phases, TypeOK
<1>. QED
  BY <1>1, <1>2, <1>3

LEMMA NothingIsLess ==
    ASSUME NEW m, NEW n \in Nat, m = 0
    PROVE  m <= n /\ m <= n + 1 /\ ~(m > 0)
OBVIOUS

LEMMA RoundsWait ==
    ASSUME DispatchInv, noProgress = 0, noProgress' = noProgress,
           phase' \in {"initial", "dispatching"}, failures' \in Nat
    PROVE  Rounds'
<1>1. MaxNoProgress > 0
  BY Limits
<1>2. noProgress' = 0 /\ phase' # "done"
  OBVIOUS
<1>3. noProgress' <= failures' /\ noProgress' <= failures' + 1 /\ ~(noProgress' > 0)
  BY <1>2, NothingIsLess
<1>4. noProgress' < MaxNoProgress
  BY <1>1, <1>2
<1>. QED
  BY <1>2, <1>3, <1>4 DEF Rounds

(* A coroutine comes to its end: a handler's process is forgotten.          *)
LEMMA EndEffect ==
    ASSUME DispatchInv, NEW p \in Routine, Goto(p, "idle"), worker' = Free(p)
    PROVE  /\ at' \in [Routine -> Label] /\ at'[p] = "idle"
           /\ \A q \in Routine \ {p} : at'[q] = at[q]
           /\ worker' \in [Worker -> Process]
           /\ \A w \in Worker \ {p} : worker'[w] = worker[w]
           /\ p \in Worker => worker'[p] = NoProcess
<1>1. worker \in [Worker -> Process]
  BY Types
<1>2. /\ worker' \in [Worker -> Process] /\ \A w \in Worker \ {p} : worker'[w] = worker[w]
      /\ p \in Worker => worker'[p] = NoProcess
  <2>1. CASE p = Loop
    BY <1>1, <2>1, Types DEF Free
  <2>2. CASE p # Loop
    BY <1>1, <2>2, NoProcessType DEF Free, Routine
  <2>. QED
    BY <2>1, <2>2
<1>. QED
  BY <1>2, GotoEffect DEF Label

(* It owns nothing any more, and what it has started it has registered.     *)
LEMMA EndKeeps ==
    ASSUME DispatchInv, NEW p \in Routine, Goto(p, "idle"), worker' = Free(p),
           p \in Worker => at[p] # "idle",
           active' = IF at[p] = "register" THEN active \cup {fresh[p]} ELSE active,
           \A q \in Routine \ {p} : job'[q] = job[q] /\ fresh'[q] = fresh[q]
    PROVE  /\ active' \in SUBSET (Worker \ FreeWorkers)'
           /\ Handles' /\ Fresh' /\ Jobs'
           /\ \A u \in Task : ~Owns(p, u)' /\ \A q \in Routine \ {p} : Owns(q, u)' <=> Owns(q, u)
<1>0. Handles
  BY DEF DispatchInv
<1>1. /\ at'[p] = "idle" /\ \A q \in Routine \ {p} : at'[q] = at[q]
      /\ \A w \in Worker \ {p} : worker'[w] = worker[w] /\ at'[w] = at[w]
      /\ p \in Worker => worker'[p] = NoProcess
      /\ NoProcess.life = "free" /\ Worker \subseteq Routine
  BY EndEffect, NoProcessType, Types
<1>2. \A w \in active : worker[w].life # "free" /\ at[w] = "idle" /\ w # p /\ w \in Worker
  BY Types
<1>3. at[p] = "register" => /\ fresh[p] \in Worker \ active /\ fresh[p] # p
                            /\ worker[fresh[p]].life # "free" /\ at[fresh[p]] = "idle"
  BY DEF DispatchInv, Fresh
<1>4. \A w \in active' : worker'[w].life # "free" /\ at'[w] = "idle" /\ w # p /\ w \in Worker
  BY <1>1, <1>2, <1>3
<1>5. active' \in SUBSET (Worker \ FreeWorkers)'
  BY <1>4 DEF FreeWorkers
<1>6. Handles'
  <2>1. ASSUME NEW w \in Worker \ {p}
        PROVE  /\ at'[w] # "first"
               /\ worker'[w].life = "free" => at'[w] = "idle"
               /\ worker'[w].life # "free" => worker'[w].task \in Task
               /\ at'[w] # "idle" => w \notin active' /\ worker'[w].life \in {"exited 0", "exited 1"}
               /\ at'[w] = "idle" /\ worker'[w].life # "free" =>
                     w \in active' \/ \E q \in Routine : at'[q] = "register" /\ fresh'[q] = w
    <3>1. at'[w] = at[w] /\ worker'[w] = worker[w]
      BY <1>1
    <3>2. /\ at[w] # "first"
          /\ worker[w].life = "free" => at[w] = "idle"
          /\ worker[w].life # "free" => worker[w].task \in Task
          /\ at[w] # "idle" => worker[w].life \in {"exited 0", "exited 1"}
      BY <1>0 DEF Handles
    <3>3. at'[w] # "idle" => w \notin active'
      BY <1>4
    <3>4. ASSUME at[w] = "idle", worker[w].life # "free", w \notin active
          PROVE  w \in active' \/ \E q \in Routine : at'[q] = "register" /\ fresh'[q] = w
      <4>1. PICK q \in Routine : at[q] = "register" /\ fresh[q] = w
        BY <1>0, <3>4 DEF Handles
      <4>2. CASE q = p
        BY <4>1, <4>2
      <4>3. CASE q # p
        BY <1>1, <4>1, <4>3
      <4>. QED
        BY <4>2, <4>3
    <3>5. active \subseteq active'
      OBVIOUS
    <3>. QED
      BY <3>1, <3>2, <3>3, <3>4, <3>5
  <2>2. ASSUME p \in Worker
        PROVE  at'[p] = "idle" /\ worker'[p].life = "free"
    BY <1>1, <2>2
  <2>3. ASSUME NEW w \in Worker, w = p
        PROVE  /\ at'[w] = "idle" /\ worker'[w].life = "free"
    BY <2>2, <2>3
  <2>. QED
    BY <2>1, <2>3 DEF Handles
<1>7. Fresh'
  <2>. SUFFICES ASSUME NEW q \in Routine, at'[q] = "register"
                PROVE  /\ fresh'[q] \in Worker \ active'
                       /\ worker'[fresh'[q]].life # "free" /\ at'[fresh'[q]] = "idle"
                       /\ \A r \in Routine : at'[r] = "register" /\ fresh'[q] = fresh'[r] => q = r
    BY DEF Fresh
  <2>1. q # p /\ at[q] = "register" /\ fresh'[q] = fresh[q]
    BY <1>1
  <2>2. /\ fresh[q] \in Worker \ active /\ worker[fresh[q]].life # "free" /\ at[fresh[q]] = "idle"
        /\ \A r \in Routine : at[r] = "register" /\ fresh[q] = fresh[r] => q = r
    BY <2>1 DEF DispatchInv, Fresh
  <2>3. fresh[q] # p /\ fresh[q] \notin active'
    BY <2>1, <2>2
  <2>. QED
    BY <1>1, <2>1, <2>2, <2>3
<1>8. Jobs'
  BY <1>1 DEF DispatchInv, Jobs
<1>9. ASSUME NEW u \in Task
      PROVE  ~Owns(p, u)' /\ \A q \in Routine \ {p} : Owns(q, u)' <=> Owns(q, u)
  BY <1>1 DEF Owns
<1>. QED
  BY <1>5, <1>6, <1>7, <1>8, <1>9

(* What maybeSpawnNextWorker's return does to the loop's count.             *)
LEMMA ReturnKeeps ==
    ASSUME DispatchInv, NEW p \in Routine, NEW spawned \in BOOLEAN, Return(p, spawned),
           phase = "dispatching", failures' = failures,
           p \in Worker => at[p] # "idle",
           ~spawned => active' = active,
           p = Loop /\ active = {} /\ InFlight = {} /\ ~spawned /\ Available(queue') # {}
              => noProgress <= failures
    PROVE  /\ phase' \in {"initial", "dispatching", "done"} /\ noProgress' \in 0..MaxNoProgress
           /\ Phases' /\ Rounds' /\ Goto(p, "idle")
<1>1. /\ Goto(p, "idle") /\ at'[p] = "idle" /\ \A q \in Routine \ {p} : at'[q] = at[q]
      /\ Worker \subseteq Routine /\ Loop \in Routine /\ Loop \notin Worker
      /\ noProgress \in Nat /\ failures \in Nat
  BY GotoEffect, Types DEF Return, Label
<1>2. MaxNoProgress \in Nat /\ MaxNoProgress > SpawnFailures + 1 /\ failures <= SpawnFailures
      /\ SpawnFailures \in Nat
  BY Limits, Types
<1>3. noProgress < MaxNoProgress
  BY DEF DispatchInv, Rounds
<1>4. CASE p = Loop
  <2>0. \A w \in Worker : at'[w] = at[w]
    BY <1>1, <1>4
  <2>1. /\ noProgress' = IF active # {} \/ spawned THEN 0
                         ELSE IF InFlight = {} THEN noProgress + 1 ELSE noProgress
        /\ phase' = IF noProgress' >= MaxNoProgress THEN "done" ELSE phase
    BY <1>4 DEF Return
  <2>2. InFlight # {} => noProgress = 0
    <3>1. ~(noProgress > 0) \/ InFlight = {}
      BY DEF DispatchInv, Rounds
    <3>. QED
      BY <1>1, <3>1
  <2>3. InFlight' = InFlight
    BY <2>0 DEF InFlight
  <2>4. noProgress' \in 0..MaxNoProgress /\ noProgress' \in Nat
    BY <1>1, <1>2, <1>3, <2>1, <2>2
  <2>5. noProgress' > 0 => active = {} /\ ~spawned /\ InFlight = {} /\ noProgress' = noProgress + 1
    BY <1>1, <2>1, <2>2
  <2>6. Available(queue') # {} => noProgress' <= failures + 1
    BY <1>1, <1>4, <2>4, <2>5
  <2>7. phase' = "done" => noProgress' > 0 /\ Available(queue') = {} /\ InFlight' = {}
    BY <1>1, <1>2, <2>1, <2>3, <2>4, <2>5, <2>6
  <2>8. Phases'
    BY <1>1, <1>4, <2>1, <2>7 DEF Phases
  <2>9. Rounds'
    <3>1. noProgress' > 0 => active' = {} /\ InFlight' = {} /\ phase' # "initial"
      BY <2>1, <2>3, <2>5
    <3>2. at'[Loop] = "idle" /\ failures' = failures
      BY <1>1, <1>4
    <3>3. phase' # "done" => noProgress' < MaxNoProgress
      BY <1>2, <2>1, <2>4
    <3>4. phase' = "done" => active' = {}
      BY <2>5, <2>7
    <3>. QED
      BY <2>6, <2>7, <3>1, <3>2, <3>3, <3>4 DEF Rounds
  <2>. QED
    BY <1>1, <2>1, <2>4, <2>8, <2>9
<1>5. CASE p # Loop
  <2>1. p \in Worker /\ noProgress' = noProgress /\ phase' = phase /\ at'[Loop] = at[Loop]
    BY <1>1, <1>5 DEF Return, Routine
  <2>2. noProgress = 0
    BY <2>1, HandlerInFlight
  <2>3. Rounds'
    BY <1>1, <2>1, <2>2, RoundsWait
  <2>4. Phases'
    BY <2>1 DEF DispatchInv, Phases
  <2>. QED
    BY <1>1, <1>2, <2>1, <2>2, <2>3, <2>4
<1>. QED
  BY <1>4, <1>5

-----------------------------------------------------------------------------
(* Steps that change only where a coroutine is, and its job.                *)

LEMMA PhaseMoves ==
    ASSUME DispatchInv, phase = "dispatching", phase' = phase, NEW p \in Routine,
           NEW label \in {"ask", "claim", "start", "give back", "register"}, Goto(p, label)
    PROVE  Phases'
<1>1. at'[p] = label /\ \A q \in Routine \ {p} : at'[q] = at[q]
  BY GotoEffect DEF Label
<1>2. Loop \in Routine /\ Phases
  BY Types DEF DispatchInv
<1>3. /\ at'[Loop] \in {"idle", "first", "ask", "claim", "start", "give back", "register"}
      /\ at'[Loop] # "first"
  BY <1>1, <1>2 DEF Phases
<1>. QED
  BY <1>3 DEF Phases

LEMMA PhaseStays ==
    ASSUME DispatchInv, phase = "dispatching", phase' = phase, at'[Loop] = at[Loop]
    PROVE  Phases'
BY DEF DispatchInv, Phases

LEMMA Dispatching ==
    ASSUME DispatchInv, NEW p \in Routine, at[p] \in Label \ {"idle", "first"}
    PROVE  phase = "dispatching"
<1>1. Phases
  BY DEF DispatchInv
<1>2. CASE p = Loop
  BY <1>1, <1>2 DEF Phases
<1>3. CASE p # Loop
  <2>1. p \in InFlight
    BY <1>3 DEF InFlight, Routine
  <2>. QED
    BY <1>1, <2>1 DEF Phases
<1>. QED
  BY <1>2, <1>3

LEMMA MoveKeeps ==
    ASSUME DispatchInv, NEW p \in Routine, NEW label \in Label \ {"idle", "first", "register"},
           Goto(p, label), p \in Worker => at[p] # "idle", at[p] # "register",
           worker' = worker, active' = active, fresh' = fresh,
           \A q \in Routine \ {p} : job'[q] = job[q],
           label \in {"claim", "start", "give back"} => job'[p] \in Task
    PROVE  /\ active' \in SUBSET (Worker \ FreeWorkers)'
           /\ Handles' /\ Fresh' /\ Jobs'
           /\ \A u \in Task : \A q \in Routine \ {p} : Owns(q, u)' <=> Owns(q, u)
<1>1. at'[p] = label /\ \A q \in Routine \ {p} : at'[q] = at[q]
  BY GotoEffect
<1>2. active' \in SUBSET (Worker \ FreeWorkers)'
  BY DEF DispatchInv, TypeOK, FreeWorkers
<1>3. Handles'
  <2>1. ASSUME NEW w \in Worker, w # p
        PROVE  /\ at[w] # "first"
               /\ worker[w].life = "free" => at[w] = "idle"
               /\ worker[w].life # "free" => worker[w].task \in Task
               /\ at[w] # "idle" => w \notin active /\ worker[w].life \in {"exited 0", "exited 1"}
               /\ at[w] = "idle" /\ worker[w].life # "free" =>
                     w \in active \/ \E q \in Routine : at'[q] = "register" /\ fresh[q] = w
    <3>1. /\ at[w] # "first"
          /\ worker[w].life = "free" => at[w] = "idle"
          /\ worker[w].life # "free" => worker[w].task \in Task
          /\ at[w] # "idle" => w \notin active /\ worker[w].life \in {"exited 0", "exited 1"}
      BY DEF DispatchInv, Handles
    <3>2. ASSUME at[w] = "idle", worker[w].life # "free", w \notin active
          PROVE  \E q \in Routine : at'[q] = "register" /\ fresh[q] = w
      <4>1. PICK q \in Routine : at[q] = "register" /\ fresh[q] = w
        BY <3>2 DEF DispatchInv, Handles
      <4>. QED
        BY <1>1, <4>1
    <3>. QED
      BY <3>1, <3>2
  <2>2. ASSUME p \in Worker
        PROVE  /\ at'[p] \notin {"first", "idle"}
               /\ worker[p].life # "free" /\ worker[p].task \in Task
               /\ p \notin active /\ worker[p].life \in {"exited 0", "exited 1"}
    BY <1>1, <2>2 DEF DispatchInv, Handles
  <2>3. \A w \in Worker \ {p} : at'[w] = at[w]
    BY <1>1, Types
  <2>4. ASSUME NEW w \in Worker, w = p
        PROVE  /\ at'[w] \notin {"first", "idle"}
               /\ worker[w].life # "free" /\ worker[w].task \in Task
               /\ w \notin active /\ worker[w].life \in {"exited 0", "exited 1"}
    BY <2>2, <2>4
  <2>5. ASSUME NEW w \in Worker, w # p
        PROVE  at'[w] = at[w]
    BY <2>3, <2>5
  <2>6. ASSUME NEW w \in Worker
        PROVE  /\ at'[w] # "first"
               /\ worker'[w].life = "free" => at'[w] = "idle"
               /\ worker'[w].life # "free" => worker'[w].task \in Task
               /\ at'[w] # "idle" => w \notin active' /\ worker'[w].life \in {"exited 0", "exited 1"}
               /\ at'[w] = "idle" /\ worker'[w].life # "free" =>
                     w \in active' \/ \E q \in Routine : at'[q] = "register" /\ fresh'[q] = w
    <3>0. worker' = worker /\ active' = active /\ fresh' = fresh
      OBVIOUS
    <3>1. CASE w = p
      BY <2>4, <3>0, <3>1
    <3>2. CASE w # p
      <4>1. at'[w] = at[w]
        BY <2>5, <3>2
      <4>2. /\ at[w] # "first"
            /\ worker[w].life = "free" => at[w] = "idle"
            /\ worker[w].life # "free" => worker[w].task \in Task
            /\ at[w] # "idle" => w \notin active /\ worker[w].life \in {"exited 0", "exited 1"}
        BY <2>1, <3>2
      <4>3. at[w] = "idle" /\ worker[w].life # "free" =>
               w \in active \/ \E q \in Routine : at'[q] = "register" /\ fresh'[q] = w
        <5>. SUFFICES ASSUME at[w] = "idle", worker[w].life # "free", w \notin active
                      PROVE  \E q \in Routine : at'[q] = "register" /\ fresh'[q] = w
          OBVIOUS
        <5>1. PICK q \in Routine : at'[q] = "register" /\ fresh[q] = w
          BY <2>1, <3>2
        <5>. QED
          BY <3>0, <5>1
      <4>. QED
        BY <3>0, <4>1, <4>2, <4>3
    <3>. QED
      BY <3>1, <3>2
  <2>. QED
    BY <2>6 DEF Handles
<1>4. Fresh'
  <2>. SUFFICES ASSUME NEW q \in Routine, at'[q] = "register"
                PROVE  /\ fresh[q] \in Worker \ active
                       /\ worker[fresh[q]].life # "free" /\ at'[fresh[q]] = "idle"
                       /\ \A r \in Routine : at'[r] = "register" /\ fresh[q] = fresh[r] => q = r
    BY DEF Fresh
  <2>1. at[q] = "register"
    BY <1>1
  <2>2. /\ fresh[q] \in Worker \ active /\ worker[fresh[q]].life # "free" /\ at[fresh[q]] = "idle"
        /\ \A r \in Routine : at[r] = "register" /\ fresh[q] = fresh[r] => q = r
    BY <2>1 DEF DispatchInv, Fresh
  <2>3. fresh[q] # p /\ fresh[q] \in Routine
    BY <2>2, Types
  <2>. QED
    BY <1>1, <2>2, <2>3
<1>5. Jobs'
  BY <1>1 DEF DispatchInv, Jobs
<1>6. \A u \in Task : \A q \in Routine \ {p} : Owns(q, u)' <=> Owns(q, u)
  BY <1>1 DEF Owns
<1>. QED
  BY <1>2, <1>3, <1>4, <1>5, <1>6

LEMMA AtMostOneMore ==
    ASSUME NEW l \in Nat, NEW m \in Nat, NEW n \in Nat, m <= n
    PROVE  l <= m + 1 => l <= n + 1
OBVIOUS

LEMMA RoundsGoOn ==
    ASSUME DispatchInv, phase = "dispatching", phase' = phase, noProgress' = noProgress,
           NEW p \in Routine, NEW label \in {"ask", "claim", "start", "give back", "register"},
           Goto(p, label), p \in Worker => at[p] # "idle", active' = active,
           failures' \in Nat, failures <= failures',
           p = Loop => /\ label = "claim" => queue'[job'[Loop]].status = "pending"
                       /\ label \in {"claim", "start"} \/ Available(queue') # {}
                             => noProgress <= failures + 1
                       /\ label = "give back" => noProgress <= failures'
    PROVE  Rounds'
<1>1. /\ at'[p] = label /\ \A q \in Routine \ {p} : at'[q] = at[q]
      /\ noProgress \in Nat /\ failures \in Nat /\ Loop \notin Worker /\ Worker \subseteq Routine
  <2>1. at'[p] = label /\ \A q \in Routine \ {p} : at'[q] = at[q]
    BY GotoEffect DEF Label
  <2>. QED
    BY <2>1, Types
<1>2. CASE p = Loop
  <2>1. InFlight' = InFlight
    BY <1>1, <1>2 DEF InFlight
  <2>2. noProgress > 0 => active = {} /\ InFlight = {}
    BY DEF DispatchInv, Rounds
  <2>3. noProgress < MaxNoProgress
    BY DEF DispatchInv, Rounds
  <2>4. noProgress' > 0 => /\ active' = {} /\ InFlight' = {} /\ phase' # "initial"
                           /\ at'[Loop] = "claim" => queue'[job'[Loop]].status = "pending"
    BY <1>1, <1>2, <2>1, <2>2
  <2>5. at'[Loop] = label /\ label # "idle" /\ phase' # "done"
    BY <1>1, <1>2
  <2>6. Available(queue') # {} \/ label \in {"claim", "start"} => noProgress' <= failures' + 1
    <3>1. Available(queue') # {} \/ label \in {"claim", "start"} => noProgress <= failures + 1
      BY <1>2
    <3>. QED
      BY <1>1, <3>1, AtMostOneMore
  <2>7. (label = "give back" => noProgress' <= failures') /\ noProgress' < MaxNoProgress
    BY <1>2, <2>3
  <2>. QED
    BY <2>4, <2>5, <2>6, <2>7 DEF Rounds
<1>3. CASE p # Loop
  <2>1. p \in Worker
    BY <1>3 DEF Routine
  <2>2. noProgress = 0
    BY <2>1, HandlerInFlight
  <2>. QED
    BY <2>2, RoundsWait
<1>. QED
  BY <1>2, <1>3

(* What has been handed out keeps its complete dependencies.                *)
LEMMA HandedOutKeeps ==
    ASSUME DispatchInv, Completed(queue) \subseteq Completed(queue'),
           \A u \in Task : queue'[u].deps = queue[u].deps /\ queue'[u].status \in Dispatched,
           \A w \in Worker : worker'[w].life # "free" =>
              PlanDeps[worker'[w].task] \subseteq Completed(queue),
           \A p \in Routine : at'[p] \in {"first", "claim", "start", "give back"} =>
              PlanDeps[job'[p]] \subseteq Completed(queue)
    PROVE  HandedOut'
BY DEF DispatchInv, HandedOut

LEMMA QueueStays ==
    ASSUME DispatchInv, queue' = queue
    PROVE  /\ Completed(queue) \subseteq Completed(queue')
           /\ \A u \in Task : /\ queue'[u].deps = queue[u].deps /\ queue'[u].status \in Dispatched
                              /\ queue'[u].restarts = queue[u].restarts
                              /\ queue'[u].status = "failed" => queue[u].status = "failed"
           /\ \A t \in Task : queue'[t].status = "claimed" <=> queue[t].status = "claimed"
BY DEF DispatchInv, HandedOut

(* One task changes: it is claimed, released or completed.                  *)
LEMMA QueueMoves ==
    ASSUME DispatchInv, NEW t \in Task, queue[t].status \in {"pending", "claimed"},
           \A u \in Task \ {t} : queue'[u] = queue[u],
           queue'[t].status \in Dispatched, queue'[t].deps = queue[t].deps
    PROVE  /\ Completed(queue) \subseteq Completed(queue')
           /\ \A u \in Task : queue'[u].deps = queue[u].deps /\ queue'[u].status \in Dispatched
           /\ \A u \in Task \ {t} : queue'[u].status = "claimed" <=> queue[u].status = "claimed"
<1>1. \A u \in Task : queue[u].status \in Dispatched
  BY DEF DispatchInv, HandedOut
<1>. QED
  BY <1>1, CompletedStays

-----------------------------------------------------------------------------
(* maybeSpawnNextWorker returns without having claimed anything.            *)
LEMMA ReturnEmpty ==
    ASSUME DispatchInv, NEW p \in Routine, at[p] \in {"idle", "spawn", "ask", "claim"},
           p \in Worker => at[p] # "idle", phase = "dispatching",
           Return(p, FALSE), worker' = Free(p),
           UNCHANGED <<queue, active, restarts, fresh, finished, failures>>,
           job' \in [Routine -> Task \cup {NoTask}], \A q \in Routine \ {p} : job'[q] = job[q],
           p = Loop /\ active = {} /\ InFlight = {} /\ Available(queue) # {}
              => noProgress <= failures
    PROVE  DispatchInv'
<1>0. Goto(p, "idle") /\ at[p] # "register"
  BY DEF Return
<1>1. /\ at' \in [Routine -> Label] /\ at'[p] = "idle"
      /\ \A q \in Routine \ {p} : at'[q] = at[q]
      /\ worker' \in [Worker -> Process]
      /\ \A w \in Worker \ {p} : worker'[w] = worker[w]
      /\ p \in Worker => worker'[p] = NoProcess
  BY <1>0, EndEffect
<1>2. /\ active' \in SUBSET (Worker \ FreeWorkers)'
      /\ Handles' /\ Fresh' /\ Jobs'
      /\ \A u \in Task : ~Owns(p, u)' /\ \A q \in Routine \ {p} : Owns(q, u)' <=> Owns(q, u)
  BY <1>0, EndKeeps
<1>3. /\ phase' \in {"initial", "dispatching", "done"} /\ noProgress' \in 0..MaxNoProgress
      /\ Phases' /\ Rounds'
  <2>1. Available(queue') = Available(queue)
    OBVIOUS
  <2>. QED
    BY <2>1, ReturnKeeps
<1>4. TypeOK'
  <2>1. UNCHANGED <<queue, restarts, fresh, finished, failures>> /\ TypeOK
    BY DEF DispatchInv
  <2>. QED
    BY <1>1, <1>2, <1>3, <2>1 DEF TypeOK, Process
<1>5. Ownership'
  <2>1. \A u \in Task : ~Owns(p, u)
    BY DEF Owns, Routine
  <2>2. \A q \in Routine, u \in Task : Owns(q, u)' <=> Owns(q, u)
    BY <1>2, <2>1
  <2>. QED
    BY <2>2, QueueStays, OwnersKeep DEF DispatchInv
<1>6. Attempts'
  <2>1. \A w \in Worker : at'[w] = "abandon" => at[w] = "abandon" /\ worker'[w].task = worker[w].task
    BY <1>1, Types
  <2>. QED
    BY <2>1, QueueStays, AttemptsKeep
<1>7. HandedOut'
  <2>1. \A w \in Worker : worker'[w].life # "free" =>
           PlanDeps[worker'[w].task] \subseteq Completed(queue)
    <3>1. ASSUME NEW w \in Worker \ {p}
          PROVE  worker'[w].life # "free" => PlanDeps[worker'[w].task] \subseteq Completed(queue)
      BY <1>1 DEF DispatchInv, HandedOut
    <3>2. p \in Worker => worker'[p].life = "free"
      BY <1>1, NoProcessType
    <3>. QED
      BY <3>1, <3>2
  <2>2. \A q \in Routine : at'[q] \in {"first", "claim", "start", "give back"} =>
           PlanDeps[job'[q]] \subseteq Completed(queue)
    BY <1>1 DEF DispatchInv, HandedOut
  <2>. QED
    BY <2>1, <2>2, QueueStays, HandedOutKeeps
<1>. QED
  BY <1>2, <1>3, <1>4, <1>5, <1>6, <1>7 DEF DispatchInv

(* A coroutine goes on, and owns what it owned before.                      *)
LEMMA GoOn ==
    ASSUME DispatchInv, NEW p \in Routine, NEW label \in Label \ {"idle", "first", "register"},
           Goto(p, label), p \in Worker => at[p] # "idle", at[p] # "register",
           label # "abandon",
           UNCHANGED <<queue, worker, active, restarts, fresh, finished>>,
           failures' \in 0..SpawnFailures, noProgress' = noProgress, phase' = phase,
           job' \in [Routine -> Task \cup {NoTask}], \A q \in Routine \ {p} : job'[q] = job[q],
           label \in {"claim", "start", "give back"} =>
              job'[p] \in Task /\ PlanDeps[job'[p]] \subseteq Completed(queue),
           \A u \in Task : Owns(p, u)' <=> Owns(p, u),
           Phases', Rounds'
    PROVE  DispatchInv'
<1>1. at' \in [Routine -> Label] /\ at'[p] = label /\ \A q \in Routine \ {p} : at'[q] = at[q]
  BY GotoEffect
<1>2. /\ active' \in SUBSET (Worker \ FreeWorkers)'
      /\ Handles' /\ Fresh' /\ Jobs'
      /\ \A u \in Task : \A q \in Routine \ {p} : Owns(q, u)' <=> Owns(q, u)
  BY MoveKeeps
<1>3. TypeOK'
  BY <1>1, <1>2 DEF DispatchInv, TypeOK
<1>4. Ownership'
  <2>1. \A q \in Routine, u \in Task : Owns(q, u)' <=> Owns(q, u)
    BY <1>2
  <2>. QED
    BY <2>1, QueueStays, OwnersKeep DEF DispatchInv
<1>5. Attempts'
  <2>1. \A w \in Worker : at'[w] = "abandon" => at[w] = "abandon" /\ worker'[w].task = worker[w].task
    BY <1>1, Types
  <2>. QED
    BY <2>1, QueueStays, AttemptsKeep
<1>6. HandedOut'
  <2>1. \A w \in Worker : worker'[w].life # "free" =>
           PlanDeps[worker'[w].task] \subseteq Completed(queue)
    BY DEF DispatchInv, HandedOut
  <2>2. \A q \in Routine : at'[q] \in {"first", "claim", "start", "give back"} =>
           PlanDeps[job'[q]] \subseteq Completed(queue)
    BY <1>1 DEF DispatchInv, HandedOut
  <2>. QED
    BY <2>1, <2>2, QueueStays, HandedOutKeeps
<1>. QED
  BY <1>2, <1>3, <1>4, <1>5, <1>6 DEF DispatchInv

LEMMA EndOfBatchKeeps ==
    ASSUME DispatchInv, EndOfBatch
    PROVE  DispatchInv'
<1>1. /\ phase = "initial" /\ at[Loop] = "idle"
      /\ Full \/ Available(queue) = {}
      /\ phase' = IF active = {} THEN "done" ELSE "dispatching"
      /\ UNCHANGED <<queue, worker, active, restarts, at, job, fresh, noProgress, finished, failures>>
  BY DEF EndOfBatch
<1>2. noProgress = 0 /\ InFlight = {} /\ 0 < MaxNoProgress
  <2>1. ~(noProgress > 0)
    BY <1>1 DEF DispatchInv, Rounds
  <2>2. InFlight = {}
    BY <1>1 DEF DispatchInv, Phases
  <2>. QED
    BY <2>1, <2>2, Types, Limits
<1>3. TypeOK' /\ Jobs' /\ Fresh'
  BY <1>1 DEF DispatchInv, TypeOK, FreeWorkers, Jobs, Fresh
<1>4. Handles' /\ Attempts' /\ HandedOut'
  <2>1. Handles'
    <3>1. Handles /\ worker' = worker /\ at' = at /\ active' = active /\ fresh' = fresh
      BY <1>1 DEF DispatchInv
    <3>2. ASSUME NEW w \in Worker
          PROVE  (\E q \in Routine : at'[q] = "register" /\ fresh'[q] = w)
                 <=> \E q \in Routine : at[q] = "register" /\ fresh[q] = w
      BY <3>1
    <3>. QED
      BY <3>1, <3>2 DEF Handles
  <2>2. Attempts' /\ HandedOut'
    BY <1>1 DEF DispatchInv, Attempts, HandedOut
  <2>. QED
    BY <2>1, <2>2
<1>5. Ownership'
  BY <1>1, OwnersKeep DEF DispatchInv, Owns
<1>6. Phases'
  <2>1. InFlight' = {} /\ at'[Loop] = "idle"
    BY <1>1, <1>2 DEF InFlight
  <2>. QED
    BY <2>1 DEF Phases
<1>7. Rounds'
  <2>1. CASE active = {}
    <3>1. Available(queue) = {}
      BY <1>1, <2>1, NotFull
    <3>2. /\ phase' = "done" /\ at'[Loop] = "idle" /\ active' = {} /\ Available(queue') = {}
          /\ ~(noProgress' > 0)
      BY <1>1, <1>2, <2>1, <3>1
    <3>. QED
      BY <3>2 DEF Rounds
  <2>2. CASE active # {}
    BY <1>1, <1>2, <2>2, Types, RoundsWait
  <2>. QED
    BY <2>1, <2>2
<1>. QED
  BY <1>3, <1>4, <1>5, <1>6, <1>7 DEF DispatchInv

LEMMA BeginSpawnKeeps ==
    ASSUME DispatchInv, NEW p \in Routine, BeginSpawn(p)
    PROVE  DispatchInv'
<1>1. /\ phase = "dispatching" /\ at[p] = IF p = Loop THEN "idle" ELSE "spawn"
      /\ UNCHANGED <<queue, active, restarts, job, fresh, finished, failures>>
  BY DEF BeginSpawn
<1>2. /\ p \in Worker => at[p] # "idle"
      /\ at[p] \in {"idle", "spawn"}
      /\ job' \in [Routine -> Task \cup {NoTask}] /\ \A q \in Routine \ {p} : job'[q] = job[q]
  BY <1>1, Types
<1>3. CASE Full
  <2>1. Return(p, FALSE) /\ worker' = Free(p)
    BY <1>3 DEF BeginSpawn
  <2>2. active # {}
    BY <1>3, NotFull
  <2>. QED
    BY <1>1, <1>2, <2>1, <2>2, ReturnEmpty
<1>4. CASE ~Full
  <2>1. Goto(p, "ask") /\ UNCHANGED <<noProgress, phase, worker>>
    BY <1>4 DEF BeginSpawn
  <2>2. Phases'
    BY <1>1, <2>1, PhaseMoves
  <2>3. Rounds'
    <3>1. Available(queue) # {} => noProgress <= failures + 1
      BY DEF DispatchInv, Rounds
    <3>2. Available(queue') = Available(queue)
      BY <1>1
    <3>3. failures' \in Nat /\ failures <= failures'
      BY <1>1, Types
    <3>. QED
      BY <1>1, <1>2, <2>1, <3>1, <3>2, <3>3, RoundsGoOn
  <2>4. \A u \in Task : Owns(p, u)' <=> Owns(p, u)
    <3>1. at'[p] = "ask"
      BY <2>1, GotoEffect DEF Label
    <3>. QED
      BY <1>1, <3>1, Types DEF Owns
  <2>5. failures' \in 0..SpawnFailures
    BY <1>1, Types
  <2>6. "ask" \in Label \ {"idle", "first", "register"} /\ at[p] # "register"
    BY <1>2 DEF Label
  <2>. QED
    BY <1>1, <1>2, <2>1, <2>2, <2>3, <2>4, <2>5, <2>6, GoOn
<1>. QED
  BY <1>3, <1>4

LEMMA AskKeeps ==
    ASSUME DispatchInv, NEW p \in Routine, Ask(p)
    PROVE  DispatchInv'
<1>1. /\ at[p] = "ask"
      /\ UNCHANGED <<queue, active, restarts, fresh, finished, failures>>
  BY DEF Ask
<1>2. phase = "dispatching"
  BY <1>1, Dispatching DEF Label
<1>3. CASE Available(queue) = {} /\ Return(p, FALSE) /\ worker' = Free(p) /\ UNCHANGED job
  <2>1. job' \in [Routine -> Task \cup {NoTask}] /\ \A q \in Routine \ {p} : job'[q] = job[q]
    BY <1>3, Types
  <2>. QED
    BY <1>1, <1>2, <1>3, <2>1, ReturnEmpty
<1>4. ASSUME NEW t \in NextTasks(queue), job' = [job EXCEPT ![p] = t], Goto(p, "claim"),
             UNCHANGED <<noProgress, phase, worker>>
      PROVE  DispatchInv'
  <2>1. /\ job' \in [Routine -> Task \cup {NoTask}] /\ job'[p] = t
        /\ \A q \in Routine \ {p} : job'[q] = job[q]
    BY <1>4, Types, NextTaskIs
  <2>2. t \in Task /\ PlanDeps[t] \subseteq Completed(queue) /\ queue[t].status = "pending"
        /\ Available(queue) # {}
    BY <1>4, NextTaskIs
  <2>3. at'[p] = "claim" /\ failures' \in 0..SpawnFailures
    BY <1>1, <1>4, GotoEffect, Types DEF Label
  <2>4. Phases'
    BY <1>2, <1>4, PhaseMoves
  <2>5. Rounds'
    <3>1. noProgress <= failures + 1
      BY <2>2 DEF DispatchInv, Rounds
    <3>2. failures' \in Nat /\ failures <= failures'
      BY <1>1, Types
    <3>3. p = Loop => queue'[job'[Loop]].status = "pending"
      BY <1>1, <2>1, <2>2
    <3>. QED
      BY <1>1, <1>2, <1>4, <3>1, <3>2, <3>3, RoundsGoOn
  <2>6. \A u \in Task : Owns(p, u)' <=> Owns(p, u)
    BY <1>1, <2>3, Types DEF Owns
  <2>7. "claim" \in Label \ {"idle", "first", "register"}
    BY DEF Label
  <2>. QED
    BY <1>1, <1>4, <2>1, <2>2, <2>3, <2>4, <2>5, <2>6, <2>7, GoOn
<1>. QED
  BY <1>3, <1>4 DEF Ask

(* A coroutine that holds a task changes its entry, and moves on.           *)
LEMMA ClaimedNow ==
    ASSUME DispatchInv, NEW p \in Routine, NEW t \in Task, queue[t].status = "pending",
           queue' = ClaimTask(queue, t, Coordinator),
           NEW label \in {"start", "restart"}, Goto(p, label), p \in Worker => at[p] # "idle",
           at[p] \in {"claim", "reclaim"},
           label = "start" => job[p] = t /\ PlanDeps[t] \subseteq Completed(queue),
           label = "restart" => p \in Worker /\ worker[p].task = t /\ worker[p].life # "free",
           UNCHANGED <<phase, worker, active, restarts, job, fresh, noProgress, finished, failures>>,
           Phases', Rounds'
    PROVE  DispatchInv'
<1>1. /\ at' \in [Routine -> Label] /\ at'[p] = label /\ \A q \in Routine \ {p} : at'[q] = at[q]
      /\ label \in Label \ {"idle", "first", "register"}
  BY GotoEffect DEF Label
<1>2. /\ queue' \in [Task -> Entry] /\ \A u \in Task \ {t} : queue'[u] = queue[u]
      /\ queue'[t].status = "claimed" /\ queue'[t].deps = queue[t].deps
      /\ queue'[t].restarts = queue[t].restarts
  BY ClaimHere
<1>3. /\ active' \in SUBSET (Worker \ FreeWorkers)'
      /\ Handles' /\ Fresh' /\ Jobs'
      /\ \A u \in Task : \A q \in Routine \ {p} : Owns(q, u)' <=> Owns(q, u)
  <2>1. at[p] # "register" /\ (label \in {"claim", "start", "give back"} => job'[p] \in Task)
    OBVIOUS
  <2>2. worker' = worker /\ active' = active /\ fresh' = fresh
        /\ \A q \in Routine \ {p} : job'[q] = job[q]
    OBVIOUS
  <2>. QED
    BY <1>1, <2>1, <2>2, MoveKeeps
<1>4. TypeOK'
  BY <1>1, <1>2, <1>3 DEF DispatchInv, TypeOK
<1>5. Ownership'
  <2>1. \A u \in Task : ~Owns(p, u) /\ (Owns(p, u)' <=> u = t)
    <3>1. CASE label = "start"
      BY <1>1, <3>1 DEF Owns
    <3>2. CASE label = "restart"
      BY <1>1, <3>2 DEF Owns
    <3>. QED
      BY <3>1, <3>2
  <2>2. \A q \in Routine, u \in Task : Owns(q, u)' <=> Owns(q, u) \/ (q = p /\ u = t)
    BY <1>3, <2>1
  <2>. QED
    BY <1>2, <2>2, OwnerTakes DEF DispatchInv
<1>6. \A u \in Task : /\ queue'[u].restarts = queue[u].restarts
                      /\ queue'[u].status = "failed" => queue[u].status = "failed"
  BY <1>2
<1>7. Attempts'
  <2>1. \A w \in Worker : at'[w] = "abandon" => at[w] = "abandon" /\ worker'[w].task = worker[w].task
    BY <1>1, Types
  <2>. QED
    BY <1>6, <2>1, AttemptsKeep
<1>8. HandedOut'
  <2>1. \A w \in Worker : worker'[w].life # "free" =>
           PlanDeps[worker'[w].task] \subseteq Completed(queue)
    BY DEF DispatchInv, HandedOut
  <2>2. \A q \in Routine : at'[q] \in {"first", "claim", "start", "give back"} =>
           PlanDeps[job'[q]] \subseteq Completed(queue)
    BY <1>1 DEF DispatchInv, HandedOut
  <2>. QED
    BY <1>2, <2>1, <2>2, QueueMoves, HandedOutKeeps DEF Dispatched
<1>. QED
  BY <1>3, <1>4, <1>5, <1>7, <1>8 DEF DispatchInv

LEMMA ClaimNextKeeps ==
    ASSUME DispatchInv, NEW p \in Routine, ClaimNext(p)
    PROVE  DispatchInv'
<1>1. at[p] = "claim" /\ UNCHANGED <<active, restarts, fresh, finished, failures>>
  BY DEF ClaimNext
<1>2. phase = "dispatching"
  BY <1>1, Dispatching DEF Label
<1>3. job[p] \in Task /\ PlanDeps[job[p]] \subseteq Completed(queue)
  <2>1. job[p] \in Task
    BY <1>1 DEF DispatchInv, Jobs
  <2>2. PlanDeps[job[p]] \subseteq Completed(queue)
    BY <1>1 DEF DispatchInv, HandedOut
  <2>. QED
    BY <2>1, <2>2
<1>4. CASE ~Full /\ queue[job[p]].status = "pending"
  <2>1. /\ queue' = ClaimTask(queue, job[p], Coordinator) /\ Goto(p, "start")
        /\ UNCHANGED <<noProgress, phase, worker, job>>
    BY <1>4 DEF ClaimNext
  <2>2. Phases'
    BY <1>2, <2>1, PhaseMoves
  <2>3. Rounds'
    <3>1. p = Loop => noProgress <= failures + 1
      BY <1>1 DEF DispatchInv, Rounds
    <3>2. failures' \in Nat /\ failures <= failures'
      BY <1>1, Types
    <3>. QED
      BY <1>1, <1>2, <2>1, <3>1, <3>2, RoundsGoOn
  <2>. QED
    BY <1>1, <1>3, <1>4, <2>1, <2>2, <2>3, ClaimedNow
<1>5. CASE ~(~Full /\ queue[job[p]].status = "pending")
  <2>1. /\ Return(p, FALSE) /\ worker' = Free(p) /\ job' = [job EXCEPT ![p] = NoTask]
        /\ UNCHANGED queue
    BY <1>5 DEF ClaimNext
  <2>2. job' \in [Routine -> Task \cup {NoTask}] /\ \A q \in Routine \ {p} : job'[q] = job[q]
    BY <2>1, Types
  <2>3. p = Loop /\ active = {} => noProgress <= failures
    <3>1. ASSUME p = Loop, active = {}
          PROVE  ~(noProgress > 0)
      <4>1. queue[job[Loop]].status # "pending"
        BY <1>5, <3>1, NotFull
      <4>. QED
        BY <1>1, <3>1, <4>1 DEF DispatchInv, Rounds
    <3>. QED
      BY <3>1, Types
  <2>. QED
    BY <1>1, <1>2, <2>1, <2>2, <2>3, ReturnEmpty
<1>. QED
  BY <1>4, <1>5

-----------------------------------------------------------------------------
(* A new process gets an id nobody knows.                                   *)
LEMMA NewWorkerIs ==
    ASSUME DispatchInv, FreeWorkers # {}
    PROVE  /\ NewWorker \in Worker /\ worker[NewWorker].life = "free" /\ at[NewWorker] = "idle"
           /\ NewWorker \notin active /\ NewWorker # Loop /\ NewWorker \in Routine
           /\ \A q \in Routine : at[q] = "register" => fresh[q] # NewWorker
           /\ \A t \in Task : ~Owns(NewWorker, t)
<1>1. NewWorker \in FreeWorkers
  BY DEF NewWorker
<1>2. NewWorker \in Worker /\ worker[NewWorker].life = "free"
  BY <1>1 DEF FreeWorkers
<1>3. at[NewWorker] = "idle"
  BY <1>2 DEF DispatchInv, Handles
<1>4. NewWorker \notin active /\ NewWorker # Loop /\ NewWorker \in Routine
  BY <1>2, Types
<1>5. \A q \in Routine : at[q] = "register" => fresh[q] # NewWorker
  BY <1>2 DEF DispatchInv, Fresh
<1>6. \A t \in Task : ~Owns(NewWorker, t)
  BY <1>2, <1>3 DEF Owns
<1>. QED
  BY <1>2, <1>3, <1>4, <1>5, <1>6

LEMMA StartEffect ==
    ASSUME DispatchInv, NEW n \in Worker, NEW t \in Task, NEW initial \in BOOLEAN,
           Start(n, t, initial)
    PROVE  /\ worker' \in [Worker -> Process] /\ \A w \in Worker \ {n} : worker'[w] = worker[w]
           /\ worker'[n].task = t /\ worker'[n].life = "running"
<1>1. worker \in [Worker -> Process]
  BY Types
<1>2. [task |-> t, life |-> "running", initial |-> initial] \in Process
  BY DEF Process
<1>3. worker' = [worker EXCEPT ![n] = [task |-> t, life |-> "running", initial |-> initial]]
  BY DEF Start
<1>4. worker'[n] = [task |-> t, life |-> "running", initial |-> initial]
  BY <1>1, <1>3
<1>. QED
  BY <1>1, <1>2, <1>3, <1>4

LEMMA InitialStartKeeps ==
    ASSUME DispatchInv, InitialStart
    PROVE  DispatchInv'
<1>1. PICK n \in Worker : n = NewWorker
  BY NewWorkerIs DEF InitialStart
<1>2. /\ at[Loop] = "first" /\ Start(n, job[Loop], TRUE) /\ active' = active \cup {n}
      /\ at' = [at EXCEPT ![Loop] = "idle"] /\ job' = [job EXCEPT ![Loop] = NoTask]
      /\ UNCHANGED <<queue, phase, restarts, fresh, noProgress, finished, failures>>
  BY <1>1 DEF InitialStart
<1>3. /\ worker[n].life = "free" /\ at[n] = "idle" /\ n \notin active /\ n # Loop /\ n \in Routine
      /\ \A q \in Routine : at[q] = "register" => fresh[q] # n
      /\ \A t \in Task : ~Owns(n, t)
  BY <1>1, NewWorkerIs DEF InitialStart
<1>4. job[Loop] \in Task /\ PlanDeps[job[Loop]] \subseteq Completed(queue) /\ Owns(Loop, job[Loop])
  <2>1. job[Loop] \in Task
    BY <1>2, Types DEF DispatchInv, Jobs
  <2>2. PlanDeps[job[Loop]] \subseteq Completed(queue)
    BY <1>2, Types DEF DispatchInv, HandedOut
  <2>. QED
    BY <1>2, <2>1, <2>2 DEF Owns
<1>5. /\ worker' \in [Worker -> Process] /\ \A w \in Worker \ {n} : worker'[w] = worker[w]
      /\ worker'[n].task = job[Loop] /\ worker'[n].life = "running"
  BY <1>2, <1>4, StartEffect
<1>6. /\ at' \in [Routine -> Label] /\ at'[Loop] = "idle"
      /\ \A q \in Routine \ {Loop} : at'[q] = at[q] /\ job'[q] = job[q]
      /\ job' \in [Routine -> Task \cup {NoTask}] /\ at'[n] = "idle"
      /\ \A w \in Worker : at'[w] = at[w] /\ job'[w] = job[w]
  BY <1>2, <1>3, Types DEF Label
<1>7. phase = "initial" /\ noProgress = 0 /\ InFlight = {} /\ InFlight' = {}
  <2>1. phase = "initial"
    BY <1>2 DEF DispatchInv, Phases
  <2>2. InFlight = {}
    BY <2>1 DEF DispatchInv, Phases
  <2>3. ~(noProgress > 0)
    BY <2>1 DEF DispatchInv, Rounds
  <2>. QED
    BY <1>6, <2>1, <2>2, <2>3, Types DEF InFlight
<1>8. TypeOK'
  <2>1. active' \in SUBSET (Worker \ FreeWorkers)'
    <3>1. \A w \in active' : w \in Worker /\ worker'[w].life # "free"
      BY <1>2, <1>5, Types
    <3>. QED
      BY <3>1 DEF FreeWorkers
  <2>. QED
    BY <1>2, <1>5, <1>6, <2>1 DEF DispatchInv, TypeOK, Process
<1>9. Ownership'
  <2>1. ASSUME NEW q \in Routine, q # Loop, q # n, NEW u \in Task
        PROVE  Owns(q, u)' <=> Owns(q, u)
    BY <1>5, <1>6, <2>1 DEF Owns, Routine
  <2>2. ASSUME NEW u \in Task
        PROVE  ~Owns(Loop, u)' /\ (Owns(Loop, u) <=> u = job[Loop]) /\ (Owns(n, u)' <=> u = job[Loop])
    BY <1>2, <1>3, <1>5, <1>6, Types DEF Owns
  <2>3. \A q \in Routine, u \in Task :
           Owns(q, u)' <=> (Owns(q, u) /\ ~(q = Loop /\ u = job[Loop])) \/ (q = n /\ u = job[Loop])
    BY <1>3, <2>1, <2>2
  <2>. QED
    BY <1>2, <1>3, <1>4, <2>3, QueueStays, OwnerPasses, Types DEF DispatchInv
<1>10. Handles'
  <2>1. \A w \in Worker : at'[w] = "idle"
    BY <1>6, <1>7 DEF InFlight
  <2>2. ASSUME NEW w \in Worker
        PROVE  (worker'[w].life # "free" => worker'[w].task \in Task)
               /\ (worker'[w].life # "free" => w \in active')
    <3>1. CASE w = n
      BY <1>2, <1>4, <1>5, <3>1
    <3>2. CASE w # n
      <4>1. worker[w].life # "free" => worker[w].task \in Task
        BY DEF DispatchInv, Handles
      <4>2. \A q \in Routine : at[q] # "register"
        BY <1>2, <1>6, <2>1 DEF Routine
      <4>3. worker[w].life # "free" => w \in active
        <5>1. at[w] = "idle"
          BY <1>6, <2>1
        <5>2. worker[w].life # "free" =>
                 w \in active \/ \E q \in Routine : at[q] = "register" /\ fresh[q] = w
          BY <5>1 DEF DispatchInv, Handles
        <5>. QED
          BY <4>2, <5>2
      <4>. QED
        BY <1>2, <1>5, <3>2, <4>1, <4>3
    <3>. QED
      BY <3>1, <3>2
  <2>. QED
    BY <2>1, <2>2 DEF Handles
<1>11. Fresh' /\ Jobs' /\ Phases'
  <2>1. \A q \in Routine : at'[q] = "idle"
    BY <1>6, <1>7 DEF InFlight, Routine
  <2>. QED
    BY <1>2, <1>7, <2>1, Types DEF Fresh, Jobs, Phases
<1>12. Attempts' /\ HandedOut'
  <2>1. \A q \in Routine : at'[q] = "idle"
    BY <1>6, <1>7 DEF InFlight, Routine
  <2>2. Attempts'
    BY <1>2, <2>1, Types, QueueStays, AttemptsKeep
  <2>3. \A w \in Worker : worker'[w].life # "free" =>
           PlanDeps[worker'[w].task] \subseteq Completed(queue)
    BY <1>4, <1>5 DEF DispatchInv, HandedOut
  <2>. QED
    BY <1>2, <2>1, <2>2, <2>3, QueueStays, HandedOutKeeps
<1>13. Rounds'
  <2>1. phase' = "initial" /\ noProgress' = noProgress /\ failures' \in Nat
    BY <1>2, <1>7, Types
  <2>. QED
    BY <1>7, <2>1, RoundsWait
<1>. QED
  BY <1>8, <1>9, <1>10, <1>11, <1>12, <1>13 DEF DispatchInv

(* The process starts; until it is registered only p knows of it.           *)
LEMMA StartNextStarts ==
    ASSUME DispatchInv, NEW p \in Routine, at[p] = "start", FreeWorkers # {},
           Start(NewWorker, job[p], FALSE), fresh' = [fresh EXCEPT ![p] = NewWorker],
           Goto(p, "register"), failures' = failures,
           UNCHANGED <<queue, phase, active, restarts, job, noProgress, finished>>
    PROVE  DispatchInv'
<1>1. PICK n \in Worker : n = NewWorker
  BY NewWorkerIs
<1>2. /\ worker[n].life = "free" /\ at[n] = "idle" /\ n \notin active /\ n # Loop /\ n \in Routine
      /\ \A q \in Routine : at[q] = "register" => fresh[q] # n
      /\ \A t \in Task : ~Owns(n, t)
      /\ n # p
  BY <1>1, NewWorkerIs
<1>3. job[p] \in Task /\ PlanDeps[job[p]] \subseteq Completed(queue) /\ Owns(p, job[p])
  <2>1. job[p] \in Task
    BY DEF DispatchInv, Jobs
  <2>2. PlanDeps[job[p]] \subseteq Completed(queue)
    BY DEF DispatchInv, HandedOut
  <2>. QED
    BY <2>1, <2>2 DEF Owns
<1>4. /\ worker' \in [Worker -> Process] /\ \A w \in Worker \ {n} : worker'[w] = worker[w]
      /\ worker'[n].task = job[p] /\ worker'[n].life = "running"
  BY <1>1, <1>3, StartEffect
<1>5. /\ at' \in [Routine -> Label] /\ at'[p] = "register"
      /\ \A q \in Routine \ {p} : at'[q] = at[q]
      /\ at'[n] = "idle"
  BY <1>2, GotoEffect DEF Label
<1>6. /\ fresh' \in [Routine -> Worker \cup {NoWorker}] /\ fresh'[p] = n
      /\ \A q \in Routine \ {p} : fresh'[q] = fresh[q]
  BY <1>1, Types
<1>7. TypeOK'
  <2>1. active' \in SUBSET (Worker \ FreeWorkers)'
    <3>1. \A w \in active : w \in Worker /\ worker'[w].life # "free"
      BY <1>2, <1>4, Types
    <3>. QED
      BY <3>1 DEF FreeWorkers
  <2>. QED
    BY <1>4, <1>5, <1>6, <2>1 DEF DispatchInv, TypeOK, Process
<1>8. Ownership'
  <2>1. ASSUME NEW q \in Routine, q # p, q # n, NEW u \in Task
        PROVE  Owns(q, u)' <=> Owns(q, u)
    BY <1>4, <1>5, <2>1 DEF Owns
  <2>2. ASSUME NEW u \in Task
        PROVE  /\ ~Owns(p, u)' /\ (Owns(p, u) <=> u = job[p])
               /\ (Owns(n, u)' <=> u = job[p])
    BY <1>2, <1>4, <1>5 DEF Owns
  <2>3. \A q \in Routine, u \in Task :
           Owns(q, u)' <=> (Owns(q, u) /\ ~(q = p /\ u = job[p])) \/ (q = n /\ u = job[p])
    BY <1>2, <2>1, <2>2
  <2>4. Ownership /\ \A t \in Task : queue'[t].status = "claimed" <=> queue[t].status = "claimed"
    BY DEF DispatchInv
  <2>. QED
    BY <1>2, <1>3, <2>3, <2>4, OwnerPasses
<1>9. Handles'
  <2>0. active' = active
    OBVIOUS
  <2>1. ASSUME NEW w \in Worker
        PROVE  /\ at'[w] # "first"
               /\ worker'[w].life = "free" => at'[w] = "idle"
               /\ worker'[w].life # "free" => worker'[w].task \in Task
               /\ at'[w] # "idle" => w \notin active' /\ worker'[w].life \in {"exited 0", "exited 1"}
               /\ at'[w] = "idle" /\ worker'[w].life # "free" =>
                     w \in active' \/ \E q \in Routine : at'[q] = "register" /\ fresh'[q] = w
    <3>1. CASE w = n
      BY <1>3, <1>4, <1>5, <1>6, <3>1
    <3>2. CASE w # n
      <4>1. worker'[w] = worker[w] /\ w \in Routine
        BY <1>4, <3>2, Types
      <4>2. /\ at[w] # "first"
            /\ worker[w].life = "free" => at[w] = "idle"
            /\ worker[w].life # "free" => worker[w].task \in Task
            /\ at[w] # "idle" => w \notin active /\ worker[w].life \in {"exited 0", "exited 1"}
        BY DEF DispatchInv, Handles
      <4>3. at'[w] # "first" /\ (at'[w] = "idle" <=> at[w] = "idle")
        <5>1. CASE w = p
          BY <1>5, <5>1
        <5>2. CASE w # p
          BY <1>5, <4>1, <4>2, <5>2
        <5>. QED
          BY <5>1, <5>2
      <4>4. ASSUME at[w] = "idle", worker[w].life # "free", w \notin active
            PROVE  \E q \in Routine : at'[q] = "register" /\ fresh'[q] = w
        <5>1. PICK q \in Routine : at[q] = "register" /\ fresh[q] = w
          BY <4>4 DEF DispatchInv, Handles
        <5>. QED
          BY <1>5, <1>6, <5>1
      <4>. QED
        BY <2>0, <4>1, <4>2, <4>3, <4>4
    <3>. QED
      BY <3>1, <3>2
  <2>. QED
    BY <2>1 DEF Handles
<1>10. Fresh'
  <2>. SUFFICES ASSUME NEW q \in Routine, at'[q] = "register"
                PROVE  /\ fresh'[q] \in Worker \ active
                       /\ worker'[fresh'[q]].life # "free" /\ at'[fresh'[q]] = "idle"
                       /\ \A r \in Routine : at'[r] = "register" /\ fresh'[q] = fresh'[r] => q = r
    BY DEF Fresh
  <2>1. CASE q = p
    <3>1. \A r \in Routine : at'[r] = "register" /\ fresh'[r] = n => r = p
      BY <1>2, <1>5, <1>6
    <3>. QED
      BY <1>2, <1>4, <1>5, <1>6, <2>1, <3>1
  <2>2. CASE q # p
    <3>1. at[q] = "register" /\ fresh'[q] = fresh[q]
      BY <1>5, <1>6, <2>2
    <3>2. /\ fresh[q] \in Worker \ active /\ worker[fresh[q]].life # "free" /\ at[fresh[q]] = "idle"
          /\ \A r \in Routine : at[r] = "register" /\ fresh[q] = fresh[r] => q = r
      BY <3>1 DEF DispatchInv, Fresh
    <3>3. fresh[q] # n /\ fresh[q] # p /\ fresh[q] \in Routine
      BY <1>2, <3>1, <3>2, Types
    <3>4. \A r \in Routine : at'[r] = "register" /\ fresh[q] = fresh'[r] => q = r
      BY <1>5, <1>6, <3>2, <3>3
    <3>. QED
      BY <1>4, <1>5, <3>1, <3>2, <3>3, <3>4
  <2>. QED
    BY <2>1, <2>2
<1>11. Jobs' /\ Phases'
  <2>1. Jobs'
    BY <1>5 DEF DispatchInv, Jobs
  <2>. QED
    BY <2>1, Dispatching, PhaseMoves DEF Label
<1>12. Attempts' /\ HandedOut'
  <2>1. Attempts'
    <3>1. \A w \in Worker : at'[w] = "abandon" => at[w] = "abandon" /\ worker'[w].task = worker[w].task
      BY <1>2, <1>4, <1>5, Types
    <3>. QED
      BY <3>1, QueueStays, AttemptsKeep
  <2>2. \A w \in Worker : worker'[w].life # "free" =>
           PlanDeps[worker'[w].task] \subseteq Completed(queue)
    BY <1>3, <1>4 DEF DispatchInv, HandedOut
  <2>3. \A q \in Routine : at'[q] \in {"first", "claim", "start", "give back"} =>
           PlanDeps[job'[q]] \subseteq Completed(queue)
    BY <1>5 DEF DispatchInv, HandedOut
  <2>. QED
    BY <2>1, <2>2, <2>3, QueueStays, HandedOutKeeps
<1>13. Rounds'
  <2>1. p = Loop => noProgress <= failures + 1
    BY DEF DispatchInv, Rounds
  <2>2. phase = "dispatching"
    BY Dispatching DEF Label
  <2>3. failures' \in Nat /\ failures <= failures'
    <3>1. failures \in Nat
      BY Types
    <3>. QED
      BY <3>1
  <2>. QED
    BY <2>1, <2>2, <2>3, RoundsGoOn
<1>. QED
  BY <1>7, <1>8, <1>9, <1>10, <1>11, <1>12, <1>13 DEF DispatchInv

LEMMA StartNextKeeps ==
    ASSUME DispatchInv, NEW p \in Routine, StartNext(p)
    PROVE  DispatchInv'
<1>1. /\ at[p] = "start" /\ UNCHANGED <<queue, phase, active, restarts, job, noProgress, finished>>
      /\ phase = "dispatching"
  BY Dispatching DEF StartNext, Label
<1>2. CASE /\ ~Full /\ FreeWorkers # {} /\ Start(NewWorker, job[p], FALSE)
           /\ fresh' = [fresh EXCEPT ![p] = NewWorker] /\ Goto(p, "register") /\ UNCHANGED failures
  BY <1>1, <1>2, StartNextStarts
<1>3. CASE /\ Goto(p, "give back") /\ UNCHANGED <<worker, fresh>>
           /\ \/ Full /\ failures' = failures
              \/ failures < SpawnFailures /\ failures' = failures + 1
  <2>1. failures' \in 0..SpawnFailures /\ failures' \in Nat /\ failures <= failures'
    <3>1. failures \in 0..SpawnFailures /\ failures \in Nat /\ SpawnFailures \in Nat
      BY Types, Limits
    <3>2. CASE failures' = failures
      BY <3>1, <3>2
    <3>3. CASE failures < SpawnFailures /\ failures' = failures + 1
      BY <3>1, <3>3
    <3>. QED
      BY <1>3, <3>2, <3>3
  <2>2. p = Loop => noProgress <= failures + 1
    BY <1>1 DEF DispatchInv, Rounds
  <2>3. p = Loop => noProgress <= failures'
    <3>1. CASE Full
      <4>1. ~(noProgress > 0)
        BY <3>1, NotFull DEF DispatchInv, Rounds
      <4>2. noProgress = 0
        BY <4>1, Types
      <4>. QED
        BY <2>1, <4>2, NothingIsLess
    <3>2. CASE failures' = failures + 1
      BY <2>2, <3>2
    <3>. QED
      BY <1>3, <3>1, <3>2
  <2>4. Phases' /\ Rounds'
    BY <1>1, <1>3, <2>1, <2>2, <2>3, PhaseMoves, RoundsGoOn
  <2>5. \A u \in Task : Owns(p, u)' <=> Owns(p, u)
    <3>1. at'[p] = "give back"
      BY <1>3, GotoEffect DEF Label
    <3>. QED
      BY <1>1, <3>1 DEF Owns
  <2>6. /\ job'[p] \in Task /\ PlanDeps[job'[p]] \subseteq Completed(queue)
        /\ job' \in [Routine -> Task \cup {NoTask}] /\ \A q \in Routine \ {p} : job'[q] = job[q]
    <3>1. job[p] \in Task
      BY <1>1 DEF DispatchInv, Jobs
    <3>2. PlanDeps[job[p]] \subseteq Completed(queue)
      BY <1>1 DEF DispatchInv, HandedOut
    <3>. QED
      BY <1>1, <3>1, <3>2, Types
  <2>7. "give back" \in Label \ {"idle", "first", "register"}
    BY DEF Label
  <2>. QED
    BY <1>1, <1>3, <2>1, <2>4, <2>5, <2>6, <2>7, GoOn
<1>. QED
  BY <1>1, <1>2, <1>3 DEF StartNext

LEMMA GiveBackKeeps ==
    ASSUME DispatchInv, NEW p \in Routine, GiveBack(p)
    PROVE  DispatchInv'
<1>1. /\ at[p] = "give back" /\ queue' = ReleaseTask(queue, job[p])
      /\ job' = [job EXCEPT ![p] = NoTask] /\ Return(p, FALSE) /\ worker' = Free(p)
      /\ UNCHANGED <<active, restarts, fresh, finished, failures>>
      /\ Goto(p, "idle") /\ at[p] \notin {"idle", "register"}
  BY DEF GiveBack, Return
<1>2. /\ at' \in [Routine -> Label] /\ at'[p] = "idle"
      /\ \A q \in Routine \ {p} : at'[q] = at[q]
      /\ worker' \in [Worker -> Process]
      /\ \A w \in Worker \ {p} : worker'[w] = worker[w]
      /\ p \in Worker => worker'[p] = NoProcess
  BY <1>1, EndEffect
<1>3. /\ job' \in [Routine -> Task \cup {NoTask}] /\ \A q \in Routine \ {p} : job'[q] = job[q]
  BY <1>1, Types
<1>4. /\ active' \in SUBSET (Worker \ FreeWorkers)'
      /\ Handles' /\ Fresh' /\ Jobs'
      /\ \A u \in Task : ~Owns(p, u)' /\ \A q \in Routine \ {p} : Owns(q, u)' <=> Owns(q, u)
  BY <1>1, <1>3, EndKeeps
<1>5. job[p] \in Task /\ Owns(p, job[p]) /\ queue[job[p]].status = "claimed"
  <2>1. job[p] \in Task /\ Owns(p, job[p])
    BY <1>1 DEF DispatchInv, Jobs, Owns
  <2>. QED
    BY <2>1 DEF DispatchInv, Ownership
<1>6. /\ queue' \in [Task -> Entry] /\ \A u \in Task \ {job[p]} : queue'[u] = queue[u]
      /\ queue'[job[p]].status = "pending" /\ queue'[job[p]].deps = queue[job[p]].deps
      /\ queue'[job[p]].restarts = queue[job[p]].restarts
  BY <1>1, <1>5, ReleaseHere
<1>7. /\ phase' \in {"initial", "dispatching", "done"} /\ noProgress' \in 0..MaxNoProgress
      /\ Phases' /\ Rounds'
  <2>1. phase = "dispatching"
    BY <1>1, Dispatching DEF Label
  <2>2. p = Loop => noProgress <= failures
    BY <1>1 DEF DispatchInv, Rounds
  <2>. QED
    BY <1>1, <2>1, <2>2, ReturnKeeps
<1>8. TypeOK'
  BY <1>1, <1>2, <1>3, <1>4, <1>6, <1>7 DEF DispatchInv, TypeOK, Process
<1>9. Ownership'
  <2>1. \A u \in Task : Owns(p, u) => u = job[p]
    BY <1>1 DEF Owns
  <2>2. \A q \in Routine, u \in Task : Owns(q, u)' <=> Owns(q, u) /\ ~(q = p /\ u = job[p])
    BY <1>4, <2>1
  <2>. QED
    BY <1>5, <1>6, <2>2, OwnerDrops DEF DispatchInv
<1>10. Attempts'
  <2>1. \A w \in Worker : at'[w] = "abandon" => at[w] = "abandon" /\ worker'[w].task = worker[w].task
    BY <1>2, Types
  <2>. QED
    BY <1>1, <1>6, <2>1, AttemptsKeep
<1>11. HandedOut'
  <2>1. \A w \in Worker : worker'[w].life # "free" =>
           PlanDeps[worker'[w].task] \subseteq Completed(queue)
    <3>1. ASSUME NEW w \in Worker \ {p}
          PROVE  worker'[w].life # "free" => PlanDeps[worker'[w].task] \subseteq Completed(queue)
      BY <1>2 DEF DispatchInv, HandedOut
    <3>2. p \in Worker => worker'[p].life = "free"
      BY <1>2, NoProcessType
    <3>. QED
      BY <3>1, <3>2
  <2>2. \A q \in Routine : at'[q] \in {"first", "claim", "start", "give back"} =>
           PlanDeps[job'[q]] \subseteq Completed(queue)
    BY <1>2, <1>3 DEF DispatchInv, HandedOut
  <2>. QED
    BY <1>5, <1>6, <2>1, <2>2, QueueMoves, HandedOutKeeps DEF Dispatched
<1>. QED
  BY <1>4, <1>7, <1>8, <1>9, <1>10, <1>11 DEF DispatchInv

LEMMA RegisterKeeps ==
    ASSUME DispatchInv, NEW p \in Routine, Register(p)
    PROVE  DispatchInv'
<1>1. /\ at[p] = "register" /\ active' = active \cup {fresh[p]}
      /\ fresh' = [fresh EXCEPT ![p] = NoWorker]
      /\ job' = [job EXCEPT ![p] = NoTask] /\ Return(p, TRUE) /\ worker' = Free(p)
      /\ UNCHANGED <<queue, restarts, finished, failures>>
      /\ Goto(p, "idle")
  BY DEF Register, Return
<1>2. /\ at' \in [Routine -> Label] /\ at'[p] = "idle"
      /\ \A q \in Routine \ {p} : at'[q] = at[q]
      /\ worker' \in [Worker -> Process]
      /\ \A w \in Worker \ {p} : worker'[w] = worker[w]
      /\ p \in Worker => worker'[p] = NoProcess
  BY <1>1, EndEffect
<1>3. /\ job' \in [Routine -> Task \cup {NoTask}] /\ fresh' \in [Routine -> Worker \cup {NoWorker}]
      /\ \A q \in Routine \ {p} : job'[q] = job[q] /\ fresh'[q] = fresh[q]
  BY <1>1, Types
<1>4. /\ active' \in SUBSET (Worker \ FreeWorkers)'
      /\ Handles' /\ Fresh' /\ Jobs'
      /\ \A u \in Task : ~Owns(p, u)' /\ \A q \in Routine \ {p} : Owns(q, u)' <=> Owns(q, u)
  BY <1>1, <1>3, EndKeeps
<1>5. /\ phase' \in {"initial", "dispatching", "done"} /\ noProgress' \in 0..MaxNoProgress
      /\ Phases' /\ Rounds'
  <2>1. phase = "dispatching"
    BY <1>1, Dispatching DEF Label
  <2>. QED
    BY <1>1, <2>1, ReturnKeeps
<1>6. TypeOK'
  BY <1>1, <1>2, <1>3, <1>4, <1>5 DEF DispatchInv, TypeOK, Process
<1>7. Ownership'
  <2>1. \A u \in Task : ~Owns(p, u)
    BY <1>1 DEF Owns
  <2>2. \A q \in Routine, u \in Task : Owns(q, u)' <=> Owns(q, u)
    BY <1>4, <2>1
  <2>. QED
    BY <1>1, <2>2, QueueStays, OwnersKeep DEF DispatchInv
<1>8. Attempts'
  <2>1. \A w \in Worker : at'[w] = "abandon" => at[w] = "abandon" /\ worker'[w].task = worker[w].task
    BY <1>2, Types
  <2>. QED
    BY <1>1, <2>1, QueueStays, AttemptsKeep
<1>9. HandedOut'
  <2>1. \A w \in Worker : worker'[w].life # "free" =>
           PlanDeps[worker'[w].task] \subseteq Completed(queue)
    <3>1. ASSUME NEW w \in Worker \ {p}
          PROVE  worker'[w].life # "free" => PlanDeps[worker'[w].task] \subseteq Completed(queue)
      BY <1>2 DEF DispatchInv, HandedOut
    <3>2. p \in Worker => worker'[p].life = "free"
      BY <1>2, NoProcessType
    <3>. QED
      BY <3>1, <3>2
  <2>2. \A q \in Routine : at'[q] \in {"first", "claim", "start", "give back"} =>
           PlanDeps[job'[q]] \subseteq Completed(queue)
    BY <1>2, <1>3 DEF DispatchInv, HandedOut
  <2>. QED
    BY <1>1, <2>1, <2>2, QueueStays, HandedOutKeeps
<1>. QED
  BY <1>4, <1>5, <1>6, <1>7, <1>8, <1>9 DEF DispatchInv

-----------------------------------------------------------------------------
(* The exit handlers                                                        *)

(* The end of a handler: the worker owns nothing any more.                  *)
LEMMA EndHandlerKeeps ==
    ASSUME DispatchInv, NEW w \in Worker, EndHandler(w),
           at[w] \in {"complete", "abandon", "reread", "reclaim"},
           UNCHANGED <<active, job, fresh>>
    PROVE  /\ at' \in [Routine -> Label] /\ at'[w] \in {"idle", "spawn"}
           /\ \A q \in Routine \ {w} : at'[q] = at[q]
           /\ worker' \in [Worker -> Process] /\ \A v \in Worker \ {w} : worker'[v] = worker[v]
           /\ worker'[w].life # "free" => worker'[w].task = worker[w].task
           /\ active' \in SUBSET (Worker \ FreeWorkers)'
           /\ Handles' /\ Fresh' /\ Jobs'
           /\ \A u \in Task : ~Owns(w, u)' /\ \A q \in Routine \ {w} : Owns(q, u)' <=> Owns(q, u)
<1>0. w \in Routine /\ w # Loop /\ at[w] # "idle" /\ at[w] # "register"
      /\ worker \in [Worker -> Process]
      /\ \A q \in Routine \ {w} : job'[q] = job[q] /\ fresh'[q] = fresh[q]
  BY Types
<1>1. CASE worker[w].initial
  <2>1. Goto(w, "spawn") /\ worker' = worker
    BY <1>1 DEF EndHandler
  <2>2. "spawn" \in Label \ {"idle", "first", "register"}
    BY DEF Label
  <2>3. at' \in [Routine -> Label] /\ at'[w] = "spawn" /\ \A q \in Routine \ {w} : at'[q] = at[q]
    BY <1>0, <2>1, <2>2, GotoEffect
  <2>4. /\ active' \in SUBSET (Worker \ FreeWorkers)' /\ Handles' /\ Fresh' /\ Jobs'
        /\ \A u \in Task : \A q \in Routine \ {w} : Owns(q, u)' <=> Owns(q, u)
    BY <1>0, <2>1, <2>2, MoveKeeps
  <2>5. \A u \in Task : ~Owns(w, u)'
    BY <2>3 DEF Owns
  <2>. QED
    BY <1>0, <2>1, <2>3, <2>4, <2>5
<1>2. CASE ~worker[w].initial
  <2>1. Goto(w, "idle") /\ worker' = Free(w)
    BY <1>2 DEF EndHandler
  <2>2. /\ at' \in [Routine -> Label] /\ at'[w] = "idle"
        /\ \A q \in Routine \ {w} : at'[q] = at[q]
        /\ worker' \in [Worker -> Process]
        /\ \A v \in Worker \ {w} : worker'[v] = worker[v]
        /\ worker'[w].life = "free"
    BY <1>0, <2>1, EndEffect, NoProcessType
  <2>3. /\ active' \in SUBSET (Worker \ FreeWorkers)' /\ Handles' /\ Fresh' /\ Jobs'
        /\ \A u \in Task : ~Owns(w, u)' /\ \A q \in Routine \ {w} : Owns(q, u)' <=> Owns(q, u)
    BY <1>0, <2>1, EndKeeps
  <2>. QED
    BY <2>2, <2>3
<1>. QED
  BY <1>1, <1>2

(* A handler's steps leave the loop's count alone, which is 0.              *)
LEMMA HandlerWaits ==
    ASSUME DispatchInv, NEW w \in Worker, at[w] # "idle" \/ (w \in active /\ phase = "dispatching"),
           \A q \in Routine \ {w} : at'[q] = at[q],
           UNCHANGED <<phase, noProgress, failures>>
    PROVE  Phases' /\ Rounds' /\ phase = "dispatching"
<1>1. noProgress = 0 /\ phase = "dispatching"
  BY HandlerInFlight
<1>2. at'[Loop] = at[Loop] /\ failures' \in Nat
  BY Types
<1>. QED
  BY <1>1, <1>2, PhaseStays, RoundsWait

LEMMA HandlersTask ==
    ASSUME DispatchInv, NEW w \in Worker, at[w] # "idle"
    PROVE  /\ worker[w].task \in Task /\ worker[w].life # "free" /\ w \in Routine
           /\ PlanDeps[worker[w].task] \subseteq Completed(queue)
           /\ at[w] \in {"complete", "abandon", "release", "restart"} =>
                 Owns(w, worker[w].task) /\ queue[worker[w].task].status = "claimed"
           /\ at[w] \notin {"first", "start", "give back"} =>
                 \A u \in Task : Owns(w, u) => u = worker[w].task
           /\ at[w] \in {"reread", "reclaim"} => \A u \in Task : ~Owns(w, u)
<1>1. worker[w].task \in Task /\ worker[w].life # "free" /\ w \in Routine
  BY Types DEF DispatchInv, Handles
<1>2. PlanDeps[worker[w].task] \subseteq Completed(queue)
  BY <1>1 DEF DispatchInv, HandedOut
<1>3. ASSUME at[w] \in {"complete", "abandon", "release", "restart"}
      PROVE  Owns(w, worker[w].task) /\ queue[worker[w].task].status = "claimed"
  <2>1. Owns(w, worker[w].task)
    BY <1>1, <1>3 DEF Owns
  <2>. QED
    BY <1>1, <2>1 DEF DispatchInv, Ownership
<1>4. /\ at[w] \notin {"first", "start", "give back"} =>
            \A u \in Task : Owns(w, u) => u = worker[w].task
      /\ at[w] \in {"reread", "reclaim"} => \A u \in Task : ~Owns(w, u)
  BY DEF Owns
<1>. QED
  BY <1>1, <1>2, <1>3, <1>4

(* What keeps HandedOut' when a handler ends or its worker goes on.         *)
LEMMA HandlersHandedOut ==
    ASSUME DispatchInv, NEW w \in Worker, at[w] # "idle",
           Completed(queue) \subseteq Completed(queue'),
           \A u \in Task : queue'[u].deps = queue[u].deps /\ queue'[u].status \in Dispatched,
           \A v \in Worker \ {w} : worker'[v] = worker[v],
           worker'[w].life # "free" => worker'[w].task = worker[w].task,
           \A q \in Routine \ {w} : at'[q] = at[q], job' = job,
           at'[w] \notin {"first", "claim", "start", "give back"}
    PROVE  HandedOut'
<1>1. \A v \in Worker : worker'[v].life # "free" =>
         PlanDeps[worker'[v].task] \subseteq Completed(queue)
  <2>1. ASSUME NEW v \in Worker, v # w
        PROVE  worker'[v].life # "free" => PlanDeps[worker'[v].task] \subseteq Completed(queue)
    <3>1. worker'[v] = worker[v]
      BY <2>1
    <3>. QED
      BY <3>1 DEF DispatchInv, HandedOut
  <2>2. worker'[w].life # "free" => PlanDeps[worker'[w].task] \subseteq Completed(queue)
    BY HandlersTask
  <2>. QED
    BY <2>1, <2>2
<1>2. \A q \in Routine : at'[q] \in {"first", "claim", "start", "give back"} =>
         PlanDeps[job'[q]] \subseteq Completed(queue)
  BY DEF DispatchInv, HandedOut
<1>. QED
  BY <1>1, <1>2, HandedOutKeeps

LEMMA HandleExitKeeps ==
    ASSUME DispatchInv, NEW w \in Worker, HandleExit(w)
    PROVE  DispatchInv'
<1>1. /\ phase = "dispatching" /\ w \in active /\ at[w] = "idle"
      /\ worker[w].life \in {"exited 0", "exited 1"} /\ active' = active \ {w}
      /\ UNCHANGED <<queue, phase, worker, job, fresh, noProgress, finished, failures>>
  BY DEF HandleExit
<1>2. /\ worker[w].task \in Task /\ worker[w].life # "free" /\ w \in Routine /\ w # Loop
      /\ restarts \in [Task -> Nat]
  BY <1>1, Types DEF DispatchInv, Handles
<1>3. PICK label \in {"complete", "release", "abandon"} :
         /\ Goto(w, label)
         /\ restarts' \in [Task -> Nat] /\ \A t \in Task : restarts[t] <= restarts'[t]
         /\ label = "abandon" => /\ restarts'[worker[w].task] = restarts[worker[w].task] + 1
                                 /\ restarts[worker[w].task] + 1 > RestartLimit
  <2>1. CASE worker[w].life = "exited 0"
    <3>1. Goto(w, "complete") /\ restarts' = restarts
      BY <2>1 DEF HandleExit
    <3>. QED
      BY <1>2, <3>1
  <2>2. CASE worker[w].life # "exited 0"
    <3> DEFINE t == worker[w].task
    <3>1. /\ restarts' = [restarts EXCEPT ![t] = restarts[t] + 1]
          /\ Goto(w, IF MayRestart(restarts[t] + 1) THEN "release" ELSE "abandon")
      BY <2>2 DEF HandleExit
    <3>2. t \in Task
      BY <1>2
    <3>. HIDE DEF t
    <3>3. restarts[t] \in Nat /\ restarts[t] + 1 \in Nat /\ restarts[t] <= restarts[t] + 1
      BY <1>2, <3>2
    <3>4. /\ restarts' \in [Task -> Nat] /\ restarts'[t] = restarts[t] + 1
          /\ \A u \in Task \ {t} : restarts'[u] = restarts[u]
      BY <1>2, <3>1, <3>2, <3>3
    <3>5. \A u \in Task : restarts[u] <= restarts'[u]
      <4>1. ASSUME NEW u \in Task, u # t
            PROVE  restarts[u] <= restarts'[u]
        <5>1. restarts[u] \in Nat /\ restarts'[u] = restarts[u]
          BY <1>2, <3>4, <4>1
        <5>. QED
          BY <5>1
      <4>. QED
        BY <3>3, <3>4, <4>1
    <3>6. ~MayRestart(restarts[t] + 1) => restarts[t] + 1 > RestartLimit
      BY <3>3, Limits DEF MayRestart
    <3>7. CASE MayRestart(restarts[t] + 1)
      BY <3>1, <3>4, <3>5, <3>7
    <3>8. CASE ~MayRestart(restarts[t] + 1)
      BY <3>1, <3>4, <3>5, <3>6, <3>8 DEF t
    <3>. QED
      BY <3>7, <3>8
  <2>. QED
    BY <2>1, <2>2
<1>4. /\ at' \in [Routine -> Label] /\ at'[w] = label
      /\ \A q \in Routine \ {w} : at'[q] = at[q]
  BY <1>2, <1>3, GotoEffect DEF Label
<1>5. TypeOK'
  <2>1. active' \in SUBSET (Worker \ FreeWorkers)'
    BY <1>1 DEF DispatchInv, TypeOK, FreeWorkers
  <2>. QED
    BY <1>1, <1>3, <1>4, <2>1 DEF DispatchInv, TypeOK
<1>6. Ownership'
  <2>1. \A q \in Routine, u \in Task : Owns(q, u)' <=> Owns(q, u)
    BY <1>1, <1>4 DEF Owns
  <2>. QED
    BY <1>1, <2>1, QueueStays, OwnersKeep DEF DispatchInv
<1>7. Handles'
  <2>1. ASSUME NEW v \in Worker
        PROVE  /\ at'[v] # "first"
               /\ worker'[v].life = "free" => at'[v] = "idle"
               /\ worker'[v].life # "free" => worker'[v].task \in Task
               /\ at'[v] # "idle" => v \notin active' /\ worker'[v].life \in {"exited 0", "exited 1"}
               /\ at'[v] = "idle" /\ worker'[v].life # "free" =>
                     v \in active' \/ \E q \in Routine : at'[q] = "register" /\ fresh'[q] = v
    <3>1. CASE v = w
      BY <1>1, <1>2, <1>4, <3>1
    <3>2. CASE v # w
      <4>1. at'[v] = at[v] /\ worker'[v] = worker[v]
        BY <1>1, <1>4, <3>2, Types
      <4>2. /\ at[v] # "first"
            /\ worker[v].life = "free" => at[v] = "idle"
            /\ worker[v].life # "free" => worker[v].task \in Task
            /\ at[v] # "idle" => v \notin active /\ worker[v].life \in {"exited 0", "exited 1"}
        BY DEF DispatchInv, Handles
      <4>3. ASSUME at[v] = "idle", worker[v].life # "free", v \notin active
            PROVE  \E q \in Routine : at'[q] = "register" /\ fresh'[q] = v
        <5>1. PICK q \in Routine : at[q] = "register" /\ fresh[q] = v
          BY <4>3 DEF DispatchInv, Handles
        <5>. QED
          BY <1>1, <1>4, <5>1
      <4>4. v \in active' <=> v \in active
        BY <1>1, <3>2
      <4>. QED
        BY <4>1, <4>2, <4>3, <4>4
    <3>. QED
      BY <3>1, <3>2
  <2>. QED
    BY <2>1 DEF Handles
<1>8. Fresh'
  <2>. SUFFICES ASSUME NEW q \in Routine, at'[q] = "register"
                PROVE  /\ fresh'[q] \in Worker \ active'
                       /\ worker'[fresh'[q]].life # "free" /\ at'[fresh'[q]] = "idle"
                       /\ \A r \in Routine : at'[r] = "register" /\ fresh'[q] = fresh'[r] => q = r
    BY DEF Fresh
  <2>0. at[q] = "register" /\ fresh' = fresh
    BY <1>1, <1>4
  <2>1. /\ fresh[q] \in Worker \ active /\ worker[fresh[q]].life # "free" /\ at[fresh[q]] = "idle"
        /\ \A r \in Routine : at[r] = "register" /\ fresh[q] = fresh[r] => q = r
    BY <2>0 DEF DispatchInv, Fresh
  <2>2. fresh[q] # w /\ fresh[q] \in Routine
    BY <1>1, <2>1, Types
  <2>. QED
    BY <1>1, <1>4, <2>0, <2>1, <2>2
<1>9. Jobs' /\ Phases' /\ Rounds'
  <2>1. Jobs'
    BY <1>1, <1>4 DEF DispatchInv, Jobs
  <2>. QED
    BY <1>1, <1>4, <2>1, HandlerWaits
<1>10. Attempts'
  <2>0. Attempts /\ restarts' \in [Task -> Nat] /\ RestartLimit \in Nat
        /\ \A u \in Task : queue[u].restarts \in Nat
    BY <1>3, Types, Limits DEF DispatchInv, Entry
  <2>1. ASSUME NEW u \in Task, queue[u].restarts > 0
        PROVE  restarts'[u] >= RestartLimit + queue[u].restarts
    <3>1. restarts[u] >= RestartLimit + queue[u].restarts
      BY <2>0, <2>1 DEF Attempts
    <3>2. restarts[u] <= restarts'[u] /\ restarts[u] \in Nat /\ restarts'[u] \in Nat
          /\ queue[u].restarts \in Nat
      BY <1>2, <1>3, <2>0
    <3>. QED
      BY <2>0, <3>1, <3>2
  <2>2. ASSUME NEW v \in Worker, at'[v] = "abandon"
        PROVE  restarts'[worker[v].task] >= RestartLimit + queue[worker[v].task].restarts + 1
    <3>1. CASE v = w
      <4>1. PICK t \in Task : t = worker[w].task
        BY <1>2
      <4>2. restarts'[t] = restarts[t] + 1 /\ restarts[t] + 1 > RestartLimit
        BY <1>3, <1>4, <2>2, <3>1, <4>1
      <4>3. restarts[t] \in Nat /\ queue[t].restarts \in Nat
        BY <1>2, <2>0
      <4>4. CASE queue[t].restarts > 0
        <5>1. restarts[t] >= RestartLimit + queue[t].restarts
          BY <2>0, <4>4 DEF Attempts
        <5>2. restarts'[t] >= RestartLimit + queue[t].restarts + 1
          BY <2>0, <4>2, <4>3, <5>1
        <5>. QED
          BY <3>1, <4>1, <5>2
      <4>5. CASE ~(queue[t].restarts > 0)
        <5>1. queue[t].restarts = 0
          BY <4>3, <4>5
        <5>2. restarts'[t] >= RestartLimit + queue[t].restarts + 1
          BY <2>0, <4>2, <4>3, <5>1
        <5>. QED
          BY <3>1, <4>1, <5>2
      <4>. QED
        BY <4>4, <4>5
    <3>2. CASE v # w
      <4>1. at[v] = "abandon"
        BY <1>4, <2>2, <3>2, Types
      <4>2. PICK t \in Task : t = worker[v].task
        BY <4>1 DEF DispatchInv, Handles
      <4>3. restarts[t] >= RestartLimit + queue[t].restarts + 1
        BY <2>0, <4>1, <4>2 DEF Attempts
      <4>4. restarts[t] <= restarts'[t] /\ restarts[t] \in Nat /\ restarts'[t] \in Nat
            /\ queue[t].restarts \in Nat
        BY <1>2, <1>3, <2>0
      <4>5. restarts'[t] >= RestartLimit + queue[t].restarts + 1
        BY <2>0, <4>3, <4>4
      <4>. QED
        BY <4>2, <4>5
    <3>. QED
      BY <3>1, <3>2
  <2>3. queue' = queue /\ worker' = worker
    BY <1>1
  <2>. QED
    BY <2>0, <2>1, <2>2, <2>3 DEF Attempts
<1>11. HandedOut'
  <2>1. \A v \in Worker : worker'[v].life # "free" =>
           PlanDeps[worker'[v].task] \subseteq Completed(queue)
    BY <1>1 DEF DispatchInv, HandedOut
  <2>2. \A q \in Routine : at'[q] \in {"first", "claim", "start", "give back"} =>
           PlanDeps[job'[q]] \subseteq Completed(queue)
    BY <1>1, <1>4 DEF DispatchInv, HandedOut
  <2>. QED
    BY <1>1, <2>1, <2>2, QueueStays, HandedOutKeeps
<1>. QED
  BY <1>5, <1>6, <1>7, <1>8, <1>9, <1>10, <1>11 DEF DispatchInv

LEMMA CompleteTaskKeeps ==
    ASSUME DispatchInv, NEW w \in Worker, CompleteTask(w)
    PROVE  DispatchInv'
<1>1. PICK t \in Task : t = worker[w].task
  BY HandlersTask DEF CompleteTask
<1>2. /\ at[w] = "complete" /\ queue' = MarkTaskComplete(queue, t) /\ EndHandler(w)
      /\ UNCHANGED <<phase, active, restarts, job, fresh, noProgress, finished, failures>>
  BY <1>1 DEF CompleteTask
<1>3. /\ w \in Routine /\ Owns(w, t) /\ queue[t].status = "claimed"
      /\ \A u \in Task : Owns(w, u) => u = t
  BY <1>1, <1>2, HandlersTask
<1>4. /\ queue' \in [Task -> Entry] /\ \A u \in Task \ {t} : queue'[u] = queue[u]
      /\ queue'[t].status = "complete" /\ queue'[t].deps = queue[t].deps
      /\ queue'[t].restarts = queue[t].restarts
  BY <1>2, CompleteHere
<1>5. /\ at' \in [Routine -> Label] /\ at'[w] \in {"idle", "spawn"}
      /\ \A q \in Routine \ {w} : at'[q] = at[q]
      /\ worker' \in [Worker -> Process] /\ \A v \in Worker \ {w} : worker'[v] = worker[v]
      /\ worker'[w].life # "free" => worker'[w].task = worker[w].task
      /\ active' \in SUBSET (Worker \ FreeWorkers)'
      /\ Handles' /\ Fresh' /\ Jobs'
      /\ \A u \in Task : ~Owns(w, u)' /\ \A q \in Routine \ {w} : Owns(q, u)' <=> Owns(q, u)
  BY <1>2, EndHandlerKeeps
<1>6. TypeOK'
  BY <1>2, <1>4, <1>5 DEF DispatchInv, TypeOK, Process
<1>7. Ownership'
  <2>1. \A q \in Routine, u \in Task : Owns(q, u)' <=> Owns(q, u) /\ ~(q = w /\ u = t)
    BY <1>3, <1>5
  <2>2. \A u \in Task \ {t} : queue'[u].status = "claimed" <=> queue[u].status = "claimed"
    BY <1>4
  <2>. QED
    BY <1>3, <1>4, <2>1, <2>2, OwnerDrops DEF DispatchInv
<1>8. Attempts'
  <2>1. \A v \in Worker : at'[v] = "abandon" => at[v] = "abandon" /\ worker'[v].task = worker[v].task
    BY <1>5, Types
  <2>. QED
    BY <1>2, <1>4, <2>1, AttemptsKeep
<1>9. HandedOut'
  <2>1. /\ Completed(queue) \subseteq Completed(queue')
        /\ \A u \in Task : queue'[u].deps = queue[u].deps /\ queue'[u].status \in Dispatched
    BY <1>3, <1>4, QueueMoves DEF Dispatched
  <2>. QED
    BY <1>2, <1>5, <2>1, HandlersHandedOut
<1>10. Phases' /\ Rounds'
  <2>1. at[w] # "idle" /\ UNCHANGED <<phase, noProgress, failures>>
    BY <1>2
  <2>2. \A q \in Routine \ {w} : at'[q] = at[q]
    BY <1>5
  <2>. QED
    BY <2>1, <2>2, HandlerWaits
<1>. QED
  BY <1>5, <1>6, <1>7, <1>8, <1>9, <1>10 DEF DispatchInv

LEMMA AbandonTaskKeeps ==
    ASSUME DispatchInv, NEW w \in Worker, AbandonTask(w)
    PROVE  DispatchInv'
<1>1. PICK t \in Task : t = worker[w].task
  BY HandlersTask DEF AbandonTask
<1>2. /\ at[w] = "abandon" /\ queue' = MarkTaskFailed(queue, t) /\ EndHandler(w)
      /\ UNCHANGED <<phase, active, restarts, job, fresh, noProgress, finished, failures>>
  BY <1>1 DEF AbandonTask
<1>3. /\ w \in Routine /\ Owns(w, t) /\ queue[t].status = "claimed"
      /\ \A u \in Task : Owns(w, u) => u = t
  BY <1>1, <1>2, HandlersTask
<1>4. /\ queue' \in [Task -> Entry] /\ \A u \in Task \ {t} : queue'[u] = queue[u]
      /\ queue'[t].deps = queue[t].deps /\ queue'[t].restarts = queue[t].restarts + 1
      /\ \/ queue'[t].status = "pending"
         \/ queue'[t].status = "failed" /\ queue'[t].restarts >= MaxRestarts
  BY <1>2, FailHere
<1>5. /\ at' \in [Routine -> Label] /\ at'[w] \in {"idle", "spawn"}
      /\ \A q \in Routine \ {w} : at'[q] = at[q]
      /\ worker' \in [Worker -> Process] /\ \A v \in Worker \ {w} : worker'[v] = worker[v]
      /\ worker'[w].life # "free" => worker'[w].task = worker[w].task
      /\ active' \in SUBSET (Worker \ FreeWorkers)'
      /\ Handles' /\ Fresh' /\ Jobs'
      /\ \A u \in Task : ~Owns(w, u)' /\ \A q \in Routine \ {w} : Owns(q, u)' <=> Owns(q, u)
  BY <1>2, EndHandlerKeeps
<1>6. TypeOK'
  BY <1>2, <1>4, <1>5 DEF DispatchInv, TypeOK, Process
<1>7. Ownership'
  <2>1. \A q \in Routine, u \in Task : Owns(q, u)' <=> Owns(q, u) /\ ~(q = w /\ u = t)
    BY <1>3, <1>5
  <2>2. queue'[t].status # "claimed"
        /\ \A u \in Task \ {t} : queue'[u].status = "claimed" <=> queue[u].status = "claimed"
    BY <1>4
  <2>. QED
    BY <1>3, <2>1, <2>2, OwnerDrops DEF DispatchInv
<1>8. Attempts'
  <2>0. /\ Attempts /\ RestartLimit \in Nat /\ restarts' = restarts /\ restarts \in [Task -> Nat]
        /\ restarts[t] \in Nat /\ queue[t].restarts \in Nat
    BY <1>2, Types, Limits DEF DispatchInv, Entry
  <2>1. restarts[t] >= RestartLimit + queue'[t].restarts
    <3>1. restarts[t] >= RestartLimit + queue[t].restarts + 1
      BY <1>1, <1>2, <2>0 DEF Attempts
    <3>. QED
      BY <1>4, <2>0, <3>1
  <2>2. ASSUME NEW v \in Worker, at'[v] = "abandon"
        PROVE  /\ worker'[v] = worker[v] /\ worker[v].task # t /\ at[v] = "abandon"
               /\ worker[v].task \in Task
    <3>1. v # w /\ v \in Routine
      BY <1>5, <2>2, Types
    <3>2. at[v] = "abandon" /\ worker'[v] = worker[v]
      BY <1>5, <2>2, <3>1
    <3>3. worker[v].task \in Task /\ Owns(v, worker[v].task)
      BY <3>2, HandlersTask
    <3>4. worker[v].task # t
      BY <1>3, <3>1, <3>3 DEF DispatchInv, Ownership
    <3>. QED
      BY <3>2, <3>3, <3>4
  <2>3. ASSUME NEW u \in Task, queue'[u].restarts > 0
        PROVE  restarts'[u] >= RestartLimit + queue'[u].restarts
    <3>1. CASE u = t
      BY <2>0, <2>1, <3>1
    <3>2. CASE u # t
      BY <1>4, <2>0, <2>3, <3>2 DEF Attempts
    <3>. QED
      BY <3>1, <3>2
  <2>4. ASSUME NEW v \in Worker, at'[v] = "abandon"
        PROVE  restarts'[worker'[v].task] >= RestartLimit + queue'[worker'[v].task].restarts + 1
    BY <1>4, <2>0, <2>2, <2>4 DEF Attempts
  <2>5. ASSUME NEW u \in Task, queue'[u].status = "failed"
        PROVE  queue'[u].restarts >= MaxRestarts
    BY <1>4, <2>0, <2>5 DEF Attempts
  <2>. QED
    BY <2>3, <2>4, <2>5 DEF Attempts
<1>9. HandedOut'
  <2>1. queue'[t].status \in Dispatched
    BY <1>4 DEF Dispatched
  <2>2. /\ Completed(queue) \subseteq Completed(queue')
        /\ \A u \in Task : queue'[u].deps = queue[u].deps /\ queue'[u].status \in Dispatched
    BY <1>3, <1>4, <2>1, QueueMoves
  <2>. QED
    BY <1>2, <1>5, <2>2, HandlersHandedOut
<1>10. Phases' /\ Rounds'
  <2>1. at[w] # "idle" /\ UNCHANGED <<phase, noProgress, failures>>
    BY <1>2
  <2>2. \A q \in Routine \ {w} : at'[q] = at[q]
    BY <1>5
  <2>. QED
    BY <2>1, <2>2, HandlerWaits
<1>. QED
  BY <1>5, <1>6, <1>7, <1>8, <1>9, <1>10 DEF DispatchInv

(* A handler goes on, and has changed nothing but perhaps the queue.        *)
LEMMA HandlerGoesOn ==
    ASSUME DispatchInv, NEW w \in Worker, at[w] # "idle", at[w] # "register",
           NEW label \in Label \ {"idle", "first", "register", "claim", "start", "give back"},
           Goto(w, label), UNCHANGED <<phase, worker, active, job, fresh, noProgress, failures>>
    PROVE  /\ at' \in [Routine -> Label] /\ at'[w] = label
           /\ \A q \in Routine \ {w} : at'[q] = at[q]
           /\ active' \in SUBSET (Worker \ FreeWorkers)'
           /\ Handles' /\ Fresh' /\ Jobs' /\ Phases' /\ Rounds'
           /\ \A u \in Task : \A q \in Routine \ {w} : Owns(q, u)' <=> Owns(q, u)
<1>1. w \in Routine
  BY Types
<1>2. at' \in [Routine -> Label] /\ at'[w] = label /\ \A q \in Routine \ {w} : at'[q] = at[q]
  BY <1>1, GotoEffect
<1>3. /\ active' \in SUBSET (Worker \ FreeWorkers)' /\ Handles' /\ Fresh' /\ Jobs'
      /\ \A u \in Task : \A q \in Routine \ {w} : Owns(q, u)' <=> Owns(q, u)
  BY <1>1, MoveKeeps
<1>4. Phases' /\ Rounds'
  BY <1>2, HandlerWaits
<1>. QED
  BY <1>2, <1>3, <1>4

LEMMA ReleaseForRestartKeeps ==
    ASSUME DispatchInv, NEW w \in Worker, ReleaseForRestart(w)
    PROVE  DispatchInv'
<1>1. PICK t \in Task : t = worker[w].task
  BY HandlersTask DEF ReleaseForRestart
<1>2. /\ at[w] = "release" /\ queue' = ReleaseTask(queue, t) /\ Goto(w, "reread")
      /\ UNCHANGED <<phase, worker, active, restarts, job, fresh, noProgress, finished, failures>>
  BY <1>1 DEF ReleaseForRestart
<1>3. /\ w \in Routine /\ Owns(w, t) /\ queue[t].status = "claimed"
      /\ \A u \in Task : Owns(w, u) => u = t
  BY <1>1, <1>2, HandlersTask
<1>4. /\ queue' \in [Task -> Entry] /\ \A u \in Task \ {t} : queue'[u] = queue[u]
      /\ queue'[t].status = "pending" /\ queue'[t].deps = queue[t].deps
      /\ queue'[t].restarts = queue[t].restarts
  BY <1>2, ReleaseHere
<1>5. /\ at' \in [Routine -> Label] /\ at'[w] = "reread"
      /\ \A q \in Routine \ {w} : at'[q] = at[q]
      /\ active' \in SUBSET (Worker \ FreeWorkers)'
      /\ Handles' /\ Fresh' /\ Jobs' /\ Phases' /\ Rounds'
      /\ \A u \in Task : \A q \in Routine \ {w} : Owns(q, u)' <=> Owns(q, u)
  <2>1. "reread" \in Label \ {"idle", "first", "register", "claim", "start", "give back"}
    BY DEF Label
  <2>2. /\ at[w] # "idle" /\ at[w] # "register" /\ Goto(w, "reread")
        /\ UNCHANGED <<phase, worker, active, job, fresh, noProgress, failures>>
    BY <1>2
  <2>. QED
    BY <2>1, <2>2, HandlerGoesOn
<1>6. TypeOK'
  BY <1>2, <1>4, <1>5 DEF DispatchInv, TypeOK
<1>7. Ownership'
  <2>0. \A u \in Task : ~Owns(w, u)'
    BY <1>3, <1>5 DEF Owns
  <2>1. \A q \in Routine, u \in Task : Owns(q, u)' <=> Owns(q, u) /\ ~(q = w /\ u = t)
    BY <1>3, <1>5, <2>0
  <2>2. \A u \in Task \ {t} : queue'[u].status = "claimed" <=> queue[u].status = "claimed"
    BY <1>4
  <2>. QED
    BY <1>3, <1>4, <2>1, <2>2, OwnerDrops DEF DispatchInv
<1>8. Attempts'
  <2>1. \A v \in Worker : at'[v] = "abandon" => at[v] = "abandon" /\ worker'[v].task = worker[v].task
    BY <1>2, <1>5, Types
  <2>. QED
    BY <1>2, <1>4, <2>1, AttemptsKeep
<1>9. HandedOut'
  <2>1. /\ Completed(queue) \subseteq Completed(queue')
        /\ \A u \in Task : queue'[u].deps = queue[u].deps /\ queue'[u].status \in Dispatched
    BY <1>3, <1>4, QueueMoves DEF Dispatched
  <2>2. /\ at[w] # "idle" /\ at'[w] \notin {"first", "claim", "start", "give back"}
        /\ worker' = worker /\ job' = job /\ \A q \in Routine \ {w} : at'[q] = at[q]
    BY <1>2, <1>5
  <2>. QED
    BY <2>1, <2>2, HandlersHandedOut
<1>. QED
  BY <1>5, <1>6, <1>7, <1>8, <1>9 DEF DispatchInv

(* The handler of a task that someone else has taken meanwhile ends.        *)
LEMMA HandlerGivesUp ==
    ASSUME DispatchInv, NEW w \in Worker, at[w] \in {"reread", "reclaim"}, EndHandler(w),
           UNCHANGED <<queue, phase, active, restarts, job, fresh, noProgress, finished, failures>>
    PROVE  DispatchInv'
<1>1. /\ at' \in [Routine -> Label] /\ at'[w] \in {"idle", "spawn"}
      /\ \A q \in Routine \ {w} : at'[q] = at[q]
      /\ worker' \in [Worker -> Process] /\ \A v \in Worker \ {w} : worker'[v] = worker[v]
      /\ worker'[w].life # "free" => worker'[w].task = worker[w].task
      /\ active' \in SUBSET (Worker \ FreeWorkers)'
      /\ Handles' /\ Fresh' /\ Jobs'
      /\ \A u \in Task : ~Owns(w, u)' /\ \A q \in Routine \ {w} : Owns(q, u)' <=> Owns(q, u)
  BY EndHandlerKeeps
<1>2. TypeOK'
  BY <1>1 DEF DispatchInv, TypeOK, Process
<1>3. Ownership'
  <2>1. \A u \in Task : ~Owns(w, u)
    BY HandlersTask
  <2>2. \A q \in Routine, u \in Task : Owns(q, u)' <=> Owns(q, u)
    BY <1>1, <2>1
  <2>. QED
    BY <2>2, QueueStays, OwnersKeep DEF DispatchInv
<1>4. Attempts'
  <2>1. \A v \in Worker : at'[v] = "abandon" => at[v] = "abandon" /\ worker'[v].task = worker[v].task
    BY <1>1, Types
  <2>. QED
    BY <2>1, QueueStays, AttemptsKeep
<1>5. HandedOut'
  BY <1>1, QueueStays, HandlersHandedOut
<1>6. Phases' /\ Rounds'
  <2>1. \A q \in Routine \ {w} : at'[q] = at[q]
    BY <1>1
  <2>. QED
    BY <2>1, HandlerWaits
<1>. QED
  BY <1>1, <1>2, <1>3, <1>4, <1>5, <1>6 DEF DispatchInv

LEMMA RereadKeeps ==
    ASSUME DispatchInv, NEW w \in Worker, Reread(w)
    PROVE  DispatchInv'
<1>1. /\ at[w] = "reread"
      /\ UNCHANGED <<queue, phase, active, restarts, job, fresh, noProgress, finished, failures>>
  BY DEF Reread
<1>2. CASE queue[worker[w].task].status = "pending"
  <2>1. Goto(w, "reclaim") /\ UNCHANGED worker
    BY <1>2 DEF Reread
  <2>2. /\ at'[w] = "reclaim" /\ Phases' /\ Rounds'
    <3>1. "reclaim" \in Label \ {"idle", "first", "register", "claim", "start", "give back"}
      BY DEF Label
    <3>2. /\ at[w] # "idle" /\ at[w] # "register"
          /\ UNCHANGED <<phase, worker, active, job, fresh, noProgress, failures>>
      BY <1>1, <2>1
    <3>. QED
      BY <2>1, <3>1, <3>2, HandlerGoesOn
  <2>3. \A u \in Task : Owns(w, u)' <=> Owns(w, u)
    BY <1>1, <2>2 DEF Owns
  <2>4. /\ w \in Routine /\ job' \in [Routine -> Task \cup {NoTask}]
        /\ \A q \in Routine \ {w} : job'[q] = job[q]
        /\ "reclaim" \in Label \ {"idle", "first", "register"}
    BY <1>1, Types DEF Label
  <2>5. failures' \in 0..SpawnFailures /\ at[w] # "idle" /\ at[w] # "register"
    BY <1>1, Types
  <2>6. UNCHANGED <<queue, worker, active, restarts, fresh, finished>>
        /\ noProgress' = noProgress /\ phase' = phase
    BY <1>1, <2>1
  <2>. QED
    BY <2>1, <2>2, <2>3, <2>4, <2>5, <2>6, GoOn
<1>3. CASE queue[worker[w].task].status # "pending"
  BY <1>1, <1>3, HandlerGivesUp DEF Reread
<1>. QED
  BY <1>2, <1>3

LEMMA ReclaimKeeps ==
    ASSUME DispatchInv, NEW w \in Worker, Reclaim(w)
    PROVE  DispatchInv'
<1>1. PICK t \in Task : t = worker[w].task
  BY HandlersTask DEF Reclaim
<1>2. /\ at[w] = "reclaim"
      /\ UNCHANGED <<phase, active, restarts, job, fresh, noProgress, finished, failures>>
      /\ w \in Routine /\ worker[w].life # "free"
  BY HandlersTask DEF Reclaim
<1>3. CASE queue[t].status = "pending"
  <2>1. queue' = ClaimTask(queue, t, Coordinator) /\ Goto(w, "restart") /\ UNCHANGED worker
    BY <1>1, <1>3 DEF Reclaim
  <2>2. Phases' /\ Rounds'
    <3>1. "restart" \in Label \ {"idle", "first", "register", "claim", "start", "give back"}
      BY DEF Label
    <3>2. /\ at[w] # "idle" /\ at[w] # "register"
          /\ UNCHANGED <<phase, worker, active, job, fresh, noProgress, failures>>
      BY <1>2, <2>1
    <3>. QED
      BY <2>1, <3>1, <3>2, HandlerGoesOn
  <2>3. at[w] # "idle" /\ at[w] \in {"claim", "reclaim"} /\ worker[w].task = t
        /\ UNCHANGED <<phase, worker, active, restarts, job, fresh, noProgress, finished, failures>>
    BY <1>1, <1>2, <2>1
  <2>. QED
    BY <1>2, <1>3, <2>1, <2>2, <2>3, ClaimedNow
<1>4. CASE queue[t].status # "pending"
  <2>1. EndHandler(w) /\ UNCHANGED queue
    BY <1>1, <1>4 DEF Reclaim
  <2>. QED
    BY <1>2, <2>1, HandlerGivesUp
<1>. QED
  BY <1>3, <1>4

LEMMA RestartKeeps ==
    ASSUME DispatchInv, NEW w \in Worker, Restart(w)
    PROVE  DispatchInv'
<1>1. PICK n \in Worker : n = NewWorker
  BY NewWorkerIs DEF Restart
<1>2. PICK t \in Task : t = worker[w].task
  BY HandlersTask DEF Restart
<1>3. PICK label \in {"spawn", "idle"} :
         Goto(w, label) /\ label = IF worker[w].initial THEN "spawn" ELSE "idle"
  BY DEF Restart
<1>4. /\ at[w] = "restart" /\ active' = active \cup {n}
      /\ worker' = [worker EXCEPT
                ![n] = [task |-> worker[w].task, life |-> "running", initial |-> FALSE],
                ![w] = IF worker[w].initial THEN @ ELSE NoProcess]
      /\ UNCHANGED <<queue, phase, restarts, job, fresh, noProgress, finished, failures>>
  BY <1>1 DEF Restart
<1>5. /\ worker[n].life = "free" /\ at[n] = "idle" /\ n \notin active /\ n # Loop /\ n \in Routine
      /\ \A q \in Routine : at[q] = "register" => fresh[q] # n
      /\ \A u \in Task : ~Owns(n, u)
  BY <1>1, NewWorkerIs DEF Restart
<1>6. /\ w \in Routine /\ Owns(w, t) /\ n # w /\ worker[w].life \in {"exited 0", "exited 1"}
      /\ w \notin active /\ w # Loop
      /\ \A u \in Task : Owns(w, u) => u = t
      /\ PlanDeps[t] \subseteq Completed(queue)
  <2>1. worker[w].life \in {"exited 0", "exited 1"} /\ w \notin active
    BY <1>4 DEF DispatchInv, Handles
  <2>. QED
    BY <1>2, <1>4, <1>5, <2>1, HandlersTask, Types
<1>7. /\ worker' \in [Worker -> Process] /\ \A v \in Worker \ {n, w} : worker'[v] = worker[v]
      /\ worker'[n].task = t /\ worker'[n].life = "running"
      /\ worker'[w] = IF worker[w].initial THEN worker[w] ELSE NoProcess
  <2>1. worker \in [Worker -> Process]
    BY Types
  <2>2. PICK r \in Process : r = [task |-> t, life |-> "running", initial |-> FALSE]
    BY DEF Process
  <2>3. PICK e \in Process : e = IF worker[w].initial THEN worker[w] ELSE NoProcess
    BY <2>1, NoProcessType
  <2>4. worker' = [worker EXCEPT ![n] = r, ![w] = e]
    BY <1>2, <1>4, <1>6, <2>1, <2>2, <2>3
  <2>5. worker'[n] = r /\ worker'[w] = e /\ \A v \in Worker \ {n, w} : worker'[v] = worker[v]
    BY <1>6, <2>1, <2>4
  <2>6. worker' \in [Worker -> Process]
    BY <2>1, <2>4
  <2>. QED
    BY <2>2, <2>3, <2>5, <2>6
<1>8. /\ at' \in [Routine -> Label] /\ at'[w] = label
      /\ \A q \in Routine \ {w} : at'[q] = at[q]
      /\ at'[n] = "idle"
  BY <1>3, <1>5, <1>6, GotoEffect DEF Label
<1>9. \/ at'[w] = "spawn" /\ worker'[w] = worker[w]
      \/ at'[w] = "idle" /\ worker'[w].life = "free"
  BY <1>3, <1>7, <1>8, NoProcessType
<1>10. TypeOK'
  <2>1. \A v \in active' : v \in Worker /\ worker'[v].life # "free"
    BY <1>4, <1>6, <1>7, Types
  <2>2. active' \in SUBSET (Worker \ FreeWorkers)'
    BY <2>1 DEF FreeWorkers
  <2>. QED
    BY <1>4, <1>7, <1>8, <2>2 DEF DispatchInv, TypeOK, Process
<1>11. Ownership'
  <2>1. ASSUME NEW q \in Routine, q # w, q # n, NEW u \in Task
        PROVE  Owns(q, u)' <=> Owns(q, u)
    BY <1>4, <1>7, <1>8, <2>1 DEF Owns
  <2>2. ASSUME NEW u \in Task
        PROVE  ~Owns(w, u)' /\ (Owns(w, u) <=> u = t) /\ (Owns(n, u)' <=> u = t)
    <3>1. ~Owns(w, u)'
      BY <1>9 DEF Owns
    <3>2. Owns(n, u)' <=> u = t
      BY <1>4, <1>5, <1>7, <1>8 DEF Owns
    <3>. QED
      BY <1>6, <3>1, <3>2
  <2>3. \A q \in Routine, u \in Task :
           Owns(q, u)' <=> (Owns(q, u) /\ ~(q = w /\ u = t)) \/ (q = n /\ u = t)
    BY <1>5, <1>6, <2>1, <2>2
  <2>4. Ownership /\ \A u \in Task : queue'[u].status = "claimed" <=> queue[u].status = "claimed"
    BY <1>4 DEF DispatchInv
  <2>5. w \in Routine /\ n \in Routine /\ Owns(w, t)
    BY <1>5, <1>6
  <2>. QED
    BY <2>3, <2>4, <2>5, OwnerPasses
<1>12. Handles'
  <2>1. ASSUME NEW v \in Worker
        PROVE  /\ at'[v] # "first"
               /\ worker'[v].life = "free" => at'[v] = "idle"
               /\ worker'[v].life # "free" => worker'[v].task \in Task
               /\ at'[v] # "idle" => v \notin active' /\ worker'[v].life \in {"exited 0", "exited 1"}
               /\ at'[v] = "idle" /\ worker'[v].life # "free" =>
                     v \in active' \/ \E q \in Routine : at'[q] = "register" /\ fresh'[q] = v
    <3>1. CASE v = n
      BY <1>4, <1>7, <1>8, <3>1
    <3>2. CASE v = w
      BY <1>2, <1>4, <1>6, <1>9, <3>2
    <3>3. CASE v # n /\ v # w
      <4>1. at'[v] = at[v] /\ worker'[v] = worker[v]
        BY <1>7, <1>8, <3>3, Types
      <4>2. /\ at[v] # "first"
            /\ worker[v].life = "free" => at[v] = "idle"
            /\ worker[v].life # "free" => worker[v].task \in Task
            /\ at[v] # "idle" => v \notin active /\ worker[v].life \in {"exited 0", "exited 1"}
        BY DEF DispatchInv, Handles
      <4>3. ASSUME at[v] = "idle", worker[v].life # "free", v \notin active
            PROVE  \E q \in Routine : at'[q] = "register" /\ fresh'[q] = v
        <5>1. PICK q \in Routine : at[q] = "register" /\ fresh[q] = v
          BY <4>3 DEF DispatchInv, Handles
        <5>. QED
          BY <1>4, <1>8, <5>1
      <4>4. v \in active' <=> v \in active
        BY <1>4, <3>3
      <4>. QED
        BY <4>1, <4>2, <4>3, <4>4
    <3>. QED
      BY <3>1, <3>2, <3>3
  <2>. QED
    BY <2>1 DEF Handles
<1>13. Fresh'
  <2>. SUFFICES ASSUME NEW q \in Routine, at'[q] = "register"
                PROVE  /\ fresh'[q] \in Worker \ active'
                       /\ worker'[fresh'[q]].life # "free" /\ at'[fresh'[q]] = "idle"
                       /\ \A r \in Routine : at'[r] = "register" /\ fresh'[q] = fresh'[r] => q = r
    BY DEF Fresh
  <2>1. at[q] = "register" /\ fresh' = fresh
    BY <1>4, <1>8, <1>9
  <2>2. /\ fresh[q] \in Worker \ active /\ worker[fresh[q]].life # "free" /\ at[fresh[q]] = "idle"
        /\ \A r \in Routine : at[r] = "register" /\ fresh[q] = fresh[r] => q = r
    BY <2>1 DEF DispatchInv, Fresh
  <2>3. fresh[q] # n /\ fresh[q] # w /\ fresh[q] \in Routine
    BY <1>4, <1>5, <2>1, <2>2, Types
  <2>4. \A r \in Routine : at'[r] = "register" => at[r] = "register"
    BY <1>8, <1>9
  <2>5. /\ fresh[q] \notin active' /\ worker'[fresh[q]] = worker[fresh[q]]
        /\ at'[fresh[q]] = "idle"
    BY <1>4, <1>7, <1>8, <2>2, <2>3
  <2>. QED
    BY <2>1, <2>2, <2>4, <2>5
<1>14. Jobs'
  BY <1>4, <1>8, <1>9 DEF DispatchInv, Jobs
<1>15. Attempts' /\ HandedOut'
  <2>1. \A v \in Worker : at'[v] = "abandon" => at[v] = "abandon" /\ worker'[v].task = worker[v].task
    <3>1. ASSUME NEW v \in Worker, at'[v] = "abandon"
          PROVE  at[v] = "abandon" /\ worker'[v].task = worker[v].task
      <4>1. v # w /\ v # n /\ v \in Routine
        BY <1>8, <1>9, <3>1, Types
      <4>. QED
        BY <1>7, <1>8, <3>1, <4>1
    <3>. QED
      BY <3>1
  <2>2. Attempts'
    BY <1>4, <2>1, QueueStays, AttemptsKeep
  <2>3. ASSUME NEW v \in Worker
        PROVE  worker'[v].life # "free" => PlanDeps[worker'[v].task] \subseteq Completed(queue)
    <3>1. CASE v = n
      BY <1>6, <1>7, <3>1
    <3>2. CASE v = w
      BY <1>2, <1>6, <1>9, <3>2
    <3>3. CASE v # n /\ v # w
      <4>1. worker'[v] = worker[v]
        BY <1>7, <3>3
      <4>. QED
        BY <4>1 DEF DispatchInv, HandedOut
    <3>. QED
      BY <3>1, <3>2, <3>3
  <2>4. \A q \in Routine : at'[q] \in {"first", "claim", "start", "give back"} =>
           PlanDeps[job'[q]] \subseteq Completed(queue)
    BY <1>4, <1>8, <1>9 DEF DispatchInv, HandedOut
  <2>. QED
    BY <1>4, <2>2, <2>3, <2>4, QueueStays, HandedOutKeeps
<1>16. Phases' /\ Rounds'
  BY <1>4, <1>8, HandlerWaits
<1>. QED
  BY <1>10, <1>11, <1>12, <1>13, <1>14, <1>15, <1>16 DEF DispatchInv

-----------------------------------------------------------------------------
LEMMA DispatchStarts ==
    ASSUME Init
    PROVE  DispatchInv
<1>1. /\ queue = CreateFromPlan(NothingDone) /\ phase = "initial" /\ worker = [w \in Worker |-> NoProcess]
      /\ active = {} /\ restarts = [t \in Task |-> 0] /\ at = [p \in Routine |-> "idle"]
      /\ job = [p \in Routine |-> NoTask] /\ fresh = [p \in Routine |-> NoWorker]
      /\ noProgress = 0 /\ finished = {} /\ failures = 0
  BY DEF Init
<1>2. /\ \A p \in Routine : at[p] = "idle"
      /\ \A w \in Worker : worker[w] = NoProcess /\ at[w] = "idle"
      /\ Loop \in Routine
  BY <1>1 DEF Routine
<1>3. queue \in [Task -> Entry] /\ \A t \in Task : /\ queue[t].status = "pending"
                                                   /\ queue[t].restarts = 0
                                                   /\ queue[t].deps = PlanDeps[t]
  <2>1. Plan = Task /\ PlanDeps \in [Task -> SUBSET Task] /\ PlanPriority \in [Task -> Priority]
        /\ PlanParent \in [Task -> Task \cup {NoTask}]
    BY DispatchAssumption, QueueAssumption
  <2>2. ASSUME NEW t \in Task
        PROVE  NewEntry("pending", PlanParent[t], PlanDeps[t], PlanPriority[t]) \in Entry
    BY <2>1, NewEntryType DEF Status
  <2>3. \A t \in Task :
           queue[t] = NewEntry("pending", PlanParent[t], PlanDeps[t], PlanPriority[t])
    BY <1>1, <2>1 DEF CreateFromPlan, NothingDone
  <2>4. queue \in [Task -> Entry]
    BY <1>1, <2>1, <2>2 DEF CreateFromPlan, NothingDone
  <2>. QED
    BY <2>3, <2>4 DEF NewEntry
<1>4. TypeOK
  <2>1. worker \in [Worker -> Process]
    BY <1>1, NoProcessType
  <2>2. noProgress \in 0..MaxNoProgress /\ failures \in 0..SpawnFailures
    BY <1>1, Limits
  <2>. QED
    BY <1>1, <1>3, <2>1, <2>2 DEF TypeOK, Process, Label
<1>5. Ownership
  BY <1>2, <1>3, NoProcessType DEF Ownership, Owns
<1>6. Handles
  BY <1>2, NoProcessType DEF Handles
<1>7. Fresh /\ Jobs /\ Phases
  BY <1>1, <1>2 DEF Fresh, Jobs, Phases, InFlight
<1>8. Attempts
  BY <1>2, <1>3 DEF Attempts
<1>9. HandedOut
  BY <1>2, <1>3, NoProcessType DEF HandedOut, Dispatched
<1>10. Rounds
  BY <1>1, <1>2, Limits DEF Rounds
<1>. QED
  BY <1>4, <1>5, <1>6, <1>7, <1>8, <1>9, <1>10 DEF DispatchInv

LEMMA UnchangedKeeps ==
    ASSUME DispatchInv, UNCHANGED vars
    PROVE  DispatchInv'
<1>1. /\ queue' = queue /\ phase' = phase /\ worker' = worker /\ active' = active
      /\ restarts' = restarts /\ at' = at /\ job' = job /\ fresh' = fresh
      /\ noProgress' = noProgress /\ finished' = finished /\ failures' = failures
  BY DEF vars
<1>2. TypeOK' /\ Jobs' /\ Phases' /\ Fresh'
  BY <1>1 DEF DispatchInv, TypeOK, FreeWorkers, Jobs, Phases, InFlight, Fresh
<1>3. Ownership'
  <2>1. \A p \in Routine, t \in Task : Owns(p, t)' <=> Owns(p, t)
    BY <1>1 DEF Owns
  <2>. QED
    BY <1>1, <2>1, OwnersKeep DEF DispatchInv
<1>4. Handles'
  <2>1. Handles
    BY DEF DispatchInv
  <2>2. ASSUME NEW w \in Worker
        PROVE  (\E q \in Routine : at'[q] = "register" /\ fresh'[q] = w)
               <=> \E q \in Routine : at[q] = "register" /\ fresh[q] = w
    BY <1>1
  <2>. QED
    BY <1>1, <2>1, <2>2 DEF Handles
<1>5. Attempts' /\ HandedOut'
  BY <1>1 DEF DispatchInv, Attempts, HandedOut
<1>6. Rounds'
  BY <1>1 DEF DispatchInv, Rounds, InFlight
<1>. QED
  BY <1>2, <1>3, <1>4, <1>5, <1>6 DEF DispatchInv

(* The loop, the exit handlers, the processes and the failures to start one *)
(* keep the invariant at every await, in any order.                         *)
THEOREM DispatchInductive == Spec => []DispatchInv
<1>1. Init => DispatchInv
  BY DispatchStarts
<1>2. DispatchInv /\ [Next]_vars => DispatchInv'
  <2>. SUFFICES ASSUME DispatchInv, [Next]_vars
                PROVE  DispatchInv'
    OBVIOUS
  <2>1. CASE InitialClaim
    BY <2>1, InitialClaimKeeps
  <2>2. CASE InitialStart
    BY <2>2, InitialStartKeeps
  <2>3. CASE EndOfBatch
    BY <2>3, EndOfBatchKeeps
  <2>4. ASSUME NEW p \in Routine, SpawnStep(p)
        PROVE  DispatchInv'
    BY <2>4, BeginSpawnKeeps, AskKeeps, ClaimNextKeeps, StartNextKeeps, GiveBackKeeps,
       RegisterKeeps DEF SpawnStep
  <2>5. ASSUME NEW w \in Worker, HandlerStep(w)
        PROVE  DispatchInv'
    BY <2>5, HandleExitKeeps, CompleteTaskKeeps, AbandonTaskKeeps, ReleaseForRestartKeeps,
       RereadKeeps, ReclaimKeeps, RestartKeeps DEF HandlerStep
  <2>6. ASSUME NEW w \in Worker, Exit(w)
        PROVE  DispatchInv'
    BY <2>6, ExitKeeps
  <2>7. CASE UNCHANGED vars
    BY <2>7, UnchangedKeeps
  <2>. QED
    BY <2>1, <2>2, <2>3, <2>4, <2>5, <2>6, <2>7 DEF Next, Terminated
<1>. QED
  BY <1>1, <1>2, PTL DEF Spec

-----------------------------------------------------------------------------
(* The coordinator's tables hold what they are declared to hold, and a      *)
(* registered handle is one of a process that was started.                  *)
THEOREM TypeCorrect == Spec => []TypeOK
<1>1. DispatchInv => TypeOK
  BY DEF DispatchInv
<1>. QED
  BY <1>1, DispatchInductive, PTL

(* A claimed task has exactly one owner and no other task has any, however  *)
(* the loop, the exit handlers and the processes interleave: no task is     *)
(* worked on twice at once, and none is claimed with nobody to settle it.   *)
THEOREM OneOwner == Spec => []ExactlyOneOwner
<1>1. DispatchInv => ExactlyOneOwner
  <2>. SUFFICES ASSUME DispatchInv, NEW t \in Task
                PROVE  Cardinality(Owners(t)) = IF queue[t].status = "claimed" THEN 1 ELSE 0
    BY DEF ExactlyOneOwner
  <2>1. Owners(t) = {p \in Routine : Owns(p, t)}
    BY Types DEF Owners, Owns
  <2>2. CASE queue[t].status = "claimed"
    <3>1. PICK p \in Routine : Owns(p, t)
      BY <2>2 DEF DispatchInv, Ownership
    <3>2. \A q \in Routine : Owns(q, t) => q = p
      BY <3>1 DEF DispatchInv, Ownership
    <3>3. Owners(t) = {p}
      BY <2>1, <3>1, <3>2
    <3>. QED
      BY <2>2, <3>3, FS_Singleton
  <2>3. CASE queue[t].status # "claimed"
    <3>1. \A q \in Routine : ~Owns(q, t)
      BY <2>3 DEF DispatchInv, Ownership
    <3>2. Owners(t) = {}
      BY <2>1, <3>1
    <3>. QED
      BY <2>3, <3>2, FS_EmptySet
  <2>. QED
    BY <2>2, <2>3
<1>. QED
  BY <1>1, DispatchInductive, PTL

(* A task is given up only after RestartLimit restarts by the exit handler  *)
(* and MaxRestarts failures in the queue, whoever ran the attempts.         *)
THEOREM GivenUpAfterEveryAttempt == Spec => []FailedHadEveryAttempt
<1>1. DispatchInv => FailedHadEveryAttempt
  <2>. SUFFICES ASSUME DispatchInv, NEW t \in Task, queue[t].status = "failed"
                PROVE  restarts[t] >= RestartLimit + MaxRestarts
    BY DEF FailedHadEveryAttempt, WithStatus
  <2>1. /\ RestartLimit \in Nat /\ MaxRestarts \in Nat /\ MaxRestarts # 0
        /\ restarts[t] \in Nat /\ queue[t].restarts \in Nat
    BY Types, Limits DEF Entry
  <2>2. queue[t].restarts >= MaxRestarts
    BY DEF DispatchInv, Attempts
  <2>3. queue[t].restarts > 0
    BY <2>1, <2>2
  <2>4. restarts[t] >= RestartLimit + queue[t].restarts
    BY <2>3 DEF DispatchInv, Attempts
  <2>. QED
    BY <2>1, <2>2, <2>4
<1>. QED
  BY <1>1, DispatchInductive, PTL

(* When spawn_from_queue returns, no worker is running, no task is claimed, *)
(* and no task is left that could still be worked on: a round is counted    *)
(* only if nothing is in flight, and 60 of them outlast the processes that  *)
(* fail to start.                                                           *)
THEOREM ReturnsWhenDone == Spec => []NothingLeftBehind
<1>1. DispatchInv => NothingLeftBehind
  <2>. SUFFICES ASSUME DispatchInv, phase = "done"
                PROVE  /\ \A w \in Worker : worker[w].life = "free"
                       /\ WithStatus(queue, "claimed") = {}
                       /\ Available(queue) = {}
    BY DEF NothingLeftBehind
  <2>1. active = {} /\ at[Loop] = "idle" /\ Available(queue) = {}
    BY DEF DispatchInv, Rounds
  <2>2. InFlight = {}
    BY DEF DispatchInv, Phases
  <2>3. \A p \in Routine : at[p] = "idle"
    BY <2>1, <2>2 DEF InFlight, Routine
  <2>4. ASSUME NEW w \in Worker
        PROVE  worker[w].life = "free"
    <3>1. at[w] = "idle" /\ ~(\E p \in Routine : at[p] = "register" /\ fresh[p] = w)
      BY <2>3, Types
    <3>. QED
      BY <2>1, <3>1 DEF DispatchInv, Handles
  <2>5. \A t \in Task, p \in Routine : ~Owns(p, t)
    BY <2>3, <2>4 DEF Owns
  <2>6. WithStatus(queue, "claimed") = {}
    BY <2>5 DEF DispatchInv, Ownership, WithStatus
  <2>. QED
    BY <2>1, <2>4, <2>6
<1>. QED
  BY <1>1, DispatchInductive, PTL

-----------------------------------------------------------------------------
(* Every task goes through the life of TaskLifecycle                        *)
Stage == [t \in Task |-> queue[t].status]

Busy == {t \in Task : Running(t) # {}}

LEMMA StageMoves ==
    ASSUME NEW t \in Task, \A u \in Task \ {t} : queue'[u] = queue[u]
    PROVE  Stage' = [Stage EXCEPT ![t] = queue'[t].status]
BY DEF Stage

LEMMA BusyStays ==
    ASSUME \A w \in Worker : /\ worker'[w].life = "running" <=> worker[w].life = "running"
                             /\ worker[w].life = "running" => worker'[w].task = worker[w].task
    PROVE  Busy' = Busy
<1>1. \A t \in Task : Running(t)' = Running(t)
  BY DEF Running
<1>. QED
  BY <1>1 DEF Busy

LEMMA RunningOwns ==
    ASSUME DispatchInv, NEW w \in Worker, worker[w].life = "running"
    PROVE  /\ at[w] = "idle" /\ worker[w].task \in Task /\ Owns(w, worker[w].task)
           /\ queue[worker[w].task].status = "claimed"
<1>1. at[w] = "idle" /\ worker[w].task \in Task /\ w \in Routine
  BY Types DEF DispatchInv, Handles
<1>2. Owns(w, worker[w].task)
  BY <1>1 DEF Owns
<1>. QED
  BY <1>1, <1>2 DEF DispatchInv, Ownership

(* Nobody works on a task whose owner is not a running process.             *)
LEMMA NotBusy ==
    ASSUME DispatchInv, NEW t \in Task, NEW p \in Routine, Owns(p, t),
           p \in Worker => worker[p].life # "running"
    PROVE  t \notin Busy
<1>. SUFFICES ASSUME NEW w \in Worker, worker[w].life = "running", worker[w].task = t
              PROVE  FALSE
  BY DEF Busy, Running
<1>1. Owns(w, t) /\ w \in Routine
  BY RunningOwns, Types
<1>2. w = p
  BY <1>1 DEF DispatchInv, Ownership
<1>. QED
  BY <1>2

LEMMA UnclaimedNotBusy ==
    ASSUME DispatchInv, NEW t \in Task, queue[t].status # "claimed"
    PROVE  t \notin Busy
BY RunningOwns DEF Busy, Running

LEMMA ClaimIsClaim ==
    ASSUME DispatchInv, NEW t \in Task, queue[t].status = "pending",
           PlanDeps[t] \subseteq Completed(queue), queue' = ClaimTask(queue, t, Coordinator),
           worker' = worker
    PROVE  Lifecycle!Claim(t)
<1>1. Stage' = [Stage EXCEPT ![t] = "claimed"]
  BY ClaimHere, StageMoves
<1>2. Stage[t] = "pending" /\ t \notin Busy /\ Busy' = Busy
  BY UnclaimedNotBusy, BusyStays DEF Stage
<1>3. \A d \in PlanDeps[t] : d \in Task /\ Stage[d] = "complete"
  BY DEF Completed, WithStatus, Stage
<1>. QED
  BY <1>1, <1>2, <1>3 DEF Lifecycle!Claim, Lifecycle!Move, Stage, Busy

LEMMA StartIsBegin ==
    ASSUME DispatchInv, NEW t \in Task, NEW p \in Routine, Owns(p, t),
           p \in Worker => worker[p].life # "running",
           NEW n \in Worker, worker[n].life = "free",
           worker'[n].task = t, worker'[n].life = "running",
           \A w \in Worker \ {n} : /\ worker'[w].life = "running" <=> worker[w].life = "running"
                                   /\ worker[w].life = "running" => worker'[w].task = worker[w].task,
           queue' = queue
    PROVE  Lifecycle!Begin(t)
<1>1. t \notin Busy /\ queue[t].status = "claimed"
  BY NotBusy DEF DispatchInv, Ownership
<1>2. \A u \in Task \ {t} : Running(u)' = Running(u)
  BY DEF Running
<1>3. Running(t)' # {}
  BY DEF Running
<1>4. Busy' = Busy \cup {t}
  BY <1>2, <1>3 DEF Busy
<1>5. Stage' = Stage /\ Stage[t] = "claimed"
  BY <1>1 DEF Stage
<1>. QED
  BY <1>1, <1>4, <1>5 DEF Lifecycle!Begin, Stage, Busy

LEMMA ExitIsEnd ==
    ASSUME DispatchInv, NEW w \in Worker, Exit(w)
    PROVE  Lifecycle!End(worker[w].task)
<1>1. PICK life \in {"exited 0", "exited 1"} :
         /\ worker[w].life = "running" /\ worker' = [worker EXCEPT ![w].life = life]
         /\ queue' = queue
  BY DEF Exit
<1>2. PICK t \in Task : t = worker[w].task /\ Owns(w, t)
  BY <1>1, RunningOwns
<1>3. worker'[w].life # "running" /\ \A v \in Worker \ {w} : worker'[v] = worker[v]
  BY <1>1, Types DEF Process
<1>4. \A v \in Worker \ {w} : worker[v].life = "running" => worker[v].task # t
  <2>1. ASSUME NEW v \in Worker \ {w}, worker[v].life = "running", worker[v].task = t
        PROVE  FALSE
    <3>1. Owns(v, t) /\ v \in Routine /\ w \in Routine /\ v # w
      BY <2>1, RunningOwns, Types
    <3>. QED
      BY <1>2, <3>1 DEF DispatchInv, Ownership
  <2>. QED
    BY <2>1
<1>5. Running(t)' = {} /\ w \in Running(t)
  <2>1. ASSUME NEW v \in Worker, worker'[v].life = "running"
        PROVE  worker'[v].task # t
    <3>1. v # w
      BY <1>3, <2>1
    <3>2. worker'[v] = worker[v]
      BY <1>3, <3>1
    <3>. QED
      BY <1>4, <2>1, <3>1, <3>2
  <2>. QED
    BY <1>1, <1>2, <2>1 DEF Running
<1>6. \A u \in Task \ {t} : Running(u)' = Running(u)
  BY <1>2, <1>3 DEF Running
<1>7. Busy' = Busy \ {t} /\ t \in Busy /\ Stage' = Stage
  BY <1>1, <1>5, <1>6 DEF Busy, Stage
<1>. QED
  BY <1>2, <1>7 DEF Lifecycle!End, Stage, Busy

(* The owner settles or returns its task, and is not a running process.     *)
LEMMA SettlesIsMove ==
    ASSUME DispatchInv, NEW t \in Task, NEW p \in Routine, Owns(p, t),
           p \in Worker => worker[p].life # "running",
           \A u \in Task \ {t} : queue'[u] = queue[u],
           queue'[t].status \in {"complete", "failed", "pending"}, Busy' = Busy
    PROVE  Lifecycle!Complete(t) \/ Lifecycle!Fail(t) \/ Lifecycle!Return(t)
<1>1. t \notin Busy /\ queue[t].status = "claimed"
  BY NotBusy DEF DispatchInv, Ownership
<1>2. Stage' = [Stage EXCEPT ![t] = queue'[t].status] /\ Stage[t] = "claimed"
  BY <1>1, StageMoves DEF Stage
<1>. QED
  BY <1>1, <1>2 DEF Lifecycle!Complete, Lifecycle!Fail, Lifecycle!Return, Lifecycle!Move, Stage, Busy

LEMMA NothingHappens ==
    ASSUME queue' = queue, Busy' = Busy
    PROVE  UNCHANGED Lifecycle!vars
<1>1. Stage' = Stage
  BY DEF Stage
<1>. QED
  BY <1>1 DEF Lifecycle!vars, Stage, Busy

LEMMA FreedNotBusy ==
    ASSUME DispatchInv, NEW p \in Routine, p \in Worker => at[p] # "idle", worker' = Free(p)
    PROVE  Busy' = Busy
<1>1. worker \in [Worker -> Process] /\ (p \in Worker => worker[p].life # "running")
  BY RunningOwns, Types
<1>2. ASSUME NEW w \in Worker
      PROVE  /\ worker'[w].life = "running" <=> worker[w].life = "running"
             /\ worker[w].life = "running" => worker'[w].task = worker[w].task
  <2>1. CASE p = Loop
    BY <2>1 DEF Free
  <2>2. CASE p # Loop /\ w # p
    BY <1>1, <2>2 DEF Free, Routine
  <2>3. CASE p # Loop /\ w = p
    <3>1. worker'[w] = NoProcess
      BY <1>1, <2>3 DEF Free
    <3>. QED
      BY <1>1, <2>3, <3>1, NoProcessType
  <2>. QED
    BY <2>1, <2>2, <2>3
<1>. QED
  BY <1>2, BusyStays

LEMMA EndNotBusy ==
    ASSUME DispatchInv, NEW w \in Worker, at[w] # "idle", EndHandler(w)
    PROVE  Busy' = Busy
<1>1. w \in Routine
  BY Types
<1>2. CASE worker' = worker
  BY <1>2, BusyStays
<1>3. CASE worker' = Free(w)
  BY <1>1, <1>3, FreedNotBusy
<1>. QED
  BY <1>2, <1>3 DEF EndHandler

LEMMA SpawnStepLives ==
    ASSUME DispatchInv, NEW p \in Routine, SpawnStep(p)
    PROVE  (\E t \in Task : Lifecycle!Claim(t) \/ Lifecycle!Begin(t) \/ Lifecycle!Complete(t)
                            \/ Lifecycle!Fail(t) \/ Lifecycle!Return(t))
           \/ UNCHANGED Lifecycle!vars
<1>1. CASE BeginSpawn(p)
  <2>1. queue' = queue /\ (worker' = Free(p) \/ worker' = worker) /\ (p \in Worker => at[p] # "idle")
    BY <1>1, Types DEF BeginSpawn
  <2>. QED
    BY <2>1, FreedNotBusy, BusyStays, NothingHappens
<1>2. CASE Ask(p)
  <2>1. queue' = queue /\ (worker' = Free(p) \/ worker' = worker) /\ at[p] # "idle"
    BY <1>2 DEF Ask
  <2>. QED
    BY <2>1, FreedNotBusy, BusyStays, NothingHappens
<1>3. CASE ClaimNext(p)
  <2>1. /\ at[p] = "claim"
        /\ \/ /\ queue[job[p]].status = "pending" /\ worker' = worker
              /\ queue' = ClaimTask(queue, job[p], Coordinator)
           \/ queue' = queue /\ worker' = Free(p)
    BY <1>3 DEF ClaimNext
  <2>2. job[p] \in Task /\ PlanDeps[job[p]] \subseteq Completed(queue)
    <3>1. job[p] \in Task
      BY <2>1 DEF DispatchInv, Jobs
    <3>2. PlanDeps[job[p]] \subseteq Completed(queue)
      BY <2>1 DEF DispatchInv, HandedOut
    <3>. QED
      BY <3>1, <3>2
  <2>. QED
    BY <2>1, <2>2, ClaimIsClaim, FreedNotBusy, NothingHappens
<1>4. CASE StartNext(p)
  <2>1. /\ at[p] = "start" /\ queue' = queue
        /\ worker' = worker \/ (FreeWorkers # {} /\ Start(NewWorker, job[p], FALSE))
    BY <1>4 DEF StartNext
  <2>2. CASE worker' = worker
    BY <2>1, <2>2, BusyStays, NothingHappens
  <2>3. CASE FreeWorkers # {} /\ Start(NewWorker, job[p], FALSE)
    <3>1. PICK n \in Worker : n = NewWorker
      BY <2>3, NewWorkerIs
    <3>2. worker[n].life = "free"
      BY <2>3, <3>1, NewWorkerIs
    <3>3. PICK t \in Task : t = job[p] /\ Owns(p, t)
      BY <2>1 DEF DispatchInv, Jobs, Owns
    <3>4. /\ \A w \in Worker \ {n} : worker'[w] = worker[w]
          /\ worker'[n].task = t /\ worker'[n].life = "running"
      BY <2>3, <3>1, <3>3, StartEffect
    <3>5. p \in Worker => worker[p].life # "running"
      BY <2>1, RunningOwns
    <3>6. Lifecycle!Begin(t)
      BY <2>1, <3>2, <3>3, <3>4, <3>5, StartIsBegin
    <3>. QED
      BY <3>6
  <2>. QED
    BY <2>1, <2>2, <2>3
<1>5. CASE GiveBack(p)
  <2>1. /\ at[p] = "give back" /\ queue' = ReleaseTask(queue, job[p]) /\ worker' = Free(p)
    BY <1>5 DEF GiveBack
  <2>2. PICK t \in Task : t = job[p] /\ Owns(p, t)
    BY <2>1 DEF DispatchInv, Jobs, Owns
  <2>3. \A u \in Task \ {t} : queue'[u] = queue[u]
    BY <2>1, <2>2, ReleaseHere
  <2>4. queue'[t].status = "pending"
    BY <2>1, <2>2, ReleaseHere
  <2>5. Busy' = Busy /\ (p \in Worker => worker[p].life # "running")
    BY <2>1, FreedNotBusy, RunningOwns
  <2>6. Lifecycle!Complete(t) \/ Lifecycle!Fail(t) \/ Lifecycle!Return(t)
    BY <2>2, <2>3, <2>4, <2>5, SettlesIsMove
  <2>. QED
    BY <2>6
<1>6. CASE Register(p)
  <2>1. queue' = queue /\ worker' = Free(p) /\ at[p] # "idle"
    BY <1>6 DEF Register
  <2>. QED
    BY <2>1, FreedNotBusy, NothingHappens
<1>. QED
  BY <1>1, <1>2, <1>3, <1>4, <1>5, <1>6 DEF SpawnStep

LEMMA HandlerStepLives ==
    ASSUME DispatchInv, NEW w \in Worker, HandlerStep(w)
    PROVE  (\E t \in Task : Lifecycle!Claim(t) \/ Lifecycle!Begin(t) \/ Lifecycle!Complete(t)
                            \/ Lifecycle!Fail(t) \/ Lifecycle!Return(t))
           \/ UNCHANGED Lifecycle!vars
<1>1. CASE HandleExit(w)
  <2>1. queue' = queue /\ worker' = worker
    BY <1>1 DEF HandleExit
  <2>. QED
    BY <2>1, BusyStays, NothingHappens
<1>2. CASE CompleteTask(w) \/ AbandonTask(w) \/ ReleaseForRestart(w)
  <2>1. /\ at[w] \in {"complete", "abandon", "release"}
        /\ EndHandler(w) \/ worker' = worker
    BY <1>2 DEF CompleteTask, AbandonTask, ReleaseForRestart
  <2>2. PICK t \in Task : t = worker[w].task /\ Owns(w, t)
    BY <2>1, HandlersTask
  <2>3. \/ queue' = MarkTaskComplete(queue, t)
        \/ queue' = MarkTaskFailed(queue, t)
        \/ queue' = ReleaseTask(queue, t)
    BY <1>2, <2>2 DEF CompleteTask, AbandonTask, ReleaseForRestart
  <2>4. /\ \A u \in Task \ {t} : queue'[u] = queue[u]
        /\ queue'[t].status \in {"complete", "failed", "pending"}
    <3>1. CASE queue' = MarkTaskComplete(queue, t)
      BY <3>1, CompleteHere
    <3>2. CASE queue' = MarkTaskFailed(queue, t)
      BY <3>2, FailHere
    <3>3. CASE queue' = ReleaseTask(queue, t)
      BY <3>3, ReleaseHere
    <3>. QED
      BY <2>3, <3>1, <3>2, <3>3
  <2>5. Busy' = Busy /\ worker[w].life # "running" /\ w \in Routine
    BY <2>1, EndNotBusy, BusyStays, RunningOwns, Types
  <2>6. Lifecycle!Complete(t) \/ Lifecycle!Fail(t) \/ Lifecycle!Return(t)
    BY <2>2, <2>4, <2>5, SettlesIsMove
  <2>. QED
    BY <2>6
<1>3. CASE Reread(w)
  <2>1. queue' = queue /\ at[w] # "idle" /\ (EndHandler(w) \/ worker' = worker)
    BY <1>3 DEF Reread
  <2>. QED
    BY <2>1, EndNotBusy, BusyStays, NothingHappens
<1>4. CASE Reclaim(w)
  <2>1. PICK t \in Task : t = worker[w].task /\ PlanDeps[t] \subseteq Completed(queue)
    BY <1>4, HandlersTask DEF Reclaim
  <2>2. /\ at[w] # "idle"
        /\ \/ /\ queue[t].status = "pending" /\ worker' = worker
              /\ queue' = ClaimTask(queue, t, Coordinator)
           \/ queue' = queue /\ EndHandler(w)
    BY <1>4, <2>1 DEF Reclaim
  <2>. QED
    BY <2>1, <2>2, ClaimIsClaim, EndNotBusy, NothingHappens
<1>5. CASE Restart(w)
  <2>1. PICK n \in Worker : n = NewWorker /\ worker[n].life = "free"
    BY <1>5, NewWorkerIs DEF Restart
  <2>2. PICK t \in Task : t = worker[w].task /\ Owns(w, t)
    BY <1>5, HandlersTask DEF Restart
  <2>3. /\ w \in Routine /\ worker[w].life \in {"exited 0", "exited 1"} /\ n # w
        /\ worker \in [Worker -> Process]
    BY <1>5, <2>1, Types DEF Restart, DispatchInv, Handles
  <2>4. /\ queue' = queue
        /\ worker' = [worker EXCEPT
                ![n] = [task |-> worker[w].task, life |-> "running", initial |-> FALSE],
                ![w] = IF worker[w].initial THEN @ ELSE NoProcess]
    BY <1>5, <2>1 DEF Restart
  <2>5. PICK e \in Process : e = IF worker[w].initial THEN worker[w] ELSE NoProcess
    BY <2>3, NoProcessType
  <2>6. PICK r \in Process : r = [task |-> t, life |-> "running", initial |-> FALSE]
    BY DEF Process
  <2>7. worker' = [worker EXCEPT ![n] = r, ![w] = e]
    BY <2>2, <2>3, <2>4, <2>5, <2>6
  <2>8. worker'[n] = r /\ worker'[w] = e /\ \A v \in Worker \ {n, w} : worker'[v] = worker[v]
    BY <2>3, <2>7
  <2>9. e.life # "running"
    BY <2>3, <2>5, NoProcessType
  <2>10. \A v \in Worker \ {n} : /\ worker'[v].life = "running" <=> worker[v].life = "running"
                                 /\ worker[v].life = "running" => worker'[v].task = worker[v].task
    BY <2>3, <2>8, <2>9
  <2>11. worker'[n].task = t /\ worker'[n].life = "running" /\ worker[w].life # "running"
    <3>1. worker'[n] = [task |-> t, life |-> "running", initial |-> FALSE]
      BY <2>6, <2>8
    <3>2. worker[w].life # "running"
      BY <2>3
    <3>. QED
      BY <3>1, <3>2
  <2>12. Lifecycle!Begin(t)
    BY <2>1, <2>2, <2>3, <2>4, <2>10, <2>11, StartIsBegin
  <2>. QED
    BY <2>12
<1>. QED
  BY <1>1, <1>2, <1>3, <1>4, <1>5 DEF HandlerStep

(* Every task goes through the life the documentation promises: the         *)
(* coordinator's steps are steps of TaskLifecycle, or change nothing in it. *)
THEOREM RefinesLifecycle == Spec => TaskLife
<1>1. Init => Lifecycle!Init
  <2>. SUFFICES ASSUME Init
                PROVE  Lifecycle!Init
    OBVIOUS
  <2>1. queue = CreateFromPlan(NothingDone) /\ worker = [w \in Worker |-> NoProcess] /\ Plan = Task
    BY DispatchAssumption DEF Init
  <2>2. Stage = [t \in Task |-> "pending"]
    BY <2>1 DEF Stage, CreateFromPlan, NothingDone, NewEntry
  <2>3. Busy = {}
    BY <2>1, NoProcessType DEF Busy, Running
  <2>. QED
    BY <2>2, <2>3 DEF Lifecycle!Init, Stage, Busy
<1>2. DispatchInv /\ [Next]_vars => [Lifecycle!Next]_(Lifecycle!vars)
  <2>. SUFFICES ASSUME DispatchInv, [Next]_vars
                PROVE  Lifecycle!Next \/ UNCHANGED Lifecycle!vars
    OBVIOUS
  <2>1. CASE InitialClaim
    <3>1. PICK t \in NextTasks(queue) : queue' = ClaimTask(queue, t, Coordinator) /\ worker' = worker
      BY <2>1 DEF InitialClaim
    <3>2. t \in Task /\ Lifecycle!Claim(t)
      BY <3>1, NextTaskIs, ClaimIsClaim
    <3>. QED
      BY <3>2 DEF Lifecycle!Next
  <2>2. CASE InitialStart
    <3>1. /\ at[Loop] = "first" /\ queue' = queue /\ FreeWorkers # {}
          /\ Start(NewWorker, job[Loop], TRUE)
      BY <2>2 DEF InitialStart
    <3>2. PICK n \in Worker : n = NewWorker /\ worker[n].life = "free"
      BY <3>1, NewWorkerIs
    <3>3. PICK t \in Task : t = job[Loop] /\ Owns(Loop, t)
      BY <3>1, Types DEF DispatchInv, Jobs, Owns
    <3>4. /\ \A w \in Worker \ {n} : worker'[w] = worker[w]
          /\ worker'[n].task = t /\ worker'[n].life = "running"
      BY <3>1, <3>2, <3>3, StartEffect
    <3>5. Lifecycle!Begin(t)
      BY <3>1, <3>2, <3>3, <3>4, Types, StartIsBegin
    <3>. QED
      BY <3>5 DEF Lifecycle!Next
  <2>3. CASE EndOfBatch
    <3>1. queue' = queue /\ worker' = worker
      BY <2>3 DEF EndOfBatch
    <3>. QED
      BY <3>1, BusyStays, NothingHappens
  <2>4. ASSUME NEW p \in Routine, SpawnStep(p)
        PROVE  Lifecycle!Next \/ UNCHANGED Lifecycle!vars
    BY <2>4, SpawnStepLives DEF Lifecycle!Next
  <2>5. ASSUME NEW w \in Worker, HandlerStep(w)
        PROVE  Lifecycle!Next \/ UNCHANGED Lifecycle!vars
    BY <2>5, HandlerStepLives DEF Lifecycle!Next
  <2>6. ASSUME NEW w \in Worker, Exit(w)
        PROVE  Lifecycle!Next
    <3>1. Lifecycle!End(worker[w].task)
      BY <2>6, ExitIsEnd
    <3>2. worker[w].task \in Task
      BY <2>6, RunningOwns DEF Exit
    <3>. QED
      BY <3>1, <3>2 DEF Lifecycle!Next
  <2>7. CASE UNCHANGED vars
    <3>1. queue' = queue /\ worker' = worker
      BY <2>7 DEF vars
    <3>. QED
      BY <3>1, BusyStays, NothingHappens
  <2>. QED
    BY <2>1, <2>2, <2>3, <2>4, <2>5, <2>6, <2>7 DEF Next, Terminated
<1>. QED
  BY <1>1, <1>2, DispatchInductive, PTL DEF Spec, TaskLife, Lifecycle!Spec
=============================================================================
