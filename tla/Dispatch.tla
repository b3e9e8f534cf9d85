------------------------------ MODULE Dispatch ------------------------------
(***************************************************************************)
(* spawn_from_queue (src/coordinate/coordinator-tools/index.ts): one        *)
(* coroutine loops over "spawn a worker for the next task", every worker    *)
(* exit runs a handler of its own, and all of them share the handle map and *)
(* the task queue.  Each step below is the code between two awaits, or one  *)
(* queue operation made while awaiting.                                     *)
(*                                                                          *)
(* Workers are processes.  The supervisor is off (enableSupervisor: false). *)
(***************************************************************************)
EXTENDS QueueOps

CONSTANTS
    Worker,          \* bound: ids for worker processes; free ones are used again
    Loop,            \* the coroutine of the dynamic spawning loop
    NoWorker,
    Coordinator,     \* the one identity that claims tasks
    MaxWorkers,      \* parameter maxWorkers
    RestartLimit,    \* restarts of a task by the exit handler (2 in the code)
    MaxNoProgress,   \* rounds without progress before the loop gives up (60)
    SpawnFailures,   \* bound: how often starting a process fails
    Outcomes         \* how a worker process may end

ASSUME DispatchAssumption ==
    /\ NoWorker \notin Worker /\ Loop \notin Worker
    /\ Coordinator \in Identity
    /\ MaxWorkers \in Nat \ {0}
    /\ {RestartLimit, MaxNoProgress, SpawnFailures} \subseteq Nat
    /\ MaxNoProgress > SpawnFailures + 1   \* 60 rounds outlast the failures counted here
    /\ Outcomes \subseteq {"finished", "gave up", "killed"}
    /\ Plan = Task                         \* nothing here discovers a task

VARIABLES
    queue,       \* tasks.json
    phase,       \* "initial" batch, "dispatching", or "done"
    worker,      \* the processes: task, life, and whether of the initial batch
    active,      \* activeHandles
    restarts,    \* restartCounts
    at,          \* where each coroutine is: the loop, and the handler of each worker
    job,         \* the task it has been given by getNextTask
    fresh,       \* the process it has started but not registered
    noProgress,  \* noProgressCount
    finished,    \* tasks whose worker really ended its work (not in the code)
    failures     \* how many spawns have failed

vars == <<queue, phase, worker, active, restarts, at, job, fresh, noProgress,
          finished, failures>>

Routine == {Loop} \cup Worker

FreeWorkers == {w \in Worker : worker[w].life = "free"}

(* Free ids are interchangeable: a new process takes any one of them.       *)
NewWorker == CHOOSE w \in FreeWorkers : TRUE

Running(t) == {w \in Worker : worker[w].life = "running" /\ worker[w].task = t}

InFlight == {w \in Worker : at[w] # "idle"}

NoProcess == [task |-> NoTask, life |-> "free", initial |-> FALSE]

Full == Cardinality(active) >= MaxWorkers

Init ==
    /\ queue = CreateFromPlan(NothingDone)
    /\ phase = "initial"
    /\ worker = [w \in Worker |-> NoProcess]
    /\ active = {}
    /\ restarts = [t \in Task |-> 0]
    /\ at = [p \in Routine |-> "idle"]
    /\ job = [p \in Routine |-> NoTask]
    /\ fresh = [p \in Routine |-> NoWorker]
    /\ noProgress = 0
    /\ finished = {}
    /\ failures = 0

-----------------------------------------------------------------------------
(***************************************************************************)
(* Worker processes                                                         *)
(***************************************************************************)
Start(w, t, initial) ==
    worker' = [worker EXCEPT ![w] = [task |-> t, life |-> "running", initial |-> initial]]

(* What `code ?? 0` makes of an exit: a signal reports no code.             *)
ExitCode(outcome) ==
    CASE outcome = "finished" -> 0
      [] outcome = "gave up"  -> 1
      [] outcome = "killed"   -> 0

(* The process ends; its promise resolves with the exit code.               *)
Exit(w) ==
    /\ worker[w].life = "running"
    /\ \E outcome \in Outcomes :
          /\ worker' = [worker EXCEPT ![w].life = IF ExitCode(outcome) = 0
                                                 THEN "exited 0" ELSE "exited 1"]
          /\ finished' = IF outcome = "finished" THEN finished \cup {worker[w].task}
                                                 ELSE finished
    /\ UNCHANGED <<queue, phase, active, restarts, at, job, fresh, noProgress, failures>>

-----------------------------------------------------------------------------
(***************************************************************************)
(* The initial batch: nobody else uses the queue or the handles yet, and    *)
(* the exit handlers are attached when it is over.                          *)
(***************************************************************************)
InitialClaim ==
    /\ phase = "initial"
    /\ at[Loop] = "idle"
    /\ ~Full
    /\ \E t \in NextTasks(queue) :
          /\ queue' = ClaimTask(queue, t, Coordinator)
          /\ job' = [job EXCEPT ![Loop] = t]
    /\ at' = [at EXCEPT ![Loop] = "first"]
    /\ UNCHANGED <<phase, worker, active, restarts, fresh, noProgress, finished, failures>>

InitialStart ==
    /\ at[Loop] = "first"
    /\ FreeWorkers # {}
    /\ Start(NewWorker, job[Loop], TRUE)
    /\ active' = active \cup {NewWorker}
    /\ at' = [at EXCEPT ![Loop] = "idle"]
    /\ job' = [job EXCEPT ![Loop] = NoTask]
    /\ UNCHANGED <<queue, phase, restarts, fresh, noProgress, finished, failures>>

EndOfBatch ==
    /\ phase = "initial"
    /\ at[Loop] = "idle"
    /\ Full \/ Available(queue) = {}
    /\ phase' = IF active = {} THEN "done" ELSE "dispatching"
    /\ UNCHANGED <<queue, worker, active, restarts, at, job, fresh, noProgress,
                   finished, failures>>

-----------------------------------------------------------------------------
(***************************************************************************)
(* maybeSpawnNextWorker, run by the loop and by the exit handlers of the    *)
(* initial batch.                                                           *)
(***************************************************************************)
Goto(p, label) == at' = [at EXCEPT ![p] = label]

(* Bug: a round counts although workers are active.                         *)
ReturnImpatient(p, spawned) ==
    /\ Goto(p, "idle")
    /\ IF p = Loop
       THEN /\ noProgress' = IF spawned THEN 0 ELSE noProgress + 1
            /\ phase' = IF noProgress' >= MaxNoProgress THEN "done" ELSE phase
       ELSE UNCHANGED <<noProgress, phase>>

(* Bug: the loop goes on as long as a task is pending.                      *)
ReturnHopeful(p, spawned) ==
    /\ Goto(p, "idle")
    /\ IF p = Loop
       THEN /\ noProgress' = IF active # {} \/ spawned \/ WithStatus(queue, "pending") # {}
                             THEN 0 ELSE noProgress + 1
            /\ phase' = IF noProgress' >= MaxNoProgress THEN "done" ELSE phase
       ELSE UNCHANGED <<noProgress, phase>>

(* maybeSpawnNextWorker returns to its caller.  A handler is over.  The     *)
(* loop counts a round without progress; its 60 rounds take 30 s, and the   *)
(* model assumes that no handler takes longer: a round that a handler       *)
(* overlaps does not count.                                                 *)
Return(p, spawned) ==
    /\ Goto(p, "idle")
    /\ IF p = Loop
       THEN /\ noProgress' = IF active # {} \/ spawned THEN 0
                             ELSE IF InFlight = {} THEN noProgress + 1
                             ELSE noProgress
            /\ phase' = IF noProgress' >= MaxNoProgress THEN "done" ELSE phase
       ELSE UNCHANGED <<noProgress, phase>>

Free(p) == IF p = Loop THEN worker ELSE [worker EXCEPT ![p] = NoProcess]

BeginSpawn(p) ==
    /\ phase = "dispatching"
    /\ at[p] = IF p = Loop THEN "idle" ELSE "spawn"
    /\ IF Full
       THEN Return(p, FALSE) /\ worker' = Free(p)
       ELSE Goto(p, "ask") /\ UNCHANGED <<noProgress, phase, worker>>
    /\ UNCHANGED <<queue, active, restarts, job, fresh, finished, failures>>

Ask(p) ==
    /\ at[p] = "ask"
    /\ \/ /\ Available(queue) = {}
          /\ Return(p, FALSE)
          /\ worker' = Free(p)
          /\ UNCHANGED job
       \/ /\ \E t \in NextTasks(queue) : job' = [job EXCEPT ![p] = t]
          /\ Goto(p, "claim")
          /\ UNCHANGED <<noProgress, phase, worker>>
    /\ UNCHANGED <<queue, active, restarts, fresh, finished, failures>>

(* Bug: the answer of claimTask is ignored.                                 *)
ClaimNextBlindly(p) ==
    /\ at[p] = "claim"
    /\ queue' = IF queue[job[p]].status = "pending"
                THEN ClaimTask(queue, job[p], Coordinator) ELSE queue
    /\ Goto(p, "start")
    /\ UNCHANGED <<phase, worker, active, restarts, job, fresh, noProgress, finished, failures>>

(* The size is checked again; then claimTask may find the task taken.       *)
ClaimNext(p) ==
    /\ at[p] = "claim"
    /\ IF ~Full /\ queue[job[p]].status = "pending"
       THEN /\ queue' = ClaimTask(queue, job[p], Coordinator)
            /\ Goto(p, "start")
            /\ UNCHANGED <<noProgress, phase, worker, job>>
       ELSE /\ Return(p, FALSE)
            /\ worker' = Free(p)
            /\ job' = [job EXCEPT ![p] = NoTask]
            /\ UNCHANGED queue
    /\ UNCHANGED <<active, restarts, fresh, finished, failures>>

(* The last check of the size, then the process: it runs from here on, but  *)
(* activeHandles does not know it yet.                                      *)
StartNext(p) ==
    /\ at[p] = "start"
    /\ \/ /\ ~Full
          /\ FreeWorkers # {}
          /\ Start(NewWorker, job[p], FALSE)
          /\ fresh' = [fresh EXCEPT ![p] = NewWorker]
          /\ Goto(p, "register")
          /\ UNCHANGED failures
       \/ /\ Full
          /\ Goto(p, "give back")
          /\ UNCHANGED <<worker, fresh, failures>>
       \/ /\ ~Full
          /\ failures < SpawnFailures
          /\ failures' = failures + 1
          /\ Goto(p, "give back")
          /\ UNCHANGED <<worker, fresh>>
    /\ UNCHANGED <<queue, phase, active, restarts, job, noProgress, finished>>

GiveBack(p) ==
    /\ at[p] = "give back"
    /\ queue' = ReleaseTask(queue, job[p])
    /\ job' = [job EXCEPT ![p] = NoTask]
    /\ UNCHANGED active
    /\ Return(p, FALSE)
    /\ worker' = Free(p)
    /\ UNCHANGED <<restarts, fresh, finished, failures>>

(* The coordinator's context is saved and the handle registered.            *)
Register(p) ==
    /\ at[p] = "register"
    /\ active' = active \cup {fresh[p]}
    /\ fresh' = [fresh EXCEPT ![p] = NoWorker]
    /\ job' = [job EXCEPT ![p] = NoTask]
    /\ Return(p, TRUE)
    /\ worker' = Free(p)
    /\ UNCHANGED <<queue, restarts, finished, failures>>

-----------------------------------------------------------------------------
(***************************************************************************)
(* processWorkerExit                                                        *)
(***************************************************************************)
(* Bug: one restart fewer.                                                  *)
MayRestartLess(count) == count < RestartLimit

MayRestart(count) == count <= RestartLimit

(* Bug: the handle stays registered.                                        *)
HandleExitQuietly(w) ==
    /\ phase = "dispatching"
    /\ w \in active
    /\ at[w] = "idle"
    /\ worker[w].life = "exited 0"
    /\ Goto(w, "complete")
    /\ UNCHANGED <<queue, phase, worker, active, restarts, job, fresh, noProgress, finished,
                   failures>>

(* Up to its first await: the handle goes, a failed attempt is counted.     *)
HandleExit(w) ==
    /\ phase = "dispatching"
    /\ w \in active
    /\ at[w] = "idle"
    /\ worker[w].life \in {"exited 0", "exited 1"}
    /\ active' = active \ {w}
    /\ LET t == worker[w].task
       IN  IF worker[w].life = "exited 0"
           THEN Goto(w, "complete") /\ UNCHANGED restarts
           ELSE /\ restarts' = [restarts EXCEPT ![t] = @ + 1]
                /\ Goto(w, IF MayRestart(restarts[t] + 1) THEN "release" ELSE "abandon")
    /\ UNCHANGED <<queue, phase, worker, job, fresh, noProgress, finished, failures>>

(* The handler is over: one of the initial batch goes on to spawn.          *)
EndHandler(w) ==
    IF worker[w].initial
    THEN Goto(w, "spawn") /\ UNCHANGED worker
    ELSE Goto(w, "idle") /\ worker' = Free(w)

CompleteTask(w) ==
    /\ at[w] = "complete"
    /\ queue' = MarkTaskComplete(queue, worker[w].task)
    /\ EndHandler(w)
    /\ UNCHANGED <<phase, active, restarts, job, fresh, noProgress, finished, failures>>

AbandonTask(w) ==
    /\ at[w] = "abandon"
    /\ queue' = MarkTaskFailed(queue, worker[w].task)
    /\ EndHandler(w)
    /\ UNCHANGED <<phase, active, restarts, job, fresh, noProgress, finished, failures>>

(* A restart releases the task, reads it back and claims it again: another  *)
(* coroutine may take the task in between.                                  *)
ReleaseForRestart(w) ==
    /\ at[w] = "release"
    /\ queue' = ReleaseTask(queue, worker[w].task)
    /\ Goto(w, "reread")
    /\ UNCHANGED <<phase, worker, active, restarts, job, fresh, noProgress, finished, failures>>

Reread(w) ==
    /\ at[w] = "reread"
    /\ IF queue[worker[w].task].status = "pending"
       THEN Goto(w, "reclaim") /\ UNCHANGED worker
       ELSE EndHandler(w)
    /\ UNCHANGED <<queue, phase, active, restarts, job, fresh, noProgress, finished, failures>>

Reclaim(w) ==
    /\ at[w] = "reclaim"
    /\ IF queue[worker[w].task].status = "pending"
       THEN /\ queue' = ClaimTask(queue, worker[w].task, Coordinator)
            /\ Goto(w, "restart")
            /\ UNCHANGED worker
       ELSE /\ EndHandler(w)
            /\ UNCHANGED queue
    /\ UNCHANGED <<phase, active, restarts, job, fresh, noProgress, finished, failures>>

(* The new process is started and registered without an await in between,   *)
(* and without a look at maxWorkers.                                        *)
Restart(w) ==
    /\ at[w] = "restart"
    /\ FreeWorkers # {}
    /\ active' = active \cup {NewWorker}
    /\ worker' = [worker EXCEPT
                ![NewWorker] = [task |-> worker[w].task, life |-> "running", initial |-> FALSE],
                ![w] = IF worker[w].initial THEN @ ELSE NoProcess]
    /\ Goto(w, IF worker[w].initial THEN "spawn" ELSE "idle")
    /\ UNCHANGED <<queue, phase, restarts, job, fresh, noProgress, finished, failures>>

-----------------------------------------------------------------------------
SpawnStep(p) ==
    BeginSpawn(p) \/ Ask(p) \/ ClaimNext(p) \/ StartNext(p) \/ GiveBack(p) \/ Register(p)

HandlerStep(w) ==
    \/ HandleExit(w) \/ CompleteTask(w) \/ AbandonTask(w)
    \/ ReleaseForRestart(w) \/ Reread(w) \/ Reclaim(w) \/ Restart(w)

(* spawn_from_queue has returned.                                           *)
Terminated == phase = "done" /\ UNCHANGED vars

Next ==
    \/ InitialClaim \/ InitialStart \/ EndOfBatch
    \/ \E p \in Routine : SpawnStep(p)
    \/ \E w \in Worker : HandlerStep(w) \/ Exit(w)
    \/ Terminated

(* Every coroutine is eventually resumed, and every worker process ends:    *)
(* nothing here stops one that does not.                                    *)
Fairness ==
    /\ WF_vars(InitialClaim \/ InitialStart \/ EndOfBatch)
    /\ \A p \in Routine : WF_vars(SpawnStep(p))
    /\ \A w \in Worker : WF_vars(HandlerStep(w)) /\ WF_vars(Exit(w))

Spec == Init /\ [][Next]_vars /\ Fairness

-----------------------------------------------------------------------------
(***************************************************************************)
(* Properties                                                               *)
(***************************************************************************)
Label == {"idle", "first", "spawn", "ask", "claim", "start", "give back", "register", "complete",
          "abandon", "release", "reread", "reclaim", "restart"}

(* The coordinator's tables hold what they are declared to hold, and a      *)
(* registered handle is one of a process that was started.                  *)
TypeOK ==
    /\ queue \in [Task -> Entry]
    /\ phase \in {"initial", "dispatching", "done"}
    /\ worker \in [Worker -> [task    : Task \cup {NoTask},
                              life    : {"free", "running", "exited 0", "exited 1"},
                              initial : BOOLEAN]]
    /\ active \in SUBSET (Worker \ FreeWorkers)
    /\ restarts \in [Task -> Nat]
    /\ at \in [Routine -> Label]
    /\ job \in [Routine -> Task \cup {NoTask}]
    /\ fresh \in [Routine -> Worker \cup {NoWorker}]
    /\ noProgress \in 0..MaxNoProgress
    /\ finished \subseteq Task
    /\ failures \in 0..SpawnFailures

(* A worker owns its task until its exit handler has settled or released    *)
(* it; a coroutine owns the task it has claimed until the process is        *)
(* started.                                                                 *)
Owners(t) ==
    {w \in Worker : /\ worker[w].task = t
                    /\ worker[w].life # "free"
                    /\ at[w] \in {"idle", "complete", "abandon", "release", "restart"}}
    \cup {p \in Routine : job[p] = t /\ at[p] \in {"first", "start", "give back"}}

(* A claimed task has exactly one owner, and no other task has any: no task *)
(* is worked on twice at once, none is claimed with nobody to settle it,    *)
(* and no coroutine can still complete, fail or release a task that is not  *)
(* its own any more.                                                        *)
ExactlyOneOwner ==
    \A t \in Task :
        Cardinality(Owners(t)) = IF queue[t].status = "claimed" THEN 1 ELSE 0

(* A task is given up only after every attempt it is due: RestartLimit      *)
(* restarts by the exit handler, and MaxRestarts failures in the queue.     *)
FailedHadEveryAttempt ==
    \A t \in WithStatus(queue, "failed") : restarts[t] >= RestartLimit + MaxRestarts

(* When the tool returns, no worker is running, no task is claimed, and no  *)
(* task is left that could still be worked on.                              *)
NothingLeftBehind ==
    phase = "done" => /\ \A w \in Worker : worker[w].life = "free"
                      /\ WithStatus(queue, "claimed") = {}
                      /\ Available(queue) = {}

(* The tool returns: the loop does not wait for ever, whatever tasks cannot *)
(* run because a dependency has failed.                                     *)
Termination == <>(phase = "done")

Lifecycle == INSTANCE TaskLifecycle WITH
    Deps  <- PlanDeps,
    stage <- [t \in Task |-> queue[t].status],
    busy  <- {t \in Task : Running(t) # {}}

(* Every task goes through the life the documentation promises.             *)
TaskLife == Lifecycle!Spec

(* "be strict about maxWorkers": no more handles than maxWorkers.           *)
WithinMaxWorkers == Cardinality(active) <= MaxWorkers

(* A complete task is one whose worker ended its work, not one whose worker *)
(* was killed.                                                              *)
CompletedWorkWasDone == Completed(queue) \subseteq finished
=============================================================================
