---------------------------- MODULE Supervision ----------------------------
(***************************************************************************)
(* The supervisor of spawn_from_queue (src/coordinate/supervisor.ts), the   *)
(* workers it watches (src/worker.ts, coordinator-tools/sdk-worker.ts), the *)
(* nudge files between them, and the exit handlers that settle a worker's   *)
(* task: three parties that change the same queue.                          *)
(*                                                                          *)
(* Time is abstract: a worker's silence passes the nudge threshold and then *)
(* the restart threshold; a claim grows stale.  A tick ends before the next *)
(* is due.  How tasks are handed out is module Dispatch's subject: here a   *)
(* free slot is filled in one step.                                         *)
(***************************************************************************)
EXTENDS QueueOps, Sequences

CONSTANTS
    Worker,       \* ids of workers, used once
    Coordinator,  \* the one identity that claims tasks
    MaxWorkers,   \* parameter maxWorkers
    RestartLimit, \* restarts of a task by the exit handler (2 in the code)
    First,        \* the task of the initial batch
    Orphans,      \* tasks that an earlier, interrupted call left claimed
    Kinds         \* how workers may run: "process", "sdk"

ASSUME SupervisionAssumption ==
    /\ Coordinator \in Identity
    /\ Worker # {}
    /\ MaxWorkers \in Nat \ {0} /\ RestartLimit \in Nat
    /\ First \in Plan /\ Orphans \subseteq Plan \ {First}
    /\ Kinds \subseteq {"process", "sdk"}

VARIABLES
    kind,      \* useSDKWorkers, for the whole run
    queue,     \* tasks.json
    worker,    \* the workers: see WorkerRecord
    nudges,    \* nudge files: what orders the worker to end
    tracker,   \* the supervisor's table
    silence,   \* 0, 1: past the nudge threshold, 2: past the restart threshold
    stale,     \* tasks claimed for longer than staleTaskTimeoutMs
    tick,      \* where checkAllWorkers is, and with which worker
    todo,      \* the workers it has not looked at yet
    stopped,   \* the interval is cleared
    restarts,  \* restartCounts of the exit handlers
    handler    \* where the exit handler of each worker is

vars == <<kind, queue, worker, nudges, tracker, silence, stale, tick, todo,
          stopped, restarts, handler>>

WorkerRecord == [life : {"none", "running", "exited"},
                 task : Task \cup {NoTask},
                 code : {0, 1, 42},
                 told : BOOLEAN]    \* signalled or aborted

TrackerRecord == [there : BOOLEAN, restarts : Nat, nudged : BOOLEAN]

NotStarted == [life |-> "none", task |-> NoTask, code |-> 0, told |-> FALSE]

Untracked == [there |-> FALSE, restarts |-> 0, nudged |-> FALSE]

Running(w) == worker[w].life = "running"

Active == {w \in Worker : worker[w].life # "none" /\ handler[w] = "idle"}

Unstarted == {w \in Worker : worker[w].life = "none"}

(* Ids are interchangeable: the next process takes any one.                 *)
NewWorker == CHOOSE w \in Unstarted : TRUE

NewProcess(t) == [NotStarted EXCEPT !.life = "running", !.task = t]

Tracked == [Untracked EXCEPT !.there = TRUE]

(* The first task has been claimed and its worker started; the supervisor   *)
(* begins with its startup cleanup.                                         *)
Init ==
    LET w == CHOOSE w \in Worker : TRUE
        plan == CreateFromPlan(NothingDone)
    IN  /\ kind \in Kinds
        /\ queue = [t \in Task |-> IF t \in Orphans \cup {First}
                                   THEN ClaimTask(plan, t, Coordinator)[t]
                                   ELSE plan[t]]
        /\ worker = [v \in Worker |-> IF v = w THEN NewProcess(First) ELSE NotStarted]
        /\ nudges = [v \in Worker |-> << >>]
        /\ tracker = [v \in Worker |-> IF v = w THEN Tracked ELSE Untracked]
        /\ silence = [v \in Worker |-> 0]
        /\ stale = {}
        /\ tick = [at |-> "cleanup", on |-> NoOne]
        /\ todo = {}
        /\ stopped = FALSE
        /\ restarts = [t \in Task |-> 0]
        /\ handler = [v \in Worker |-> "idle"]

(* tasks.json is written; a task that is not claimed has no claim to grow   *)
(* stale.                                                                   *)
Write(q) ==
    /\ queue' = q
    /\ stale' = {t \in stale : q[t].status = "claimed"}

-----------------------------------------------------------------------------
(***************************************************************************)
(* Workers                                                                  *)
(***************************************************************************)
(* A new process: claimed, started and in the supervisor's table, whether   *)
(* the supervisor still runs or not.                                        *)
Start(t) ==
    /\ worker' = [worker EXCEPT ![NewWorker] = NewProcess(t)]
    /\ tracker' = [tracker EXCEPT ![NewWorker] = Tracked]

Spawn(t) ==
    /\ Unstarted # {}
    /\ Cardinality(Active) < MaxWorkers
    /\ t \in NextTasks(queue)
    /\ Write(ClaimTask(queue, t, Coordinator))
    /\ Start(t)
    /\ UNCHANGED <<kind, nudges, silence, tick, todo, stopped, restarts, handler>>

Ended(w, code) == [w EXCEPT !.life = "exited", !.code = code, !.told = FALSE]

FirstOf(read, types) ==
    LET hits == {i \in 1..Len(read) : read[i] \in types}
    IN  IF hits = {} THEN "none"
        ELSE read[CHOOSE i \in hits : \A j \in hits : i <= j]

(* turn_start reads the nudge file and removes it: what was added in        *)
(* between is lost.  A process obeys "restart" and "abort" by exiting, an   *)
(* SDK worker "abort" by aborting its session.                              *)
Turn(w) ==
    /\ Running(w)
    /\ \E k \in 0..Len(nudges[w]) :
          LET read  == SubSeq(nudges[w], 1, k)
              order == FirstOf(read, {"restart", "abort"})
          IN  worker' = [worker EXCEPT ![w] =
                IF kind = "process" /\ order = "restart" THEN Ended(@, 42)
                ELSE IF kind = "process" /\ order = "abort" THEN Ended(@, 1)
                ELSE IF kind = "sdk" /\ FirstOf(read, {"abort"}) = "abort"
                     THEN [@ EXCEPT !.told = TRUE]
                ELSE @]
    /\ nudges' = [nudges EXCEPT ![w] = << >>]
    /\ silence' = [silence EXCEPT ![w] = 0]
    /\ tracker' = [tracker EXCEPT ![w].nudged = FALSE]
    /\ UNCHANGED <<kind, queue, stale, tick, todo, stopped, restarts, handler>>

(* Time passes without a sign of the worker.                                *)
Silence(w) ==
    /\ Running(w) /\ silence[w] < 2
    /\ silence' = [silence EXCEPT ![w] = @ + 1]
    /\ UNCHANGED <<kind, queue, worker, nudges, tracker, stale, tick, todo, stopped,
                   restarts, handler>>

(* A signal leaves no exit code, which counts as 0; an aborted session ends *)
(* with 1.                                                                  *)
ExitCodes(w) == IF ~worker[w].told THEN {0, 1}
                ELSE IF kind = "process" THEN {0} ELSE {1}

Exit(w) ==
    /\ Running(w)
    /\ \E code \in ExitCodes(w) : worker' = [worker EXCEPT ![w] = Ended(@, code)]
    /\ nudges' = [nudges EXCEPT ![w] = << >>]
    /\ UNCHANGED <<kind, queue, silence, tracker, stale, tick, todo, stopped, restarts, handler>>

-----------------------------------------------------------------------------
(***************************************************************************)
(* The exit handler of a worker                                             *)
(***************************************************************************)
Settle(w, label) == handler' = [handler EXCEPT ![w] = label]

HandleExit(w) ==
    /\ worker[w].life = "exited" /\ handler[w] = "idle"
    /\ tracker' = [tracker EXCEPT ![w] = Untracked]
    /\ silence' = [silence EXCEPT ![w] = 0]
    /\ LET t == worker[w].task
       IN  IF worker[w].code = 0
           THEN Settle(w, "complete") /\ UNCHANGED restarts
           ELSE /\ restarts' = [restarts EXCEPT ![t] = @ + 1]
                /\ Settle(w, IF restarts[t] < RestartLimit THEN "release" ELSE "abandon")
    /\ worker' = [worker EXCEPT ![w].code = 0]
    /\ UNCHANGED <<kind, queue, nudges, stale, tick, todo, stopped>>

CompleteTask(w) ==
    /\ handler[w] = "complete"
    /\ Write(MarkTaskComplete(queue, worker[w].task))
    /\ Settle(w, "done")
    /\ UNCHANGED <<kind, worker, nudges, tracker, silence, tick, todo, stopped, restarts>>

AbandonTask(w) ==
    /\ handler[w] = "abandon"
    /\ Write(MarkTaskFailed(queue, worker[w].task))
    /\ Settle(w, "done")
    /\ UNCHANGED <<kind, worker, nudges, tracker, silence, tick, todo, stopped,
                   restarts>>

ReleaseForRestart(w) ==
    /\ handler[w] = "release"
    /\ Write(ReleaseTask(queue, worker[w].task))
    /\ Settle(w, "reclaim")
    /\ UNCHANGED <<kind, worker, nudges, tracker, silence, tick, todo, stopped,
                   restarts>>

(* Bug: the task is claimed for a worker that is never started.             *)
ReclaimOnly(w) ==
    /\ handler[w] = "reclaim"
    /\ IF queue[worker[w].task].status = "pending"
       THEN Write(ClaimTask(queue, worker[w].task, Coordinator))
       ELSE UNCHANGED <<queue, stale>>
    /\ Settle(w, "done")
    /\ UNCHANGED <<kind, worker, tracker, nudges, silence, tick, todo, stopped, restarts>>

(* The task is claimed again, if nobody else has taken it.                  *)
Reclaim(w) ==
    /\ handler[w] = "reclaim"
    /\ \/ /\ queue[worker[w].task].status = "pending"
          /\ Unstarted # {}
          /\ Write(ClaimTask(queue, worker[w].task, Coordinator))
          /\ Start(worker[w].task)
       \/ /\ queue[worker[w].task].status # "pending"
          /\ UNCHANGED <<queue, stale, worker, tracker>>
    /\ Settle(w, "done")
    /\ UNCHANGED <<kind, nudges, silence, tick, todo, stopped, restarts>>

-----------------------------------------------------------------------------
(***************************************************************************)
(* The supervisor's tick                                                    *)
(***************************************************************************)
Goto(label, w) == tick' = [at |-> label, on |-> w]

TickBegins ==
    /\ tick.at = "idle" /\ ~stopped
    /\ todo' = {w \in Worker : tracker[w].there}
    /\ Goto("scan", NoOne)
    /\ UNCHANGED <<kind, queue, worker, nudges, tracker, silence, stale, stopped,
                   restarts, handler>>

(* isHandleAlive: a process that a signal was sent to counts as dead; an    *)
(* SDK worker is alive until its exit handler has removed it.               *)
Alive(w) == kind = "sdk" \/ (Running(w) /\ ~worker[w].told)

(* Bug: whoever was nudged is left alone.                                   *)
LookOnce(w) ==
    /\ tick.at = "scan"
    /\ w \in todo
    /\ todo' = todo \ {w}
    /\ IF tracker[w].there /\ Alive(w) /\ silence[w] >= 1 /\ ~tracker[w].nudged
       THEN Goto("wrap up", w)
       ELSE UNCHANGED tick
    /\ UNCHANGED <<kind, queue, worker, nudges, tracker, silence, stale, stopped, restarts,
                   handler>>

(* Bug: a stuck worker is asked to restart again and again.                 *)
LookForEver(w) ==
    /\ tick.at = "scan"
    /\ w \in todo
    /\ todo' = todo \ {w}
    /\ IF tracker[w].there /\ Alive(w) /\ silence[w] = 2
       THEN /\ tracker' = [tracker EXCEPT ![w].restarts = @ + 1]
            /\ Goto("restart", w)
       ELSE UNCHANGED <<tracker, tick>>
    /\ UNCHANGED <<kind, queue, worker, nudges, silence, stale, stopped, restarts, handler>>

Look(w) ==
    /\ tick.at = "scan"
    /\ w \in todo
    /\ todo' = todo \ {w}
    /\ \/ /\ tracker[w].there /\ ~Alive(w)
          /\ tracker' = [tracker EXCEPT ![w] = Untracked]
          /\ UNCHANGED tick
       \/ /\ tracker[w].there /\ Alive(w) /\ silence[w] = 2
          /\ tracker' = [tracker EXCEPT ![w].restarts = @ + 1]
          /\ Goto(IF tracker[w].restarts < MaxRestarts THEN "restart" ELSE "abandon", w)
       \/ /\ tracker[w].there /\ Alive(w) /\ silence[w] = 1 /\ ~tracker[w].nudged
          /\ Goto("wrap up", w)
          /\ UNCHANGED tracker
       \/ /\ \/ ~tracker[w].there
             \/ Alive(w) /\ (silence[w] = 0 \/ (silence[w] = 1 /\ tracker[w].nudged))
          /\ UNCHANGED <<tracker, tick>>
    /\ UNCHANGED <<kind, queue, worker, nudges, silence, stale, stopped, restarts,
                   handler>>

(* sendNudge appends to the worker's file, which nobody reads any more once *)
(* the worker is gone.                                                      *)
SendNudge(type) ==
    nudges' = [nudges EXCEPT ![tick.on] = IF Running(tick.on) THEN Append(@, type) ELSE @]

(* A wrap_up nudge only adds a line to the worker's conversation: it is not *)
(* kept in nudges.                                                          *)
WrapUp ==
    /\ tick.at = "wrap up"
    /\ tracker' = [tracker EXCEPT ![tick.on].nudged = tracker[tick.on].there]
    /\ Goto("scan", NoOne)
    /\ UNCHANGED <<kind, queue, worker, nudges, silence, stale, todo, stopped, restarts, handler>>

RequestRestart ==
    /\ tick.at \in {"restart", "abandon"}
    /\ SendNudge(IF tick.at = "restart" THEN "restart" ELSE "abort")
    /\ Goto(IF tick.at = "restart" THEN "signal" ELSE "kill", tick.on)
    /\ UNCHANGED <<kind, queue, worker, tracker, silence, stale, todo, stopped,
                   restarts, handler>>

(* SIGTERM, SIGKILL or the session's abort; nobody asks whether the worker  *)
(* has come back to life meanwhile.                                         *)
Signal ==
    /\ tick.at \in {"signal", "kill"}
    /\ worker' = [worker EXCEPT ![tick.on].told = @ \/ Running(tick.on)]
    /\ Goto(IF tick.at = "signal" THEN "release" ELSE "fail", tick.on)
    /\ UNCHANGED <<kind, queue, nudges, tracker, silence, stale, todo, stopped,
                   restarts, handler>>

(* The worker may still be running, and its task another worker's by now.   *)
ReleaseStuck ==
    /\ tick.at = "release"
    /\ Write(ReleaseTask(queue, worker[tick.on].task))
    /\ Goto("scan", NoOne)
    /\ UNCHANGED <<kind, worker, nudges, tracker, silence, todo, stopped,
                   restarts, handler>>

FailAbandoned ==
    /\ tick.at = "fail"
    /\ Write(MarkTaskFailed(queue, worker[tick.on].task))
    /\ Goto("forget", tick.on)
    /\ UNCHANGED <<kind, worker, nudges, tracker, silence, todo, stopped,
                   restarts, handler>>

ForgetAbandoned ==
    /\ tick.at = "forget"
    /\ tracker' = [tracker EXCEPT ![tick.on] = Untracked]
    /\ Goto("scan", NoOne)
    /\ UNCHANGED <<kind, queue, worker, nudges, silence, stale, todo, stopped, restarts, handler>>

ScanEnds ==
    /\ tick.at = "scan" /\ todo = {}
    /\ Goto("cleanup", NoOne)
    /\ UNCHANGED <<kind, queue, worker, nudges, tracker, silence, stale, todo, stopped,
                   restarts, handler>>

(* Bug: stale claims are looked for only when no worker is left.             *)
ForgottenAtTheEnd ==
    {t \in stale : queue[t].status = "claimed" /\ \A w \in Worker : ~tracker[w].there}

Forgotten == {t \in stale : /\ queue[t].status = "claimed"
                            /\ \A w \in Worker : tracker[w].there => worker[w].task # t}

(* The stale tasks of no worker in the table are found in one read of the   *)
(* queue.                                                                   *)
FindForgotten ==
    /\ tick.at = "cleanup"
    /\ tick' = [at |-> "give back", on |-> Forgotten]
    /\ UNCHANGED <<kind, queue, worker, nudges, tracker, silence, stale, todo, stopped,
                   restarts, handler>>

(* One after the other they go back, whatever has become of them meanwhile; *)
(* a supervisor without workers stops, for good.                            *)
Cleanup ==
    /\ tick.at = "give back"
    /\ \/ /\ \E t \in tick.on : /\ Write(ReleaseTask(queue, t))
                                /\ tick' = [tick EXCEPT !.on = @ \ {t}]
          /\ UNCHANGED stopped
       \/ /\ tick.on = {}
          /\ stopped' = \A w \in Worker : ~tracker[w].there
          /\ Goto("idle", NoOne)
          /\ UNCHANGED <<queue, stale>>
    /\ UNCHANGED <<kind, worker, nudges, tracker, silence, todo, restarts,
                   handler>>

(* A claim is old enough to be stale.  No handler takes that long.          *)
GrowStale(t) ==
    /\ queue[t].status = "claimed" /\ t \notin stale
    /\ \A w \in Worker : worker[w].task = t => handler[w] \in {"idle", "done"}
    /\ stale' = stale \cup {t}
    /\ UNCHANGED <<kind, queue, worker, nudges, tracker, silence, tick, todo, stopped,
                   restarts, handler>>

-----------------------------------------------------------------------------
TickStep ==
    \/ TickBegins \/ WrapUp \/ RequestRestart \/ Signal \/ ReleaseStuck \/ FailAbandoned
    \/ ForgetAbandoned \/ ScanEnds \/ FindForgotten \/ Cleanup
    \/ \E w \in Worker : Look(w)

HandlerStep(w) ==
    HandleExit(w) \/ CompleteTask(w) \/ AbandonTask(w) \/ ReleaseForRestart(w) \/ Reclaim(w)

Next ==
    \/ TickStep
    \/ \E t \in Task : Spawn(t) \/ GrowStale(t)
    \/ \E w \in Worker :
          \/ Turn(w) \/ Silence(w) \/ Exit(w)
          \/ HandlerStep(w)

(* The event loop runs the tick, time passes for a worker and for a claim,  *)
(* and what is told to end does.  Nothing is assumed of the workers' turns  *)
(* nor of the exit handlers.                                                *)
Fairness ==
    /\ WF_vars(TickStep)
    /\ \A w \in Worker : WF_vars(Silence(w)) /\ WF_vars(worker[w].told /\ Exit(w))
    /\ \A t \in Orphans : WF_vars(GrowStale(t))

Spec == Init /\ [][Next]_vars /\ Fairness

-----------------------------------------------------------------------------
(***************************************************************************)
(* Properties                                                               *)
(***************************************************************************)
(* The queue, the table and the files hold what they are declared to hold;  *)
(* no worker is asked to restart more than MaxRestarts times and abandoned  *)
(* once.                                                                    *)
TypeOK ==
    /\ kind \in Kinds
    /\ queue \in [Task -> Entry]
    /\ worker \in [Worker -> WorkerRecord]
    /\ \A w \in Worker : nudges[w] \in Seq({"restart", "abort"})
    /\ tracker \in [Worker -> TrackerRecord]
    /\ \A w \in Worker : tracker[w].restarts <= MaxRestarts + 1
    /\ silence \in [Worker -> 0..2]
    /\ stale \subseteq Task
    /\ tick.at \in {"idle", "scan", "wrap up", "restart", "abandon", "signal", "kill",
                    "release", "fail", "forget", "cleanup", "give back"}
    /\ IF tick.at = "give back" THEN tick.on \subseteq Task ELSE tick.on \in Worker \cup {NoOne}
    /\ todo \subseteq Worker
    /\ stopped \in BOOLEAN
    /\ restarts \in [Task -> Nat]
    /\ handler \in [Worker -> {"idle", "complete", "abandon", "release", "reclaim", "done"}]

(* However the tick, the exit handlers and the spawning loop interleave, no *)
(* task is left claimed without a worker or a handler that will settle it:  *)
(* a claim without either is one that an earlier call left behind.          *)
NoOrphanIsMade ==
    \A t \in Plan \ Orphans :
        queue[t].status = "claimed" =>
            \E w \in Worker : worker[w].task = t /\ handler[w] # "done"

(* A worker of which nothing is heard is stopped, however the tick is       *)
(* interleaved with nudges, exits and restarts: unless it takes another     *)
(* turn, is out of the supervisor's table, or the supervisor has stopped.   *)
SilentIsStopped ==
    \A w \in Worker :
        Running(w) /\ silence[w] = 2 /\ tracker[w].there
            ~> ~Running(w) \/ silence[w] = 0 \/ stopped

(* A task that nobody works on is available again, unless the supervisor    *)
(* has stopped.                                                             *)
OrphansComeBack ==
    \A t \in Orphans : queue[t].status = "claimed"
                       ~> queue[t].status # "claimed" \/ stopped
                          \/ \E w \in Worker : worker[w].task = t
=============================================================================
