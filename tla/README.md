# Verification of the coordination core

This directory is a TLA+ development about the program in `src/`: a tool that runs one
*coordination*: a plan is split into tasks, a coordinator hands the tasks to worker agents
(processes), reviews and fixes what they produce, and can resume after a crash. The modules are
translated from the TypeScript sources; TLC checks them on small instances and TLAPS proves theorems
about them for every value of the constants.

    tlc -workers 2 -config MCTaskQueue.cfg MCTaskQueue.tla     (any MC module and cfg below)
    tlapm TaskQueueProofs.tla                                  (any ...Proofs module)

Paths below are relative to `src/coordinate/` unless they say otherwise; `CT` is
`coordinator-tools/index.ts`, `WT` is `worker-tools/index.ts`.

## 1. Inventory of the system

A coordination run lives in one directory. Its processes share files there; within the coordinator's
process, coroutines (async functions) share memory and interleave at each `await`.

| Component (code) | State | Operations | Hard behaviour | What makes it correct |
|---|---|---|---|---|
| Task queue (`task-queue.ts`) | `tasks.json`: status, claim, parent, dependencies, `blockedBy`, restart count of each task; `progress.json`: the checkpoint | getNextTask, claim, complete, fail, release, discover, subdivide, approve, reject, skip | callers in several processes, late or repeated; hand-out and claim are two steps; blocking and waking parents | no missed wakeup, only approved work runs, verdicts are final, ids are not used twice, every claim is in the checkpoint |
| File lock (`withLock` in `task-queue.ts`, copied in `state.ts`, `nudge.ts`, `a2a.ts`) | the lock file, its age, the temporary file | acquire, find busy, remove a stale lock, retry, unlock | crash between any two system calls; theft of a stale lock; unlock of a lock that is no longer one's own | exclusion and atomic updates |
| Dispatch (`spawn_from_queue` in `CT`) | `activeHandles`, `restartCounts`, the processes, the queue | initial batch, dynamic loop, exit handler per worker, restart | all of them interleave at awaits and share the slots and the tasks | one owner per claimed task, every attempt made, nothing left behind, the tool returns |
| Checkpoint and resume (`progress-tracker.ts`, `index.ts`) | the two files after a crash | load the snapshot, find the directory, seed the queue | two files, the second written in place; torn writes | nothing unfinished counts as done, nothing acknowledged is lost |
| Supervisor (`supervisor.ts`) | the worker table, restart counts, a timer | nudge, restart, abandon a stuck worker, give back stale tasks | a tick is many awaits, between which workers end and exit handlers run; signals take time; the cleanup acts on what it read earlier | silent workers are stopped, interrupted tasks come back, no task is claimed by nobody |
| Worker process (`src/worker.ts`, `sdk-worker.ts`, `nudge.ts`) | self-review state, nudge files | block and let through completion, count review cycles, consume nudges | handlers of three kinds of event; nudges read without the lock | nothing unreviewed is completed |
| Worker and coordinator tools (`WT`, `CT`, `state.ts`) | contracts, messages, reservations, answers to questions | wait for and provide contracts, send and read messages, reserve, transfer and release files, check edits, ask the user | reads outside the lock, polling against time-outs, late answers, writes that are two steps | no provided contract is forgotten, no message is lost, exclusive reservations, an answer stands |
| Pipeline (`pipeline.ts`, `phases/`, `checkpoint.ts`) | phases, review history, fix cycle, cost | coordinate, integrate, review, fix, complete | three limits and a cost account that an interval rewrites; resuming from a phase | clean means reviewed, no work beyond the limit, no fixing in circles, every run returns |
| Run and approval gate (`index.ts`, `hitl-gate.ts`) | run directory, request and answer of the gate | start, resume (two ways), seed, ask, poll, time out | answers that are late, incomplete or unusable; what an earlier run left behind | nothing runs that the human refused; nothing done runs again but for a crash that lost it |
| Escalation (`escalation.ts`, `dashboard.ts`, `WT`, `CT`) | one answer file per question | poll, answer, default | three writers, none of them atomic | the agent goes on with what the file says |
| Plans (`spec-parser.ts`, `spec-validator.ts`, `src/plan/structure.ts`) | the spec | parse, validate, structure, accept | text in unexpected form; the depth-first search | what is accepted can be worked to its end |
| Sub-agents (`src/subagent/`) | a pool of jobs | run, time out, abort, fail over | timers, signals and abort race with the end | every job comes back |
| Detached runs (`background-runner.ts`, `background-run-child.ts`, `async-runner.ts`, `index.ts:501-547`) | `status.json` of each background run; result files, the watcher of their directory | ask, start the child, write its pid, report the end, watch, tell | two processes write one file in place; the asking process goes and another comes; a result is reported twice or before anyone watches | the end of a run is known |

The rest presents, logs or renders (dashboard, reports, observability, prompts) or wraps the agent
SDK and git. `PROJECT.json` lists every component with its files, what is modelled of it and why the
others are not.

**Interactions.** The pipeline calls the coordinate phase, which runs `spawn_from_queue`. That
dispatcher, the worker tools (other processes), the planner and the reviewer all use the task queue,
each operation under `tasks.lock`. The supervisor and the exit handlers meet at the worker table and
the queue, the supervisor and the workers at the nudge files. The pipeline, the status interval and
the gate meet in the run's memory and its directory; later runs meet what earlier ones left there.
The resume path reads what the queue checkpointed.

## 2. Modules

| Module | Models | Composes |
|---|---|---|
| `QueueOps` | the queue as a value and what each operation of `TaskQueueManager` makes of it | – |
| `TaskQueue` | the queue used by all its callers in any order | `QueueOps` |
| `FileLock` | `withLock` around one read-modify-write | – |
| `TaskLifecycle` | abstract: what the documentation promises about a task's life | – |
| `Dispatch` | `spawn_from_queue` at the grain of its awaits | `QueueOps`; implements `TaskLifecycle` |
| `Resume` | crashes between and inside the writes of the two files, and `resume: true` | `QueueOps` |
| `PipelineOps` | the cost account, stuck detection, risk and refusal, as operators | – |
| `Session` | runs of one plan, one after another, in one directory | `PipelineOps` |
| `Supervision` | the supervisor's tick, the workers, their nudge files and exit handlers | `QueueOps` |
| `Reservations`, `Contracts`, `Mailbox`, `Questions`, `SelfReview`, `Specs`, `SubAgent`, `Detached` | one part each, named for it | – |
| `Parts` | any of these eight, side by side | the eight |
| `QueueOpsProofs`, `TaskQueueProofs`, `FileLockProofs`, `ResumeProofs`, `DispatchProofs`, `SupervisionProofs`, `SessionProofs`, `PartsProofs` | theorems about the module they are named for (the last about all eight parts) | |
| `MC...` | TLC's instances | |

### How state and actions correspond to the code

* **Queue.** An entry of `tasks.json` is a record; a task that is not in the file has the status
  `"absent"`. Names, descriptions, files and timestamps are left out: no operation's outcome depends
  on them, except that the position in the file breaks ties of `getNextTask`, and a tie is a
  nondeterministic choice (`NextTasks`). Each operation is one atomic step *because* `FileLock` says
  so; `FileLock` also says under which condition: no live holder's lock is taken for a dead one's
  after 30 s.
* `updateTask` appears as `SkipTask`, the only status change its callers make.
* `offered` and `handed` in `TaskQueue` are history: which tasks were returned by `getNextTask` and
  which were claimed. They are what entitles a caller to claim, and to complete, fail or release;
  those three look at no status, so a caller may be arbitrarily late. The queue starts as
  `createFromPlan` is given it: all pending in a fresh run, or seeded with the complete and failed
  tasks of a `progress.json` (`Seed`, `LoadSnapshot`, used by `Resume` as well). The id of a new
  task is made up from a count (`SubtaskIds`, `IsNextId`), and nothing looks whether it is in use:
  `reused` remembers the ids that were (the code would then have two entries of one id, the model
  has the later one). An id is known by its series, its parent and its number.
* **Dispatch.** Each step is the code between two awaits, or one awaited queue operation. `at` is
  the program counter of the loop's coroutine and of one handler per worker; `job` and `fresh` are
  locals. `phase = "initial"` is the batch before the handlers are attached. Worker processes end at
  any time, with an outcome; `ExitCode` is the `code ?? 0` of the close handler. Worker ids are
  reused, and because nothing distinguishes free ids `NewWorker` takes a fixed one.
* **Resume.** `torn` is the moment between the truncation and the write of `progress.json`, which
  `fs.writeFile` does not make atomic. `built`, `acked` and `lost` are history. A resumed run
  rebuilds the queue from the plan and the snapshot only.
* **Session.** `at` says what the run does next; a run's memory is `run`, `cost`, `history`; `files`
  is its directory, which outlives it. Tasks are worked on in any order and end either way: handing
  them out is `Dispatch`'s subject. A run may be fresh, resumed (`resume: true`), or start at a
  phase; a process that dies is a run that fails, and the next finds what it left. A completion is
  two steps, `Work` writes `tasks.json` and `Checkpoint` `progress.json`, under one lock; a crash
  (`Cut`) may come between them, or tear `progress.json`, and `lost` counts the completions a crash
  kept from the file. A claim is one step: no later run reads `tasks.json`, so a crash between its
  two writes is one before both. A resumed run takes what was claimed at the crash for failed
  (`StatusOnResume`). `reads` holds status intervals that have read the worker costs and not yet
  stored them. `asked`, `yes`, `worked` and `lost` are history. Workers and reviewers may add tasks:
  the first wait for a review by the planner, whose phase `index.ts:801-806` disables in every run,
  so no action approves them; the second are pending at once. The limit of the fixers is chosen per
  run: the user may raise it in the settings, which the loop does not read (`index.ts:714`, `:794`).
  A review is its set of issues (file and description) and the length of its list, which may have an
  issue more than once: the threshold of the stuck test counts the list, its matches the sets.
* **Supervision.** `tick.at` is the place of `checkAllWorkers` between two awaits; the tick that
  runs when `Exit` or a handler's step is taken goes on with what it has read. Time is a level per
  worker (below the nudge threshold, between the two, past the restart threshold) and a flag per
  claim. A worker's turn is one step except for the window of `consumeNudgeSync` between read and
  unlink.
* **Parts.** The eight share no state; `Parts` takes any set of them and runs one at a time, so that
  a run's states are the sum of theirs and each is explored in full. `Reservations` keeps patterns
  as data, with what `simpleMatch` makes of them; expiry and release are actions, and an edit is
  checked in one step and carried out in another. `Contracts` has the window between the read of a
  contract and the registration of a waiter. In `Mailbox` and `Questions` `fs.writeFile` is an
  opening, which truncates, and a write. A call of the inbox lists from a `since` of its own or from
  the last check, and moves the last check to its end either way; `raced` and `skipped` are the
  history of what was under way during a call and of what its own `since` left out. In `SelfReview`
  an SDK worker may name its files or not, and the handler may find what is tracked or nothing, as
  `readWorkerFilesModified` does when the file cannot be read or the edits left no trace. `Specs`
  runs the validator's depth-first search one visit at a time, with its stack. In `SubAgent` a
  process may ignore SIGTERM. `Detached` keeps of a status file whether it is torn and what it says;
  `pid` is the asking process, which may die and be followed by another, `events` the timers of its
  watcher, and the rename of a finished result is one step (`writeJson` renames a temporary file). A
  background child that ends before its parent's second write is remembered in `raced`, which is
  history.
* Operators marked `Bug:` are mistakes the runs are shown to catch; no action uses them.

## 3. Runs

| Run | Instance | What it asks |
|---|---|---|
| `task_queue` | TASK-01, its subtasks TASK-01.1 and .2, DISC-01 that depends on it; fresh, or seeded with TASK-01 complete or interrupted; a first failure is final | every operation in any order |
| `file_lock` | three callers, three attempts, symmetric | exclusion and atomicity |
| `dispatch` | tasks a, b and c (needs both), 6 process ids, 2 workers at once, 1 restart, 1 failing spawn | ownership, attempts, completeness, refinement of `TaskLifecycle` |
| `dispatch_chain` | a and b (needs a), 1 worker, 2 restarts, 1 failing spawn | termination |
| `resume` | a, b and c (needs both), 2 crashes | what survives |
| `session` | a risky and a plain task, 2 issues (one in files that workers own), 2 runs, 2 review cycles, 2 fixes, 2 fixes of integration issues, cost limit 5, 1 status interval in flight in the first run | gate, limits, checkpoints, termination |
| `supervision` | 2 worker ids, 2 at once, 2 tasks (one left claimed by an earlier call), 1 restart each by supervisor and handler, both kinds of worker | silent workers, orphans |
| `parts` | all eight parts: 3 agents and 4 patterns around one file; 2 peers and 2 contracts; 2 messages, clock to 3; 2 choices; 3 review cycles; all 512 dependency graphs of 3 tasks and four special texts; 3 jobs, 2 at a time, 2 models; 2 detached runs, 2 directories, 2 asking processes, 2 events | what each part promises |
| `max_workers` (violation) | as `dispatch` with 1 worker | "be strict about maxWorkers" |
| `killed_worker` (violation) | as `dispatch`, processes may be killed | "worker killed ... spawns replacement" |
| `resume_requeue` (violation) | as `resume` | "the task is re-queued" |
| `added_tasks` (violation) | as `session`, with a task that workers or reviewers may add, 1 run | "New tasks picked up without restarting coordination" |

**Why the bounds are enough.** In `task_queue`, the ids give a parent with two subtasks, made at
once or the second after the first is done, and a discovered task that depends on the parent: what a
wakeup can be lost by and a count can go wrong about. `MaxRestarts` is 1 and `FailureBound` its
limit, so that a task fails for good at once and is completed or released by a late caller all the
same; a failure that puts a task back to pending does to it what `Release` does, and is checked in
`resume` and `dispatch_chain`. With the identity of the claimer the properties have nothing to do,
so there is one. Three callers are what a stolen lock needs (the holder, the remover, and a third
that gets in). In `dispatch`, six ids are as many processes as two workers, their handlers and the
restarts can hold at once: `Worker` is a bound, guarded by `FreeWorkers # {}`, and no state of these
instances meets the guard. One restart is enough to have the restart, its loss to another coroutine,
and the abandonment; the real limit of two is used by `dispatch_chain`. `MaxNoProgress` is 3 instead
of 60: the count matters only by being reset and reached. Two crashes give a resume of a resumed
run.

In `session` a task the gate asks about and one it does not are what its decisions tell apart; two
runs are what a resume needs, and an answer or a checkpoint the first leaves is found by the second.
With cost limit 5 a run reaches the limit before, in and after the review loop. The fixers' limit is
the loop's, as by default, so that a fix is refused; the loop's own limit, which only a higher limit
of the fixers lets it meet, is left to the theorems. The status intervals are those of the first
run: the second starts an account of its own. No task is added in this run, because no step of it
waits for one and none of its properties is about one: `added_tasks` is. Two issues give reviews
that repeat, alternate and change. In `supervision` two workers are one that is looked at while the
other ends; MaxRestarts 1 gives a restart and an abandonment. Worker ids are used once: when both
are gone nothing is spawned any more, so the runs of this instance are the first and second process
of a task. In `parts` the patterns are one of each kind the matcher tells apart that can cover the
file (its path, its directory, `/**`, `/*`; another glob covers nothing and is left to the theorem),
and a third agent is what an edit takes that a reservation an ended worker left behind lets through
although a third one has reserved the file since; three jobs at two a time make one wait; three
tasks have every cycle, self-loop and entry-less graph a search can mistake; MaxClock 3 lets a
message be stamped before, at and after a check; MaxPrompts 5 is beyond every limit it is compared
with. Two detached runs in two directories are one the watcher was made for and one it was not, and
a second process is one that finds what was asked for by the first; two events are a repetition.

**Deadlock** is checked wherever the system should not stop: in the dispatch runs, whose last state
stutters by an action of its own (`Terminated`). The other runs come to rest when every task is
settled, every call has ended, or the bound on runs is used up, and say so in their cfg.

**Fairness.** Only what the event loop, the clock or a signal brings about is assumed:

* `dispatch_chain`: weak fairness of each coroutine's step (Node resumes every coroutine whose
  promise is settled; a step that is enabled stays so until it is taken) and of each worker's exit.
  The second is an assumption about workers: with the supervisor off nothing stops one that hangs,
  and the tool does wait for it for ever.
* `session`, `added_tasks`: weak fairness of the run's own steps, and strong fairness of the gate's
  time-out. Polling goes round, so the time-out is enabled again and again and not continuously; it
  is a clock that runs out. Of the human and the status interval nothing is assumed.
* `supervision`: the tick runs, silence and staleness come with time, and a process that has been
  told to end does. Nothing is assumed of a worker's turns, of unprovoked exits, or of exit
  handlers.
* `parts`: for sub-agents the pool starts what it can, a role's timer fires, a process dies of a
  signal it does not ignore, and a provider answers in the end (an SDK session has no timer); for
  detached runs both event loops go on and a run comes to its end, as `Returns` has it. Sub-agents
  and detached runs have one weak fairness each, of the union of such steps: each of them takes
  finitely many, so none is left out for ever. The other parts have safety properties only.

**Assumptions of the models.**

* No exit handler outlasts the 30 s (60 rounds) after which the spawning loop gives up; a round that
  overlaps a handler is not counted. Hazard at `CT:1835`.
* In `Dispatch` processes fail to start at most `SpawnFailures` times and `MaxNoProgress`, 60 in the
  code, is beyond that by more than one. A coordination whose processes never start does give up
  with tasks left, as it should; `NothingLeftBehind` is about the others.
* In `Dispatch` the supervisor is off, worktrees are off, and nothing throws in the initial batch or
  during a restart. Workers neither discover nor subdivide tasks, and the queue is that of a fresh
  run, here and in `Supervision`.
* Processes killed by a signal are excluded from the passing dispatch runs, because the coordinator
  cannot tell one from a success (finding `killed_worker`).
* In `Supervision` a tick ends before the next is due, workers do not discover tasks, and the
  dispatcher fills a free slot in one step. A killed worker counts as finished or failed, as its
  close handler has it.
* In `Session` a worker, a fixer, a review and the coordinator cost one unit each; what reviewers
  find is arbitrary. A write that does not crash succeeds. An earlier directory of the same plan,
  which `findResumeCoordDir` would take when the last has no `progress.json` that can be parsed,
  counts as a new one.
* In `Reservations` nobody means anything by a glob the matcher does not know (`*.ts` matches
  nothing), the paths of edits and patterns are written the same way (WT:22 does not normalise
  them), and what is edited is a file: no pattern is about something below it (`FilesAreFiles`).
* In `TaskQueue` the plan numbers its subtasks, and its DISC and FIX tasks if it has any, without
  gaps (`PlanAssumption`); section 4 says what happens otherwise.
* In `Detached` a child can read its config.
* In `Resume` the plan's hash matches, checkpoints can be written, and the approval gate is not
  repeated.

## 4. What the runs show

`task_queue`: however late and in whatever order callers act, a blocked task always waits for
something incomplete, only approved tasks are in workers' hands, the checkpoint knows of every
claim, verdicts stay, and the ids that are counted up for new tasks are free ones. `file_lock`: the
only way to break exclusion is to take a live holder for dead; crashes, retries and dead holders do
no harm. `dispatch`: between the awaits there is no interleaving in which a task has two owners or
none while it is claimed, and the whole is an implementation of `TaskLifecycle`. `resume`: a crash
can lose acknowledged work only by tearing `progress.json`, and never makes unfinished work count.

`session`: whatever the human answers and whenever, a gated task runs only if he named it; ungated
tasks are completed once in a directory, resumes included, and again only when a crash came between
the two files of a completion; a run that calls itself clean has changed nothing since its last
review; no review begins once the limit is charged, although the interval counts fixers twice and
rewrites the total; the loop gives up on issues that come back, unless a review has fewer of them
than the limit and lists one twice; every run returns, though the human never answers and reviewers
are never content. `supervision`: with the handlers, the loop and the tick interleaved, every claim
has a worker or handler that will settle it; a silent worker in the table is stopped even when its
nudge is lost; an interrupted task comes back as long as the supervisor runs. It does not always:
the cleanup ends with the last worker in the table. The cleanup acts on what it read earlier and may
put a task that was completed meanwhile back to pending. `parts`: exclusive reservations are
exclusive for the patterns the matcher knows, except for what a second `assign_files` abandons and
for agents that have ended; an edit of another's file is stopped except where a shared reservation
is found first, the owner's own or one that an ended worker left behind; messages are passed over
only when they were on their way during a check, or left out by the `since` of a call that found
them; an agent's answer is the one on file unless another was under way; no completion avoids
review, except an SDK worker's whose files are not found; the validator overlooks no cycle of
top-level tasks; tasks run in the order their spec was written in, through the planner's retries,
the saved file and the second parse, unless its labels are in bold; jobs return unless processes
ignore SIGTERM (the SIGKILL that should follow is never sent, as `proc.killed` is already true); a
background run that was started shows its end, though its caller is gone, unless its child met the
parent's second write or was killed; an asynchronous one tells the process that asked, once that has
a watcher for the call's directory: results of a second directory, or of an earlier process, stay in
theirs and nobody is told.

**Findings** (violation runs; quotes and lines in `PROJECT.json`):

1. `max_workers`: the restart of a failed worker takes a slot without looking at `maxWorkers`, after
   giving its own slot up: the loop may have filled it.
2. `killed_worker`: a process ended by a signal has exit code `null`, which `code ?? 0` turns into
   success; its task is marked complete.
3. `resume_requeue`: a task that was claimed at the crash is seeded as *failed*, which no
   `getNextTask` hands out, although four comments say it is re-queued.
4. `added_tasks`: the planner phase, which alone starts the review of the tasks that workers add, is
   disabled in every run, and the tasks that reviewers add are pending only when the dispatcher has
   ended: a run succeeds and nobody has taken them, although the README says they are picked up.

Also met, and not runs of their own: dependencies written in bold, as the README's own example of a
spec writes them (`**Depends on:** TASK-01`, README.md:532), are dropped without an error, since
`spec-parser.ts:228` wants the bare label (`WrittenOrderIsKept` makes the exception); a torn message
makes every later inbox call fail (`state.ts:236`); a late answer of the human is read by the gate
of the next run (`index.ts:1256`); a phase resume looks for its checkpoint in a new directory unless
the caller names the old one; the idle timer of a coordinator sub-agent is armed with 30 minutes and
re-armed with 90 seconds (`src/subagent/runner.ts:355`); subtasks of an accepted spec are never
handed out; `docs/workflow-overview.md:477` describes an abandoned task as failed, while the first
abandonment only makes it pending again (`markTaskFailed` has a budget of its own, on top of the
handler's: `FailedHadEveryAttempt` states the sum); dependents of a failed task stay pending for
ever, by design; on a resume the approval gate asks about complete tasks too (`index.ts:1185`) and
skips those that are not approved again; a completion that a crash keeps from `progress.json`
(`task-queue.ts:182-185`) is done again after the resume, or counted as failed if the file has
another complete task, as the task is still among the claimed ones; a review that lists the same
file and description twice, at two lines say, is never "stuck" when it has fewer issues than the
limit, because the threshold counts the list and the matches do not (`pipeline.ts:231`, `:212`), so
fixers go after the same issues again until another limit ends the loop; an inbox call with a later
`since` loses for good what is older, because it moves `lastMessageCheck` on as well (`WT:200-204`);
an SDK worker that names no files completes unreviewed when its state file cannot be read or lists
none (`coordinator-tools/sdk-worker.ts:55-64`, `:209-217`).

Ids are unique only for plans without gaps: with TASK-01.1 and TASK-01.3 in the plan, a third
subtask gets the id TASK-01.3 (`task-queue.ts:318-322`), and a plan with DISC-02 alone makes the
next discovered task a second DISC-02 (`:255-262`); neither the parser nor the validator asks for
more than unique ids. A second `createSubtasks` for one parent replaces its `blockedBy`
(`:338-340`); from then on it is woken as soon as those of the second call are complete, though
earlier ones are not. `createSubtasks` has no caller in production code.

## 5. What is proved

Every safety property that a passing run checks, and the refinement of `TaskLifecycle`, is a
theorem, for every value of the constants that the named assumptions admit:

| Module | Theorems | Assumptions |
|---|---|---|
| `TaskQueueProofs` | `TypeCorrect`, `IdsAreNeverReused`, `OnlyApprovedTasksRun`, `EveryClaimIsRecorded`, `VerdictsAreFinal`, `NoWakeupIsMissed` | `QueueAssumption`, `IdsAssumption`, `BoundsAssumption`: what the constants are; `PlanAssumption`: no gaps in the plan's numbers |
| `FileLockProofs` | `LockTypeCorrect`, `LockIsExclusive`, `UpdatesAreAtomic` | `LockAssumption`: likewise |
| `ResumeProofs` | `ResumeTypeCorrect`, `DependenciesAreBuilt`, `AcknowledgedWorkIsKept` | `QueueAssumption`, `ResumeAssumption`: likewise |
| `DispatchProofs` | `DispatchInductive`, `TypeCorrect`, `OneOwner`, `GivenUpAfterEveryAttempt`, `ReturnsWhenDone`, `RefinesLifecycle` | `QueueAssumption`, `DispatchAssumption`: nobody adds tasks (`Plan = Task`), and rounds outlast failures to start (above) |
| `SupervisionProofs` | `SupervisionInductive`, `TypeCorrect`, `NoOrphans` | `QueueAssumption`, `SupervisionAssumption` |
| `SessionProofs` | `SessionInductive`, `TypeCorrect`, `OnlyTheApproved`, `CompletedOnce`, `CleanIsReviewed`, `RoundsAreWorthIt` | `PipelineAssumption` (finitely many issues), `SessionAssumption` |
| `PartsProofs` | `PartsTypeCorrect`, `ExclusiveIsAlone`, `EditsWereChecked`, `InboxesLoseOnlyRaces`, `AnswersStand`, `CompletionsAreReviewed`, `ReadyStays`, `AcceptedSpecsWork` | the parts' own; `FilesAreFiles`; `SelfReviewAssumption`, whose limits do not exceed the bound on prompts |

*Queue.* `QueueOpsProofs` states once, for each operation of the queue, what it does to the entry it
is about and what it leaves alone; `TaskQueueProofs` lifts that to one lemma per action
(`CompleteStep`, `FailStep`, ...) and the theorems follow action by action. Most of the queue's
properties are inductive next to `TypeOK`. Two are not: that verdicts are final needs
`OnlyApprovedWork` (a completed, failed or released task is one that was handed out, so never a
rejected one), and that ids are not reused needs `NumbersInv`: no id in the queue has a number above
the count of its series or of its parent's subtasks, which holds because no task is ever removed and
every one was numbered by the plan or by an earlier count. Both rest on it in turn: a new task
replaces none that was handed out, rejected or skipped. `NoMissedWakeup` rests on a lemma about
`UpdateBlockedTasks`: unblocking completes nobody, so one pass is enough.

*File lock.* `AtomicUnlessStolen` is not inductive: between the read and the rename a call must know
that its copy is still what the file holds and that the temporary file, whose name all callers
share, is its own. `LockInv` adds both (`CopiesFresh`), and they rest on exclusion, which rests on
the lock file being the holder's (`HoldersOwnLock`).

*Resume.* `DependenciesBuilt` is not inductive either: the queue after a resume comes from
`progress.json`, and that from a snapshot taken earlier. `OnlyBuiltIsComplete` says of all three
that they call complete only what was built, and `NothingForgotten` orders them: acknowledged work
is in the file, and the file is never ahead of the queue.

*Dispatch.* `DispatchInv` has nine parts. `Ownership` says who owns a claimed task at every await: a
process whose exit has not been settled, or a coroutine between its claim and its start; each step
keeps, takes, drops or passes on one ownership (`OwnersKeep`, `OwnerTakes`, `OwnerDrops`,
`OwnerPasses`). That two handlers never settle one exit needs `Handles` and `Fresh`: a process has
no handler until its exit takes its handle, and one not yet registered is known to the one coroutine
that started it. `Attempts` orders the two budgets: the queue counts a failure only when the handler
has used up its restarts. For what is left at the end, `Rounds` counts: a round without progress
means that nothing is registered or in flight and that the queue, if it still has work to hand out,
has seen at most one such round more than processes failed to start; and `HandedOut` keeps a task
whose dependencies are complete available when it is given back. The refinement maps a task's status
to its stage, and to busy when it has a running process; each step of the coordinator is then one
step of the life cycle or none, the interesting ones being the end of a process (the task stops
being busy before its verdict) and the restart, which is busy again without leaving `claimed`.

*Supervision.* `NoOrphanIsMade` is not inductive: it counts a handler that is about to claim the
task again among those who will settle it, but one that finds the task claimed goes away and leaves
the claim to its owner, so there must be another. `Owned` asks for more, a worker whose handler is
neither about to claim again nor done, and holds because the handler makes the task pending before
it gets there. `Ticking` says of a tick what it has in hand between two awaits (a worker that was
started), and `Started` what an id that was not started has not: a task, a handler, a place in the
table.

*Session.* `FilesInv` is about the directory through all its runs: what the response, the snapshot
and the queue hold of gated tasks is what the human approved (`Decided`), and what is completed and
not lost in a crash is in the snapshot, or about to be, and has been taken over by a run that may
work on tasks, while one that starts at a phase works on none (`Once`). `LoopInv` is about one run's
reviews. `Account` is why the intervals do no harm to the limit: they rewrite the total from the
workers' costs, and it is never behind the parts they leave alone, so a limit once charged is found
at the next test. `Rounds` relates the length of the history to the place in the loop, and the stuck
test then forbids the next fix of issues that have come back; that it counts the issues which recur,
and compares no sets, is enough because they are finite in number. `HumanDecides` was first stated
with an exception for runs that start at a phase; the invariant showed that it needs none.

*Parts.* One lemma (`PartsAlone`) takes the specification of the composition to that of each part.
Reservations: `Apart` strengthens exclusion by ids: of two that cover a file, one of them
exclusively, one belongs to nobody who could still use it, and of two that may still be handed over
for a logical name no file is in both. The proof of `EditsAreChecked` found that its first form was
wrong: the check takes the first reservation that matches, and that may be a shared one that a
worker which has ended left behind, not only the owner's own. With two agents no state shows it; the
property and the run, which now has three, were corrected. Specs: that the search overlooks no cycle
would be an induction over paths, which the prover has not. `FinishedHaveSinks` says instead that
every set of finished nodes has one that leads to none of the set, which each visit keeps; what is
accepted is finished, so as long as tasks are left one of them waits for none of the rest. Mailbox:
a message that was neither received nor raced nor skipped, at whatever stage it is, is not older
than the last check (`NothingPassedOver`). Questions: once the agent has gone on and no answer was
under way, none ever is (`AnswerIsSettled`). Contracts: provided is a state that no late write
leaves (`ReadyKeptByStep`). Self-review: what a worker heard is at least what is counted
(`CountedArePrompted`).

*Only model-checked:* the liveness properties (`Termination`, `Returns`, `SilentIsStopped`,
`OrphansComeBack`, `Answered`, `EndIsKnown`), because liveness under fairness is out of the prover's
reach. The four properties that fail have counterexamples instead.

## 6. Not modelled, and the plan

`PROJECT.json` gives the reason component by component. In short:

* *Presentation and text*: dashboard, rendering, reports, prompts, parsers' wording, question pages,
  observability, run validation, lessons and quality feedback. They are about half of the sources,
  and change nothing that another component reads back. With the SDK wrappers and the branches that
  only log, they are why the map covers a small share of all lines while it covers the code that
  decides what happens.
* *Wrappers*: git worktrees, agent SDK sessions, extension registration, provider scores.
* *Dead code*: `a2a.ts` has a reader and no sender; `deps.ts` and `subtasks.ts`, the
  processWorkerExit of `auto-continue.ts`, `updatePhaseCost`, `trackIssue` and the read marks of
  messages have no caller in production code.
* *Listing and showing detached runs*: `listRuns`, `getRunStatus` and the notification only read
  what `Detached` models.
* *Left out of modelled parts*: overlapping ticks of the supervisor, exceptions of the initial batch
  and of a restart, checkpoints that cannot be written, the unlocked read and write of `state.json`
  in `assign_files`. Each is a hazard with a note.

Planned next, in this order:

1. The window between two ticks of the supervisor (`setInterval` does not wait, `supervisor.ts:68`),
   the one hazard without a property: a second tick as a coroutine of its own, and what `Owned` then
   needs.
2. Safety halves of the liveness properties, which can be proved: that a pool with a free place and
   waiting jobs is never at rest (`Answered`), that a step of the run is enabled until it returns
   (`Returns`).
3. `ClaimsAreRecorded` and `AcknowledgedIsKept` together: a refinement of the queue's checkpoint by
   the two files of `Resume`.
