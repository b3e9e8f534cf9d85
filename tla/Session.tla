------------------------------ MODULE Session ------------------------------
(***************************************************************************)
(* One coordination run after another in a coordination directory           *)
(* (runCoordinationSession, src/coordinate/index.ts): seeding the queue,    *)
(* the approval gate, the coordinator and its workers, the review and fix   *)
(* loop of pipeline.ts under its cost limit, and what a later run of the    *)
(* same plan finds.  Beside the run go the status interval, which rewrites  *)
(* the cost account, and the human, who answers when it suits him.          *)
(*                                                                          *)
(* How tasks are handed to workers is module Dispatch's subject: here any   *)
(* pending task may be claimed, and end either way.  A worker, a fixer, a   *)
(* review and the coordinator cost one unit each.                           *)
(***************************************************************************)
EXTENDS PipelineOps

CONSTANTS
    Plan,             \* tasks of the plan
    Found,            \* tasks that workers (DISC-XX) or reviewers (FIX-XX) may add
    RiskOf,           \* the risk scoreTaskRisk gives a task of the plan
    LoopLimit,        \* pipelineState.maxFixCycles (params ?? 3)
    FixLimits,        \* what pipelineConfig.maxFixCycles may be (params ?? settings ?? 3)
    IntegrationFixes, \* fixes of integration issues (3 in the code)
    Owned,            \* issues in files that some worker has modified
    CallerDirectory,  \* whether a phase resume is given the earlier directory
    MaxRuns,          \* bound: runs in one directory
    MaxReads          \* bound: status intervals in flight at once, in each run

Task == Plan \cup Found

ASSUME SessionAssumption ==
    /\ Plan \cap Found = {}
    /\ RiskOf \in [Plan -> Risk]
    /\ {LoopLimit, IntegrationFixes, MaxRuns} \cup FixLimits \subseteq Nat
    /\ MaxReads \in [1..MaxRuns -> Nat]
    /\ Owned \subseteq Issue
    /\ CallerDirectory \in BOOLEAN

VARIABLES
    at,        \* what the run is about to do, or "idle" between runs
    run,       \* what the run knows: see Run
    cost,      \* costState
    reads,     \* worker costs read by status intervals, not yet stored
    history,   \* reviewHistory
    queue,     \* tasks.json
    progress,  \* progress.json
    states,    \* worker state files: the money in them, some worker complete
    request,   \* hitl/batch-approval-request.json
    response,  \* hitl/batch-approval-response.json
    saved,     \* phases with a checkpoint
    result,    \* how the last run ended
    runs,      \* runs so far
    asked,     \* what the human has been asked and not answered
    yes,       \* what he has approved in this directory (not in the code)
    worked,    \* how often a task has been completed (not in the code)
    lost       \* how often a crash kept that from progress.json (not in the code)

files == <<queue, progress, states, request, response, saved>>
human == <<asked, yes>>
vars == <<at, run, cost, reads, history, files, result, runs, human, worked, lost>>

Exit == {"none", "clean", "stuck", "max_cycles", "cost_limit"}

Run == [resume : {"no", "tasks", "phase"},
        from   : {PhaseOrder[i] : i \in DOMAIN PhaseOrder},
        output : BOOLEAN,             \* hasWorkerOutput
        error  : BOOLEAN,             \* coordExitError
        exit   : Exit,                \* pipelineState.exitReason
        cycle  : Nat,                 \* pipelineState.fixCycle
        round  : Nat,                 \* integrationFixCycle
        issues : SUBSET Issue,        \* what is to be fixed
        limit  : FixLimits \cup {0},  \* pipelineConfig.maxFixCycles, once it matters
        again  : BOOLEAN,             \* the review lists one of them more than once
        fixers : Nat,                 \* the cost of the fixers at work
        dirty  : BOOLEAN]             \* changes since the last review (not in the code)

NewRun(resume, from) ==
    [resume |-> resume, from |-> from, output |-> FALSE, error |-> FALSE, exit |-> "none",
     cycle |-> 0, round |-> 0, issues |-> {}, again |-> FALSE, limit |-> 0, fixers |-> 0,
     dirty |-> FALSE]

NoFile == [tasks |-> {}, there |-> FALSE]

NoAnswer == [approved |-> {}, kind |-> "none"]

NoProgress == [completed |-> {}, failed |-> {}, claimed |-> {}, there |-> FALSE]

NoStates == [cost |-> 0, complete |-> FALSE]

InPlan(status) == [t \in Task |-> IF t \in Plan THEN status ELSE "absent"]

Init ==
    /\ at = "idle"
    /\ run = NewRun("no", "scout")
    /\ cost = NoCost /\ reads = {}
    /\ history = << >>
    /\ queue = InPlan("absent") /\ progress = NoProgress /\ states = NoStates
    /\ request = NoFile /\ response = NoAnswer
    /\ saved = {}
    /\ result = "none"
    /\ runs = 0
    /\ asked = {} /\ yes = {}
    /\ worked = [t \in Task |-> 0] /\ lost = [t \in Task |-> 0]

-----------------------------------------------------------------------------
(***************************************************************************)
(* The beginning                                                            *)
(***************************************************************************)
Goto(label) == at' = label

(* Nothing of an earlier run is in a new directory.                         *)
NewDirectory ==
    /\ queue' = InPlan("absent") /\ progress' = NoProgress /\ states' = NoStates
    /\ request' = NoFile /\ response' = NoAnswer
    /\ saved' = {}
    /\ asked' = {} /\ yes' = {}
    /\ worked' = [t \in Task |-> 0] /\ lost' = [t \in Task |-> 0]

Begin(resume, from) ==
    /\ at = "idle"
    /\ runs < MaxRuns
    /\ runs' = runs + 1
    /\ run' = NewRun(resume, from)
    /\ result' = "none"
    /\ Goto("seed")
    /\ UNCHANGED <<cost, reads, history>>

BeginFresh == Begin("no", "scout") /\ NewDirectory

(* findResumeCoordDir: the directory whose progress.json is the plan's.     *)
BeginResumed ==
    /\ Begin("tasks", "scout")
    /\ IF progress.there THEN UNCHANGED <<files, human, worked, lost>> ELSE NewDirectory

(* restoreFromCheckpoint reads the checkpoint in the run's own directory,   *)
(* which is a new one unless the caller gives it.  The costs and reviews it *)
(* restores only reach the report: no phase after the coordinator's does    *)
(* anything in a run without that one.                                      *)
BeginAtPhase ==
    \/ /\ CallerDirectory
       /\ \E phase \in saved : Begin("phase", NextPhase(phase))
       /\ UNCHANGED <<files, human, worked, lost>>
    \/ /\ at = "idle" /\ runs < MaxRuns
       /\ saved = {} \/ ~CallerDirectory
       /\ runs' = runs + 1
       /\ result' = "failed"
       /\ UNCHANGED <<at, run, cost, reads, history, files, human, worked, lost>>

(* Bug: the snapshot is read for the sake of the failed tasks only.         *)
StatusUnlessFailed(t) ==
    IF run.resume = "tasks" /\ t \in progress.failed THEN "failed" ELSE "pending"

(* A snapshot without any complete task is not used; what it has as claimed *)
(* and not as complete is taken for failed.                                 *)
StatusOnResume(t) ==
    IF run.resume # "tasks" \/ progress.completed = {} THEN "pending"
    ELSE IF t \in progress.completed THEN "complete"
    ELSE IF t \in progress.failed \cup progress.claimed THEN "failed"
    ELSE "pending"

Gated == {t \in Plan : Gates(RiskOf[t])}

(* createFromPlan replaces tasks.json; then the gate looks at every task of *)
(* the plan, complete ones included, and asks for all it gates at once.     *)
Seed ==
    /\ at = "seed"
    /\ queue' = [t \in Task |-> IF t \in Plan THEN StatusOnResume(t) ELSE "absent"]
    /\ IF Gated = {}
       THEN Goto("coordinator") /\ UNCHANGED <<request, asked>>
       ELSE /\ request' = [tasks |-> Gated, there |-> TRUE]
            /\ asked' = Gated
            /\ Goto("poll")
    /\ UNCHANGED <<run, cost, reads, history, progress, states, response, saved, result,
                   runs, yes, worked, lost>>

-----------------------------------------------------------------------------
(***************************************************************************)
(* The approval gate                                                        *)
(***************************************************************************)
(* The human answers once what he was asked, in time or not; his program    *)
(* may write an answer without the list of approved tasks.                  *)
Answer ==
    /\ asked # {}
    /\ \E approved \in SUBSET asked :
          /\ response' = [approved |-> approved, kind |-> "answer"]
          /\ yes' = yes \cup approved
    /\ asked' = {}
    /\ UNCHANGED <<at, run, cost, reads, history, queue, progress, states, request, saved,
                   result, runs, worked, lost>>

AnswerBadly ==
    /\ asked # {}
    /\ response' = [NoAnswer EXCEPT !.kind = "malformed"]
    /\ asked' = {}
    /\ UNCHANGED <<at, run, cost, reads, history, queue, progress, states, request, saved,
                   result, runs, yes, worked, lost>>

Skip(tasks) == queue' = [t \in Task |-> IF t \in tasks THEN "skipped" ELSE queue[t]]

(* Bug: the gate never gives up.                                            *)
PollForEver ==
    /\ at = "poll"
    /\ response.kind = "answer"
    /\ Skip(Refused(Gated, response))
    /\ request' = NoFile /\ response' = NoAnswer
    /\ Goto("coordinator")
    /\ UNCHANGED <<run, cost, reads, history, progress, states, saved, result, runs, human,
                   worked, lost>>

(* A round of polling finds no answer, an answer, or one it cannot use: the *)
(* exception ends the run and leaves both files behind.                     *)
Poll ==
    /\ at = "poll"
    /\ \/ /\ response.kind = "none"
          /\ Goto("polled")
          /\ UNCHANGED <<queue, request, response>>
       \/ /\ response.kind = "malformed"
          /\ Goto("fail")
          /\ UNCHANGED <<queue, request, response>>
       \/ /\ response.kind = "answer"
          /\ Skip(Refused(Gated, response))
          /\ request' = NoFile /\ response' = NoAnswer
          /\ Goto("coordinator")
    /\ UNCHANGED <<run, cost, reads, history, progress, states, saved, result, runs, human,
                   worked, lost>>

(* There is time for another round, or all is refused: an answer that came  *)
(* after the last round stays.                                              *)
PollAgain == at = "polled" /\ Goto("poll")
             /\ UNCHANGED <<run, cost, reads, history, files, result, runs, human, worked, lost>>

TimeOut ==
    /\ at = "polled"
    /\ Skip(Gated)
    /\ request' = NoFile
    /\ Goto("coordinator")
    /\ UNCHANGED <<run, cost, reads, history, progress, states, response, saved, result,
                   runs, human, worked, lost>>

-----------------------------------------------------------------------------
(***************************************************************************)
(* The coordinator and its workers                                          *)
(***************************************************************************)
WithStatus(q, s) == {t \in Task : q[t] = s}

(* claimTask, and the note of it in progress.json.  A crash between the two *)
(* is one before both: no later run reads tasks.json.                       *)
Claim(t) ==
    /\ at = "coordinator" /\ ShouldRun(run.from, "coordinator")
    /\ queue[t] = "pending"
    /\ queue' = [queue EXCEPT ![t] = "claimed"]
    /\ progress' = [progress EXCEPT !.claimed = @ \cup {t}, !.there = TRUE]
    /\ UNCHANGED <<at, run, cost, reads, history, states, request, response, saved, result,
                   runs, human, worked, lost>>

(* A task ends, and its worker may have added others to be reviewed: by the *)
(* planner's background review, which the planner phase alone starts, and   *)
(* that phase is disabled in every run.  The lock of the queue is held      *)
(* until the checkpoint is written too.                                     *)
Work(t, end) ==
    /\ at = "coordinator" /\ ShouldRun(run.from, "coordinator")
    /\ queue[t] = "claimed"
    /\ \E found \in SUBSET {f \in Found : queue[f] = "absent"} :
          queue' = [f \in Task |-> IF f = t THEN end
                                  ELSE IF f \in found THEN "pending_review" ELSE queue[f]]
    /\ states' = [cost |-> states.cost + 1, complete |-> states.complete \/ end = "complete"]
    /\ run' = [run EXCEPT !.dirty = TRUE]
    /\ worked' = IF end = "complete" THEN [worked EXCEPT ![t] = @ + 1] ELSE worked
    /\ Goto("checkpoint")
    /\ UNCHANGED <<cost, reads, history, progress, request, response, saved, result, runs,
                   human, lost>>

(* progress.json is recomputed from tasks.json when a task ends for good.   *)
Checkpoint ==
    /\ at = "checkpoint"
    /\ progress' = [completed |-> WithStatus(queue, "complete"),
                    failed    |-> WithStatus(queue, "failed"),
                    claimed   |-> WithStatus(queue, "claimed"), there |-> TRUE]
    /\ Goto("coordinator")
    /\ UNCHANGED <<run, cost, reads, history, queue, states, request, response, saved, result,
                   runs, human, worked, lost>>

(* The coordinator process may end before the checkpoint of a completion,   *)
(* or in the middle of a write of progress.json: what is left of the file   *)
(* cannot be parsed, which is to have none.                                 *)
Cut ==
    /\ \/ progress' = progress
       \/ /\ at \in {"coordinator", "checkpoint"} /\ ShouldRun(run.from, "coordinator")
          /\ progress' = NoProgress
    /\ lost' = [t \in Task |->
           IF at = "checkpoint" /\ queue[t] = "complete" /\ t \notin progress.completed
           THEN lost[t] + 1 ELSE lost[t]]

(* The coordinator process ends, whether it has used its workers or not.    *)
CoordinatorEnds ==
    /\ at \in {"coordinator", "checkpoint"} /\ ShouldRun(run.from, "coordinator")
    /\ \E error \in BOOLEAN :
          run' = [run EXCEPT !.error = error, !.output = states.complete]
    /\ cost' = AddCoordinator(cost, 1, states.cost)
    /\ saved' = saved \cup {"coordinator"}
    /\ Cut
    /\ Goto("after coordinator")
    /\ UNCHANGED <<reads, history, queue, states, request, response, result, runs, human,
                   worked>>

CoordinatorSkipped ==
    /\ at = "coordinator" /\ ~ShouldRun(run.from, "coordinator")
    /\ Goto("after coordinator")
    /\ UNCHANGED <<run, cost, reads, history, files, result, runs, human, worked, lost>>

(* There is nothing to review unless a worker is complete; workers are      *)
(* looked at only by a run that ran the coordinator.                        *)
DecideReview ==
    /\ at = "after coordinator"
    /\ \E limit \in FixLimits :
          run' = IF run.error THEN run
                 ELSE IF run.output THEN [run EXCEPT !.limit = limit]
                 ELSE [run EXCEPT !.error = TRUE, !.exit = "stuck"]
    /\ Goto(IF ~run'.error /\ ShouldRun(run.from, "review") THEN "start reviews" ELSE "finish")
    /\ UNCHANGED <<cost, reads, history, files, result, runs, human, worked, lost>>

-----------------------------------------------------------------------------
(***************************************************************************)
(* Reviews and fixes                                                        *)
(***************************************************************************)
ExitWith(reason) == run' = [run EXCEPT !.exit = reason] /\ Goto("finish")

(* checkCostLimit, or go on.                                                *)
CheckCost(next) ==
    IF OverLimit(cost)
    THEN ExitWith("cost_limit") /\ cost' = [cost EXCEPT !.limitReached = TRUE]
    ELSE Goto(next) /\ UNCHANGED <<run, cost>>

StartReviews ==
    /\ at = "start reviews"
    /\ CheckCost("integration")
    /\ UNCHANGED <<reads, history, files, result, runs, human, worked, lost>>

(* Bug: every round of the integration review goes to the history.          *)
IntegrationRemembered ==
    /\ at = "integration"
    /\ \E passing \in BOOLEAN, issues \in SUBSET Issue, price \in {0, 1} :
          /\ (price = 0 => passing) /\ (passing => issues = {})
          /\ cost' = AddReview(cost, price)
          /\ run' = [run EXCEPT !.issues = issues]
          /\ history' = IF issues = {} THEN history ELSE Append(history, issues)
          /\ Goto(IF issues = {} THEN "loop" ELSE "fix integration")
    /\ UNCHANGED <<reads, files, result, runs, human, worked, lost>>

(* The issues of the first integration review go to the history; there are  *)
(* at most IntegrationFixes fixes, and no review after the last.  With one  *)
(* worker, or no file modified, the review is not run and costs nothing.    *)
Integration ==
    /\ at = "integration"
    /\ \E passing \in BOOLEAN, issues \in SUBSET Issue, price \in {0, 1} :
          /\ price = 0 => passing
          /\ passing => issues = {}
          /\ cost' = AddReview(cost, price)
          /\ run' = [run EXCEPT !.issues = issues]
          /\ IF passing \/ issues = {}
             THEN Goto("loop") /\ UNCHANGED history
             ELSE /\ Goto("fix integration")
                  /\ history' = IF run.round = 0 THEN Append(history, issues) ELSE history
    /\ UNCHANGED <<reads, files, result, runs, human, worked, lost>>

Loop ==
    /\ at = "loop"
    /\ IF run.cycle < LoopLimit
       THEN CheckCost("review")
       ELSE ExitWith("max_cycles") /\ UNCHANGED cost
    /\ UNCHANGED <<reads, history, files, result, runs, human, worked, lost>>

(* An answer that cannot be parsed is "not passing" without any issue; the  *)
(* issues of one that passes are read by nobody, here and in Integration.   *)
(* New tasks become pending; no dispatcher runs any more.                   *)
Review ==
    /\ at = "review"
    /\ \E passing \in BOOLEAN, issues \in SUBSET Issue, found \in SUBSET Found :
       \E length \in Lengths(issues) :
          /\ passing => issues = {}
          /\ history' = Append(history, issues)
          /\ queue' = [t \in Task |-> IF t \in found /\ queue[t] = "absent" THEN "pending"
                                      ELSE queue[t]]
          /\ cost' = AddReview(cost, 1)
          /\ saved' = saved \cup {"review"}
          /\ LET seen == [run EXCEPT !.issues = issues, !.dirty = FALSE]
             IN  \/ /\ passing
                    /\ run' = [seen EXCEPT !.exit = "clean"]
                    /\ Goto("finish")
                 \/ /\ ~passing /\ Stuck(issues, length, history')
                    /\ run' = [seen EXCEPT !.exit = "stuck"]
                    /\ Goto("finish")
                 \/ /\ ~passing /\ ~Stuck(issues, length, history')
                    /\ run' = [seen EXCEPT !.cycle = @ + 1,
                                           !.again = length > Cardinality(issues)]
                    /\ Goto("fix")
    /\ UNCHANGED <<reads, progress, states, request, response, result, runs, human, worked, lost>>

(* runFixPhase: refused at its own limit; else a fixer for every worker     *)
(* whose files have issues.                                                 *)
Fix ==
    /\ at \in {"fix", "fix integration"}
    /\ IF run.cycle >= run.limit
       THEN /\ ExitWith("max_cycles")
            /\ saved' = saved \cup {"fixes"}
            /\ UNCHANGED states
       ELSE /\ LET price == IF run.issues \cap Owned = {} THEN 0 ELSE 1
               IN  /\ states' = [states EXCEPT !.cost = @ + price,
                                               !.complete = @ \/ price > 0]
                   /\ run' = [run EXCEPT !.issues = {}, !.again = FALSE,
                                         !.fixers = price, !.dirty = @ \/ price > 0,
                                         !.round = IF at = "fix" THEN @ ELSE @ + 1]
            /\ Goto(IF at = "fix" THEN "fixed" ELSE "fixed integration")
            /\ UNCHANGED saved
    /\ UNCHANGED <<cost, reads, history, queue, progress, request, response, result, runs,
                   human, worked, lost>>

(* Bug: when all fixers ended well, nothing is left to review.              *)
TrustFixers ==
    /\ at \in {"fixed", "fixed integration"}
    /\ cost' = AddFixes(cost, run.fixers)
    /\ saved' = saved \cup {"fixes"}
    /\ run' = [run EXCEPT !.fixers = 0, !.exit = IF run.fixers > 0 THEN "clean" ELSE @]
    /\ Goto(IF run.fixers > 0 THEN "finish" ELSE "loop")
    /\ UNCHANGED <<reads, history, queue, progress, states, request, response, result, runs,
                   human, worked, lost>>

(* Their cost is added to the total, under fixes; the interval counts the   *)
(* same money under workers.                                                *)
Fixed ==
    /\ at \in {"fixed", "fixed integration"}
    /\ cost' = AddFixes(cost, run.fixers)
    /\ run' = [run EXCEPT !.fixers = 0]
    /\ saved' = saved \cup {"fixes"}
    /\ Goto(IF at = "fixed integration" /\ run.round < IntegrationFixes
            THEN "integration" ELSE "loop")
    /\ UNCHANGED <<reads, history, queue, progress, states, request, response, result, runs,
                   human, worked, lost>>

-----------------------------------------------------------------------------
(***************************************************************************)
(* The end                                                                  *)
(***************************************************************************)
IsError == run.error \/ run.exit \in {"cost_limit", "stuck"}

(* What the run knew goes with it.                                          *)
Stop(how) ==
    /\ result' = how
    /\ run' = NewRun("no", "scout")
    /\ cost' = NoCost /\ reads' = {}
    /\ history' = << >>
    /\ Goto("idle")

(* progress.json goes when the run itself went well; the result is also an  *)
(* error when the validation that follows a run fails.                      *)
Finish ==
    /\ at = "finish"
    /\ progress' = IF IsError THEN progress ELSE NoProgress
    /\ \E valid \in BOOLEAN : Stop(IF IsError \/ ~valid THEN "failed" ELSE "succeeded")
    /\ UNCHANGED <<queue, states, request, response, saved, runs, human,
                   worked, lost>>

(* An exception or an abort ends the run where it is, a crash the process:  *)
(* the files stay as they are, but for what the crash cuts off.             *)
Fail ==
    /\ at # "idle"
    /\ Stop("failed")
    /\ Cut
    /\ UNCHANGED <<queue, states, request, response, saved, runs, human, worked>>

-----------------------------------------------------------------------------
(***************************************************************************)
(* The status interval: every 2 s, not waiting for the one before           *)
(***************************************************************************)
ReadCosts ==
    /\ at # "idle"
    /\ Cardinality(reads) < MaxReads[runs]
    /\ states.cost \notin reads
    /\ reads' = reads \cup {states.cost}
    /\ UNCHANGED <<at, run, cost, history, files, result, runs, human, worked, lost>>

StoreCosts ==
    /\ \E v \in reads : /\ cost' = Refresh(cost, v)
                        /\ reads' = reads \ {v}
    /\ UNCHANGED <<at, run, history, files, result, runs, human, worked, lost>>

-----------------------------------------------------------------------------
Step ==
    \/ Seed \/ Poll \/ TimeOut
    \/ Checkpoint \/ CoordinatorEnds \/ CoordinatorSkipped \/ DecideReview
    \/ StartReviews \/ Integration \/ Loop \/ Review \/ Fix \/ Fixed
    \/ Finish \/ (at = "fail" /\ Fail)

Next ==
    \/ BeginFresh \/ BeginResumed \/ BeginAtPhase
    \/ Step \/ PollAgain \/ Fail
    \/ \E t \in Task : Claim(t) \/ \E end \in {"complete", "failed"} : Work(t, end)
    \/ Answer \/ AnswerBadly
    \/ ReadCosts \/ StoreCosts

(* The run goes on, and its clock too: the polling ends.  Nobody has to     *)
(* answer, and no run has to begin.                                         *)
Spec == Init /\ [][Next]_vars /\ WF_vars(Step) /\ SF_vars(TimeOut)

-----------------------------------------------------------------------------
(***************************************************************************)
(* Properties                                                               *)
(***************************************************************************)
Label == {"idle", "seed", "poll", "polled", "fail", "coordinator", "checkpoint",
          "after coordinator", "start reviews", "integration", "fix integration", "fixed integration", "loop",
          "review", "fix", "fixed", "finish"}

Amount == Nat

(* The run's variables and the files of its directory hold what they are    *)
(* declared to hold; the history has an entry for the integration review    *)
(* and one for every review, no more than the loop's limit allows.          *)
TypeOK ==
    /\ at \in Label
    /\ run \in Run
    /\ cost \in [coordinator : Amount, workers : Amount, review : Amount, fixes : Amount,
                 total : Amount, limitReached : BOOLEAN]
    /\ reads \subseteq Amount
    /\ history \in Seq(SUBSET Issue) /\ Len(history) <= LoopLimit + 1
    /\ queue \in [Task -> {"absent", "pending_review", "pending", "claimed", "complete", "failed",
                         "skipped"}]
    /\ progress \in [completed : SUBSET Task, failed : SUBSET Task, claimed : SUBSET Task,
                     there : BOOLEAN]
    /\ states \in [cost : Amount, complete : BOOLEAN]
    /\ request \in [tasks : SUBSET Plan, there : BOOLEAN]
    /\ response \in [approved : SUBSET Plan, kind : {"none", "answer", "malformed"}]
    /\ saved \subseteq {"coordinator", "review", "fixes"}
    /\ result \in {"none", "failed", "succeeded"}
    /\ runs \in 0..MaxRuns
    /\ asked \subseteq Plan /\ yes \subseteq Plan
    /\ worked \in [Task -> Nat] /\ lost \in [Task -> Nat]

(* Default-deny: whatever answers come, late, incomplete or unusable, and   *)
(* however often the run is resumed, a task the gate asks about is worked   *)
(* on only if the human has named it as approved.                           *)
HumanDecides ==
    \A t \in Gated :
        \/ queue[t] \in {"claimed", "complete", "failed"}
        \/ queue[t] = "pending" /\ at \in {"coordinator", "checkpoint"}
        => t \in yes

(* A task that the gate does not ask about is completed once in a           *)
(* directory, whatever crashes, failures and resumes come in between, and   *)
(* once more only for every crash that came between its completion in       *)
(* tasks.json and the checkpoint in progress.json.                          *)
UngatedOnce == \A t \in Plan \ Gated : worked[t] <= 1 + lost[t]

(* A run that ends "clean" has changed no file since the review that passed.*)
CleanMeansReviewed == run.exit = "clean" => ~run.dirty

(* The limit holds at every round: no review cycle is begun by a run that   *)
(* has been charged the limit for its coordinator, its reviews and its      *)
(* fixes, however the status intervals rewrite the account meanwhile.       *)
NoReviewBeyondTheLimit ==
    at = "review" => cost.coordinator + cost.review + cost.fixes < CostLimit

(* Fixers are not sent out for the very issues of one of the two reviews    *)
(* before: the loop gives up instead.  It only fails to see that, when the  *)
(* review has few issues and lists one of them more than once.              *)
NoFixInCircles ==
    /\ at = "fix" /\ run.issues # {}
    /\ run.again => Cardinality(run.issues) >= SameIssueLimit
    => LET n == Len(history)
       IN  \A i \in 1..(n - 1) : i >= n - 2 => history[i] # history[n]

(* The loop goes another round only for a reason: it has money left for a    *)
(* review, and its fixers have something new to do.                          *)
NoRoundInVain == NoReviewBeyondTheLimit /\ NoFixInCircles

(* Every run comes to its end, though the human need not answer, reviewers  *)
(* need not be content and fixes need not help.                             *)
Returns == at # "idle" ~> at = "idle"

(* "pending_review -> pending -> claimed -> ..." of what workers add,        *)
(* "pending (FIX-XX) -> claimed -> ..." of what reviewers add, "New tasks   *)
(* picked up without restarting coordination" (README.md): unless the run   *)
(* fails, a task that is added while it goes on does not wait for ever.     *)
AddedIsPickedUp ==
    \A t \in Found : queue[t] \in {"pending_review", "pending"}
                     ~> queue[t] \notin {"pending_review", "pending"} \/ result = "failed"
=============================================================================
