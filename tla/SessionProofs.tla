---------------------------- MODULE SessionProofs ----------------------------
(***************************************************************************)
(* Theorems about coordination runs in a directory, for any plan, any       *)
(* limits and any number of runs: what the gate lets through, how often a   *)
(* task is completed, and when the review loop goes on or ends "clean".     *)
(***************************************************************************)
EXTENDS Session, FiniteSetTheorems, TLAPS

(* What the files hold of gated tasks is what the human has approved.       *)
Decided ==
    /\ response.approved \subseteq yes
    /\ Gated \cap (progress.completed \cup progress.failed \cup progress.claimed) \subseteq yes
    /\ HumanDecides

(* What has been completed and not lost is in the snapshot, or about to be, *)
(* and a run that may work on tasks has taken it over; one that starts at a *)
(* phase works on none.                                                     *)
Once ==
    /\ run.resume = "phase" => run.from \in {"workers", "fixes", "complete"} /\ at # "checkpoint"
    /\ \A t \in Plan \ Gated :
          /\ worked[t] <= 1 + lost[t]
          /\ worked[t] > lost[t] =>
                /\ progress.there => t \in progress.completed \/ at = "checkpoint"
                /\ at \in {"seed", "poll", "polled", "coordinator"} =>
                      run.resume = "phase" \/ t \in progress.completed
                /\ at = "seed" => run.resume # "no"
                /\ at \notin {"idle", "seed"} /\ run.resume # "phase" => queue[t] = "complete"

Clean == run.exit = "clean" => at = "finish" /\ ~run.dirty

(* The total is never behind the parts that the intervals do not rewrite.   *)
Account ==
    /\ cost.total >= cost.coordinator + cost.review + cost.fixes
    /\ cost.limitReached => at = "finish"

Early == {"idle", "seed", "poll", "polled", "fail", "coordinator", "checkpoint",
          "after coordinator", "start reviews"}

(* The history has one entry for every cycle, one for the first integration *)
(* review, and one more for the review that ends the loop.                  *)
Rounds ==
    /\ at \in Early => history = << >> /\ run.cycle = 0 /\ run.round = 0
    /\ at = "integration" => Len(history) <= run.round
    /\ at = "fixed integration" => run.round > 0
    /\ at \in {"integration", "fix integration", "fixed integration"} =>
          run.cycle = 0 /\ Len(history) <= 1
    /\ at \in {"loop", "review", "fix", "fixed"} => Len(history) <= run.cycle + 1
    /\ run.cycle <= LoopLimit
    /\ at = "review" => run.cycle < LoopLimit

LoopInv == Clean /\ Account /\ Rounds /\ NoRoundInVain

FilesInv == Decided /\ Once

SessionInv == TypeOK /\ LoopInv /\ FilesInv

-----------------------------------------------------------------------------
(* What the operators return                                                *)

Statuses == {"absent", "pending_review", "pending", "claimed", "complete", "failed", "skipped"}

Phases == {"scout", "planner", "coordinator", "workers", "integration", "review", "fixes", "complete"}

LEMMA PhaseOrderIs ==
    /\ DOMAIN PhaseOrder = 1..8
    /\ PhaseOrder[1] = "scout" /\ PhaseOrder[2] = "planner" /\ PhaseOrder[3] = "coordinator"
    /\ PhaseOrder[4] = "workers" /\ PhaseOrder[5] = "integration" /\ PhaseOrder[6] = "review"
    /\ PhaseOrder[7] = "fixes" /\ PhaseOrder[8] = "complete"
BY DEF PhaseOrder

LEMMA PhaseSet == {PhaseOrder[i] : i \in DOMAIN PhaseOrder} = Phases
<1>1. \A i \in 1..8 : i = 1 \/ i = 2 \/ i = 3 \/ i = 4 \/ i = 5 \/ i = 6 \/ i = 7 \/ i = 8
  OBVIOUS
<1>. QED
  BY <1>1, PhaseOrderIs DEF Phases

LEMMA PhaseIndices ==
    /\ PhaseIndex("coordinator") = 3 /\ PhaseIndex("workers") = 4 /\ PhaseIndex("review") = 6
    /\ PhaseIndex("fixes") = 7 /\ PhaseIndex("complete") = 8
<1>1. \A i \in 1..8 : i = 1 \/ i = 2 \/ i = 3 \/ i = 4 \/ i = 5 \/ i = 6 \/ i = 7 \/ i = 8
  OBVIOUS
<1>2. \A i \in 1..8 : /\ PhaseOrder[i] = "coordinator" => i = 3
                      /\ PhaseOrder[i] = "workers" => i = 4
                      /\ PhaseOrder[i] = "review" => i = 6
                      /\ PhaseOrder[i] = "fixes" => i = 7
                      /\ PhaseOrder[i] = "complete" => i = 8
  BY <1>1, PhaseOrderIs
<1>3. 3 \in 1..8 /\ 4 \in 1..8 /\ 6 \in 1..8 /\ 7 \in 1..8 /\ 8 \in 1..8
  OBVIOUS
<1>. QED
  BY <1>2, <1>3, PhaseOrderIs DEF PhaseIndex

LEMMA LaterPhases ==
    ASSUME NEW phase \in {"coordinator", "review", "fixes"}
    PROVE  NextPhase(phase) \in {"workers", "fixes", "complete"}
<1>1. PhaseIndex(phase) + 1 \in {4, 7, 8}
  BY PhaseIndices
<1>. QED
  BY <1>1, PhaseOrderIs DEF NextPhase

LEMMA NoWorkLater ==
    ASSUME NEW from \in {"workers", "fixes", "complete"}
    PROVE  ~ShouldRun(from, "coordinator")
BY PhaseIndices DEF ShouldRun

LEMMA Limits ==
    /\ LoopLimit \in Nat /\ CostLimit \in Nat /\ SameIssueLimit \in Nat /\ MaxRuns \in Nat
    /\ FixLimits \subseteq Nat /\ IntegrationFixes \in Nat /\ IsFiniteSet(Issue)
    /\ Gated \subseteq Plan /\ Plan \subseteq Task
BY SessionAssumption, PipelineAssumption DEF Gated, Task

LEMMA LoopLimits == LoopLimit \in Nat /\ 0 <= LoopLimit /\ 1 <= LoopLimit + 1
BY SessionAssumption

LEMMA Types ==
    ASSUME SessionInv
    PROVE  /\ at \in Label /\ run \in Run /\ reads \subseteq Nat /\ history \in Seq(SUBSET Issue)
           /\ cost \in [coordinator : Nat, workers : Nat, review : Nat, fixes : Nat,
                        total : Nat, limitReached : BOOLEAN]
           /\ Len(history) \in Nat /\ Len(history) <= LoopLimit + 1
           /\ queue \in [Task -> Statuses]
           /\ progress \in [completed : SUBSET Task, failed : SUBSET Task, claimed : SUBSET Task, there : BOOLEAN]
           /\ states \in [cost : Nat, complete : BOOLEAN]
           /\ response \in [approved : SUBSET Plan, kind : {"none", "answer", "malformed"}]
           /\ saved \subseteq {"coordinator", "review", "fixes"}
           /\ runs \in 0..MaxRuns /\ asked \subseteq Plan /\ yes \subseteq Plan
           /\ worked \in [Task -> Nat] /\ lost \in [Task -> Nat]
BY DEF SessionInv, TypeOK, Amount, Statuses

(* The fields of what a run knows.                                          *)
LEMMA RunFields ==
    ASSUME NEW r \in Run
    PROVE  /\ r.resume \in {"no", "tasks", "phase"} /\ r.from \in Phases
           /\ r.output \in BOOLEAN /\ r.error \in BOOLEAN /\ r.exit \in Exit
           /\ r.cycle \in Nat /\ r.round \in Nat /\ r.issues \in SUBSET Issue
           /\ r.again \in BOOLEAN /\ r.limit \in FixLimits \cup {0} /\ r.fixers \in Nat /\ r.dirty \in BOOLEAN
BY PhaseSet DEF Run

LEMMA NewRunType ==
    ASSUME NEW resume \in {"no", "tasks", "phase"}, NEW from \in Phases
    PROVE  /\ NewRun(resume, from) \in Run
           /\ NewRun(resume, from).resume = resume /\ NewRun(resume, from).from = from
           /\ NewRun(resume, from).exit = "none"
           /\ NewRun(resume, from).cycle = 0 /\ NewRun(resume, from).round = 0
BY PhaseSet DEF NewRun, Run, Exit

(* A field of it changes at a time.                                         *)
LEMMA RunUpdates ==
    ASSUME NEW r \in Run, NEW bool \in BOOLEAN, NEW exit \in Exit, NEW n \in Nat,
           NEW issues \in SUBSET Issue, NEW limit \in FixLimits \cup {0}
    PROVE  /\ [r EXCEPT !.output = bool] \in Run
           /\ [r EXCEPT !.error = bool] \in Run
           /\ [r EXCEPT !.dirty = bool] \in Run
           /\ [r EXCEPT !.again = bool] \in Run
           /\ [r EXCEPT !.exit = exit] \in Run
           /\ [r EXCEPT !.cycle = n] \in Run
           /\ [r EXCEPT !.round = n] \in Run
           /\ [r EXCEPT !.fixers = n] \in Run
           /\ [r EXCEPT !.issues = issues] \in Run
           /\ [r EXCEPT !.limit = limit] \in Run
<1>1. [r EXCEPT !.output = bool] \in Run
  BY DEF Run
<1>2. [r EXCEPT !.error = bool] \in Run
  BY DEF Run
<1>3. [r EXCEPT !.dirty = bool] \in Run /\ [r EXCEPT !.again = bool] \in Run
  BY DEF Run
<1>4. [r EXCEPT !.exit = exit] \in Run
  BY DEF Run
<1>5. [r EXCEPT !.cycle = n] \in Run /\ [r EXCEPT !.round = n] \in Run /\ [r EXCEPT !.fixers = n] \in Run
  BY DEF Run
<1>6. [r EXCEPT !.issues = issues] \in Run
  BY DEF Run
<1>7. [r EXCEPT !.limit = limit] \in Run
  BY DEF Run
<1>. QED
  BY <1>1, <1>2, <1>3, <1>4, <1>5, <1>6, <1>7

-----------------------------------------------------------------------------
(* The cost account                                                         *)

Cost == [coordinator : Nat, workers : Nat, review : Nat, fixes : Nat, total : Nat,
         limitReached : BOOLEAN]

(* What the limit is about: all but the workers' cost.                      *)
Charged(c) == c.coordinator + c.review + c.fixes

LEMMA CostFields ==
    ASSUME NEW c \in Cost
    PROVE  /\ c.coordinator \in Nat /\ c.workers \in Nat /\ c.review \in Nat /\ c.fixes \in Nat
           /\ c.total \in Nat /\ c.limitReached \in BOOLEAN /\ Charged(c) \in Nat
BY DEF Cost, Charged

LEMMA NoCostType == NoCost \in Cost /\ NoCost.total >= Charged(NoCost) /\ ~NoCost.limitReached
BY DEF NoCost, Cost, Charged

LEMMA RefreshEffect ==
    ASSUME NEW c \in Cost, NEW amount \in Nat
    PROVE  /\ Refresh(c, amount) \in Cost /\ Charged(Refresh(c, amount)) = Charged(c)
           /\ Refresh(c, amount).limitReached = c.limitReached
           /\ Refresh(c, amount).total >= Charged(Refresh(c, amount))
<1> DEFINE new == [c EXCEPT !.workers = amount]
<1>1. /\ new \in Cost /\ new.workers = amount /\ new.coordinator = c.coordinator
      /\ new.review = c.review /\ new.fixes = c.fixes /\ new.limitReached = c.limitReached
  BY DEF Cost
<1>2. PICK sum \in Nat : sum = ByPhase(new) /\ sum >= Charged(c)
  BY <1>1, CostFields DEF ByPhase, Charged
<1>3. Refresh(c, amount) = [new EXCEPT !.total = sum]
  BY <1>2 DEF Refresh
<1>. HIDE DEF new
<1>4. /\ [new EXCEPT !.total = sum] \in Cost /\ [new EXCEPT !.total = sum].total = sum
      /\ [new EXCEPT !.total = sum].coordinator = new.coordinator
      /\ [new EXCEPT !.total = sum].review = new.review
      /\ [new EXCEPT !.total = sum].fixes = new.fixes
      /\ [new EXCEPT !.total = sum].limitReached = new.limitReached
  BY <1>1 DEF Cost
<1>. QED
  BY <1>1, <1>2, <1>3, <1>4 DEF Charged

LEMMA AddReviewEffect ==
    ASSUME NEW c \in Cost, NEW amount \in Nat
    PROVE  /\ AddReview(c, amount) \in Cost
           /\ AddReview(c, amount).limitReached = c.limitReached
           /\ AddReview(c, amount).total = c.total + amount
           /\ Charged(AddReview(c, amount)) = Charged(c) + amount
<1>1. PICK a, b \in Nat : a = c.review + amount /\ b = c.total + amount
  BY CostFields
<1>2. AddReview(c, amount) = [c EXCEPT !.review = a, !.total = b]
  BY <1>1 DEF AddReview
<1>3. /\ [c EXCEPT !.review = a, !.total = b] \in Cost
      /\ [c EXCEPT !.review = a, !.total = b].review = a
      /\ [c EXCEPT !.review = a, !.total = b].total = b
      /\ [c EXCEPT !.review = a, !.total = b].coordinator = c.coordinator
      /\ [c EXCEPT !.review = a, !.total = b].fixes = c.fixes
      /\ [c EXCEPT !.review = a, !.total = b].limitReached = c.limitReached
  BY DEF Cost
<1>. QED
  BY <1>1, <1>2, <1>3, CostFields DEF Charged

LEMMA AddFixesEffect ==
    ASSUME NEW c \in Cost, NEW amount \in Nat
    PROVE  /\ AddFixes(c, amount) \in Cost
           /\ AddFixes(c, amount).limitReached = c.limitReached
           /\ AddFixes(c, amount).total = c.total + amount
           /\ Charged(AddFixes(c, amount)) = Charged(c) + amount
<1>1. PICK a, b \in Nat : a = c.fixes + amount /\ b = c.total + amount
  BY CostFields
<1>2. AddFixes(c, amount) = [c EXCEPT !.fixes = a, !.total = b]
  BY <1>1 DEF AddFixes
<1>3. /\ [c EXCEPT !.fixes = a, !.total = b] \in Cost
      /\ [c EXCEPT !.fixes = a, !.total = b].fixes = a
      /\ [c EXCEPT !.fixes = a, !.total = b].total = b
      /\ [c EXCEPT !.fixes = a, !.total = b].coordinator = c.coordinator
      /\ [c EXCEPT !.fixes = a, !.total = b].review = c.review
      /\ [c EXCEPT !.fixes = a, !.total = b].limitReached = c.limitReached
  BY DEF Cost
<1>. QED
  BY <1>1, <1>2, <1>3, CostFields DEF Charged

LEMMA AddCoordinatorEffect ==
    ASSUME NEW c \in Cost, NEW amount \in Nat, NEW workers \in Nat, c.total >= Charged(c)
    PROVE  /\ AddCoordinator(c, amount, workers) \in Cost
           /\ AddCoordinator(c, amount, workers).limitReached = c.limitReached
           /\ AddCoordinator(c, amount, workers).total >= Charged(AddCoordinator(c, amount, workers))
<1>1. PICK b \in Nat : b = c.total + amount + workers
  BY CostFields
<1> DEFINE new == [c EXCEPT !.coordinator = amount, !.workers = workers, !.total = b]
<1>2. AddCoordinator(c, amount, workers) = new
  BY <1>1 DEF AddCoordinator
<1>3. /\ new \in Cost /\ new.coordinator = amount /\ new.total = b
      /\ new.review = c.review /\ new.fixes = c.fixes /\ new.limitReached = c.limitReached
  BY DEF Cost
<1>. HIDE DEF new
<1>4. c.total \in Nat /\ c.review \in Nat /\ c.fixes \in Nat /\ c.coordinator \in Nat
  BY CostFields
<1>. QED
  BY <1>1, <1>2, <1>3, <1>4 DEF Charged

LEMMA LimitEffect ==
    ASSUME NEW c \in Cost
    PROVE  /\ [c EXCEPT !.limitReached = TRUE] \in Cost
           /\ [c EXCEPT !.limitReached = TRUE].total = c.total
           /\ Charged([c EXCEPT !.limitReached = TRUE]) = Charged(c)
BY DEF Cost, Charged

-----------------------------------------------------------------------------
(* What keeps the loop's part of the invariant, and the files' part         *)

LEMMA LoopFacts ==
    ASSUME SessionInv
    PROVE  /\ run \in Run /\ cost \in Cost /\ run.cycle \in Nat /\ run.round \in Nat
           /\ run.exit \in Exit /\ run.issues \in SUBSET Issue
           /\ Len(history) \in Nat /\ history \in Seq(SUBSET Issue)
           /\ cost.total >= Charged(cost) /\ (cost.limitReached => at = "finish")
           /\ (run.exit = "clean" => at = "finish" /\ ~run.dirty)
           /\ Rounds
<1>1. run \in Run /\ cost \in Cost /\ history \in Seq(SUBSET Issue) /\ Len(history) \in Nat
  BY Types DEF Cost
<1>2. Clean /\ Account /\ Rounds
  BY DEF SessionInv, LoopInv
<1>. QED
  BY <1>1, <1>2, RunFields DEF Clean, Account, Charged

(* Nothing that the loop is about changes.                                  *)
LEMMA LoopStays ==
    ASSUME SessionInv, at' = at, run' = run, history' = history, cost' = cost
    PROVE  LoopInv'
BY DEF SessionInv, LoopInv, Clean, Account, Rounds, NoRoundInVain, NoReviewBeyondTheLimit,
       NoFixInCircles

(* Before the reviews there is nothing to be in vain.                       *)
LEMMA LoopEarly ==
    ASSUME at' \in Early, history' = << >>, run' \in Run, run'.cycle = 0, run'.round = 0,
           run'.exit # "clean", cost'.total >= Charged(cost'), ~cost'.limitReached
    PROVE  LoopInv'
<1>1. Clean' /\ Account'
  BY DEF Clean, Account, Charged
<1>2. Rounds'
  <2>1. run'.cycle <= LoopLimit
    BY Limits
  <2>. QED
    BY <2>1 DEF Rounds, Early
<1>3. NoRoundInVain'
  BY DEF NoRoundInVain, NoReviewBeyondTheLimit, NoFixInCircles, Early
<1>. QED
  BY <1>1, <1>2, <1>3 DEF LoopInv

(* The run is about to finish.                                              *)
LEMMA LoopFinishes ==
    ASSUME at' = "finish", run' \in Run, run'.cycle <= LoopLimit, cost' \in Cost,
           run'.exit = "clean" => ~run'.dirty, cost'.total >= Charged(cost')
    PROVE  LoopInv'
<1>1. Clean' /\ Account'
  BY DEF Clean, Account, Charged
<1>2. Rounds'
  BY DEF Rounds, Early
<1>3. NoRoundInVain'
  BY DEF NoRoundInVain, NoReviewBeyondTheLimit, NoFixInCircles
<1>. QED
  BY <1>1, <1>2, <1>3 DEF LoopInv

(* What the gate and the resumes are about does not change, and no run      *)
(* begins.                                                                  *)
LEMMA FilesStay ==
    ASSUME SessionInv, UNCHANGED <<progress, response, yes, worked, lost>>,
           \A t \in Plan : queue'[t] = queue[t],
           run'.resume = run.resume, run'.from = run.from,
           at' \in {"seed", "poll", "polled", "coordinator"} => at' = at,
           at' = "checkpoint" <=> at = "checkpoint",
           at \in {"idle", "seed"} => at' \in {"idle", "seed"}
    PROVE  FilesInv'
<1>1. Decided'
  BY Limits DEF SessionInv, FilesInv, Decided, HumanDecides, Gated
<1>2. Once'
  BY DEF SessionInv, FilesInv, Once, Gated
<1>. QED
  BY <1>1, <1>2 DEF FilesInv

(* What has been completed, and is not lost by this step, is in the         *)
(* snapshot, if there is one.                                               *)
Settles ==
    /\ lost' \in [Task -> Nat]
    /\ \A t \in Plan \ Gated :
          /\ worked[t] <= 1 + lost'[t]
          /\ worked[t] > lost'[t] => /\ worked[t] > lost[t]
                                     /\ progress'.there => t \in progress'.completed

(* A process that dies before its checkpoint loses what it has completed.   *)
LEMMA CutSettles ==
    ASSUME SessionInv, Cut
    PROVE  Settles /\ (progress' = progress \/ progress' = NoProgress)
<1>1. /\ progress' = progress \/ progress' = NoProgress
      /\ lost' = [t \in Task |->
                     IF at = "checkpoint" /\ queue[t] = "complete" /\ t \notin progress.completed
                     THEN lost[t] + 1 ELSE lost[t]]
  BY DEF Cut
<1>2. lost \in [Task -> Nat] /\ worked \in [Task -> Nat] /\ Plan \subseteq Task
  BY Types, Limits
<1>3. lost' \in [Task -> Nat]
  BY <1>1, <1>2
<1>4. ~NoProgress.there
  BY DEF NoProgress
<1>5. ASSUME NEW t \in Plan \ Gated
      PROVE  /\ worked[t] <= 1 + lost'[t]
             /\ worked[t] > lost'[t] => /\ worked[t] > lost[t]
                                        /\ progress'.there => t \in progress'.completed
  <2>1. t \in Task /\ lost[t] \in Nat /\ worked[t] \in Nat
    BY <1>2
  <2>2. /\ worked[t] <= 1 + lost[t]
        /\ worked[t] > lost[t] =>
              /\ progress.there => t \in progress.completed \/ at = "checkpoint"
              /\ at = "checkpoint" => queue[t] = "complete"
    BY DEF SessionInv, FilesInv, Once
  <2>3. CASE at = "checkpoint" /\ queue[t] = "complete" /\ t \notin progress.completed
    <3>1. lost'[t] = lost[t] + 1
      BY <1>1, <2>1, <2>3
    <3>. QED
      BY <2>1, <2>2, <3>1
  <2>4. CASE ~(at = "checkpoint" /\ queue[t] = "complete" /\ t \notin progress.completed)
    <3>1. lost'[t] = lost[t]
      BY <1>1, <2>1, <2>4
    <3>. QED
      BY <1>1, <1>4, <2>2, <2>4, <3>1
  <2>. QED
    BY <2>3, <2>4
<1>. QED
  BY <1>1, <1>3, <1>5 DEF Settles

(* The run ends; its snapshot may go.                                       *)
LEMMA FilesIdle ==
    ASSUME SessionInv, UNCHANGED <<queue, response, yes, worked>>,
           at' = "idle", run' = NewRun("no", "scout"), Settles,
           progress' = progress \/ progress' = NoProgress
    PROVE  FilesInv'
<1>1. /\ NoProgress.completed = {} /\ NoProgress.failed = {} /\ NoProgress.claimed = {}
      /\ ~NoProgress.there
  BY DEF NoProgress
<1>2. Decided'
  BY <1>1, Limits DEF SessionInv, FilesInv, Decided, HumanDecides, Gated
<1>3. run'.resume = "no"
  BY NewRunType DEF Phases
<1>4. Once'
  BY <1>3 DEF Settles, Once, Gated
<1>. QED
  BY <1>2, <1>4 DEF FilesInv

(* The types that all but a few steps leave alone.                          *)
LEMMA TypesStay ==
    ASSUME SessionInv, at' \in Label, run' \in Run, cost' \in Cost, reads' \subseteq Nat,
           history' \in Seq(SUBSET Issue), Len(history') <= LoopLimit + 1,
           queue' \in [Task -> Statuses],
           progress' \in [completed : SUBSET Task, failed : SUBSET Task, claimed : SUBSET Task, there : BOOLEAN],
           states' \in [cost : Nat, complete : BOOLEAN],
           request' \in [tasks : SUBSET Plan, there : BOOLEAN],
           response' \in [approved : SUBSET Plan, kind : {"none", "answer", "malformed"}],
           saved' \subseteq {"coordinator", "review", "fixes"},
           result' \in {"none", "failed", "succeeded"}, runs' \in 0..MaxRuns,
           asked' \subseteq Plan, yes' \subseteq Plan, worked' \in [Task -> Nat],
           lost' \in [Task -> Nat]
    PROVE  TypeOK'
BY DEF TypeOK, Amount, Cost, Statuses

LEMMA MoreTypes ==
    ASSUME SessionInv
    PROVE  /\ request \in [tasks : SUBSET Plan, there : BOOLEAN]
           /\ result \in {"none", "failed", "succeeded"} /\ cost \in Cost
BY DEF SessionInv, TypeOK, Cost, Amount

LEMMA InitHolds == Init => SessionInv
<1> SUFFICES ASSUME Init PROVE SessionInv
  OBVIOUS
<1>1. /\ run \in Run /\ run.resume = "no" /\ run.from = "scout" /\ run.exit = "none"
      /\ run.cycle = 0 /\ run.round = 0
  BY NewRunType DEF Init, Phases
<1>2. cost \in Cost /\ cost.total >= Charged(cost) /\ ~cost.limitReached
  BY NoCostType DEF Init
<1>3. at = "idle" /\ history = << >>
  BY DEF Init
<1>4. TypeOK
  <2>1. history \in Seq(SUBSET Issue) /\ Len(history) = 0 /\ 0 <= LoopLimit + 1
    BY <1>3, Limits
  <2>2. queue \in [Task -> Statuses]
    BY DEF Init, InPlan, Statuses
  <2>3. progress \in [completed : SUBSET Task, failed : SUBSET Task, claimed : SUBSET Task, there : BOOLEAN]
    BY DEF Init, NoProgress
  <2>4. states \in [cost : Nat, complete : BOOLEAN]
    BY DEF Init, NoStates
  <2>5. request \in [tasks : SUBSET Plan, there : BOOLEAN]
    BY DEF Init, NoFile
  <2>6. response \in [approved : SUBSET Plan, kind : {"none", "answer", "malformed"}]
    BY DEF Init, NoAnswer
  <2>7. /\ reads = {} /\ saved = {} /\ result = "none" /\ runs \in 0..MaxRuns
        /\ asked = {} /\ yes = {} /\ worked \in [Task -> Nat] /\ lost \in [Task -> Nat]
    BY Limits DEF Init
  <2>. QED
    BY <1>1, <1>2, <1>3, <2>1, <2>2, <2>3, <2>4, <2>5, <2>6, <2>7 DEF TypeOK, Amount, Cost, Label, Statuses
<1>5. LoopInv
  <2>1. Clean /\ Account
    BY <1>1, <1>2 DEF Clean, Account, Charged
  <2>2. Rounds
    <3>1. run.cycle <= LoopLimit
      BY <1>1, Limits
    <3>. QED
      BY <1>1, <1>3, <3>1 DEF Rounds, Early
  <2>3. NoRoundInVain
    BY <1>3 DEF NoRoundInVain, NoReviewBeyondTheLimit, NoFixInCircles
  <2>. QED
    BY <2>1, <2>2, <2>3 DEF LoopInv
<1>6. FilesInv
  <2>1. \A t \in Plan : worked[t] = 0 /\ lost[t] = 0 /\ queue[t] = "absent"
    <3>1. Plan \subseteq Task
      BY Limits
    <3>2. ASSUME NEW t \in Plan PROVE queue[t] \in {"absent"}
      BY <3>1 DEF Init, InPlan
    <3>. QED
      BY <3>1, <3>2 DEF Init
  <2>2. Decided
    BY <2>1, Limits DEF Decided, HumanDecides, Init, NoAnswer, NoProgress
  <2>3. Once
    BY <1>1, <1>3, <2>1, Limits DEF Once
  <2>. QED
    BY <2>2, <2>3 DEF FilesInv
<1>. QED
  BY <1>4, <1>5, <1>6 DEF SessionInv

-----------------------------------------------------------------------------
(* Each step keeps the invariant: the beginning of a run                    *)

LEMMA BeginLoop ==
    ASSUME SessionInv, NEW resume \in {"no", "tasks", "phase"}, NEW from \in Phases,
           Begin(resume, from)
    PROVE  /\ LoopInv' /\ run' \in Run /\ run'.resume = resume /\ run'.from = from
           /\ at = "idle" /\ at' = "seed" /\ history' = << >> /\ cost' \in Cost /\ reads' \subseteq Nat
           /\ result' = "none" /\ runs' \in 0..MaxRuns
<1>1. at = "idle" /\ at' = "seed" /\ run' = NewRun(resume, from) /\ result' = "none"
      /\ cost' = cost /\ history' = history /\ reads' = reads
  BY DEF Begin, Goto
<1>2. history = << >> /\ ~cost.limitReached
  BY <1>1, LoopFacts DEF Rounds, Early
<1>3. runs' \in 0..MaxRuns
  <2>1. runs \in 0..MaxRuns /\ runs < MaxRuns /\ runs' = runs + 1 /\ MaxRuns \in Nat
    BY Types, Limits DEF Begin
  <2>. QED
    BY <2>1
<1>4. /\ run' \in Run /\ run'.resume = resume /\ run'.from = from
      /\ run'.cycle = 0 /\ run'.round = 0 /\ run'.exit # "clean"
  BY <1>1, NewRunType
<1>5. LoopInv'
  BY <1>1, <1>2, <1>4, LoopFacts, LoopEarly DEF Early
<1>. QED
  BY <1>1, <1>2, <1>3, <1>4, <1>5, Types, LoopFacts

(* Whatever a run finds or does not find in a new directory.                *)
LEMMA NewDirectoryHolds ==
    ASSUME SessionInv, NEW resume \in {"no", "tasks", "phase"}, Begin(resume, "scout"),
           resume # "phase", NewDirectory
    PROVE  SessionInv'
<1>1. /\ LoopInv' /\ run' \in Run /\ run'.resume = resume
      /\ at' = "seed" /\ history' = << >> /\ cost' \in Cost /\ reads' \subseteq Nat
      /\ result' = "none" /\ runs' \in 0..MaxRuns
  BY BeginLoop DEF Phases
<1>2. /\ queue' \in [Task -> Statuses]
      /\ \A t \in Plan : queue'[t] = "absent"
  <2>1. queue' = InPlan("absent") /\ Plan \subseteq Task
    BY Limits DEF NewDirectory
  <2>2. InPlan("absent") \in [Task -> Statuses] /\ \A t \in Plan : InPlan("absent")[t] = "absent"
    BY <2>1 DEF InPlan, Statuses
  <2>. QED
    BY <2>1, <2>2
<1>3. progress' \in [completed : SUBSET Task, failed : SUBSET Task, claimed : SUBSET Task, there : BOOLEAN]
      /\ progress'.completed = {} /\ progress'.failed = {} /\ progress'.claimed = {}
  BY DEF NewDirectory, NoProgress
<1>4. states' \in [cost : Nat, complete : BOOLEAN]
  BY DEF NewDirectory, NoStates
<1>5. request' \in [tasks : SUBSET Plan, there : BOOLEAN]
  BY DEF NewDirectory, NoFile
<1>6. response' \in [approved : SUBSET Plan, kind : {"none", "answer", "malformed"}]
      /\ response'.approved = {}
  BY DEF NewDirectory, NoAnswer
<1>7. saved' = {} /\ asked' = {} /\ yes' = {} /\ worked' = [t \in Task |-> 0]
      /\ lost' = [t \in Task |-> 0]
  BY DEF NewDirectory
<1>8. TypeOK'
  <2>1. history' \in Seq(SUBSET Issue) /\ Len(history') <= LoopLimit + 1
    BY <1>1, Limits
  <2>2. worked' \in [Task -> Nat] /\ lost' \in [Task -> Nat] /\ at' \in Label
    BY <1>1, <1>7 DEF Label
  <2>. QED
    BY <1>1, <1>2, <1>3, <1>4, <1>5, <1>6, <1>7, <2>1, <2>2, TypesStay
<1>9. Decided'
  BY <1>2, <1>3, <1>6, Limits DEF Decided, HumanDecides, Gated
<1>10. Once'
  <2>1. \A t \in Plan \ Gated : worked'[t] = 0 /\ lost'[t] = 0
    BY <1>7, Limits
  <2>. QED
    BY <1>1, <2>1 DEF Once, Gated
<1>. QED
  BY <1>1, <1>8, <1>9, <1>10 DEF SessionInv, FilesInv

(* A run in the directory of an earlier one.                                *)
LEMMA OldDirectoryHolds ==
    ASSUME SessionInv, NEW resume \in {"no", "tasks", "phase"}, NEW from \in Phases,
           Begin(resume, from), UNCHANGED <<files, human, worked, lost>>,
           \/ resume = "tasks" /\ progress.there
           \/ resume = "phase" /\ from \in {"workers", "fixes", "complete"}
    PROVE  SessionInv'
<1>1. /\ LoopInv' /\ run' \in Run /\ run'.resume = resume /\ run'.from = from
      /\ at = "idle" /\ at' = "seed" /\ history' = << >> /\ cost' \in Cost /\ reads' \subseteq Nat
      /\ result' = "none" /\ runs' \in 0..MaxRuns
  BY BeginLoop
<1>2. UNCHANGED <<queue, progress, states, request, response, saved, asked, yes, worked, lost>>
  BY DEF files, human
<1>3. TypeOK'
  <2>1. history' \in Seq(SUBSET Issue) /\ Len(history') <= LoopLimit + 1
    BY <1>1, Limits
  <2>2. at' \in Label
    BY <1>1 DEF Label
  <2>. QED
    BY <1>1, <1>2, <2>1, <2>2, TypesStay, Types, MoreTypes
<1>4. Decided'
  BY <1>1, <1>2, Limits DEF SessionInv, FilesInv, Decided, HumanDecides, Gated
<1>5. Once'
  BY <1>1, <1>2 DEF SessionInv, FilesInv, Once, Gated
<1>. QED
  BY <1>1, <1>3, <1>4, <1>5 DEF SessionInv, FilesInv

LEMMA BeginFreshKeeps ==
    ASSUME SessionInv, BeginFresh
    PROVE  SessionInv'
BY NewDirectoryHolds DEF BeginFresh

LEMMA BeginResumedKeeps ==
    ASSUME SessionInv, BeginResumed
    PROVE  SessionInv'
<1>1. CASE progress.there
  BY <1>1, OldDirectoryHolds DEF BeginResumed, Phases
<1>2. CASE ~progress.there
  BY <1>2, NewDirectoryHolds DEF BeginResumed
<1>. QED
  BY <1>1, <1>2

LEMMA BeginAtPhaseKeeps ==
    ASSUME SessionInv, BeginAtPhase
    PROVE  SessionInv'
<1>1. ASSUME NEW phase \in saved, Begin("phase", NextPhase(phase)),
             UNCHANGED <<files, human, worked, lost>>
      PROVE  SessionInv'
  <2>1. NextPhase(phase) \in {"workers", "fixes", "complete"}
    BY Types, LaterPhases
  <2>2. PICK from \in Phases : from = NextPhase(phase)
    BY <2>1 DEF Phases
  <2>. QED
    BY <1>1, <2>1, <2>2, OldDirectoryHolds
<1>2. ASSUME runs < MaxRuns, runs' = runs + 1, result' = "failed",
             UNCHANGED <<at, run, cost, reads, history, files, human, worked, lost>>
      PROVE  SessionInv'
  <2>1. UNCHANGED <<at, run, cost, reads, history, queue, progress, states, request, response,
                    saved, asked, yes, worked, lost>>
    BY <1>2 DEF files, human
  <2>2. runs' \in 0..MaxRuns
    <3>1. runs \in 0..MaxRuns /\ MaxRuns \in Nat
      BY Types, Limits
    <3>. QED
      BY <1>2, <3>1
  <2>3. TypeOK'
    BY <1>2, <2>1, <2>2, TypesStay, Types, MoreTypes
  <2>4. LoopInv'
    BY <2>1, LoopStays
  <2>5. FilesInv'
    BY <2>1, FilesStay
  <2>. QED
    BY <2>3, <2>4, <2>5 DEF SessionInv
<1>. QED
  BY <1>1, <1>2 DEF BeginAtPhase

(* Until the reviews start the loop's variables are as they began.          *)
LEMMA BeforeReviews ==
    ASSUME SessionInv, at \in Early
    PROVE  /\ history = << >> /\ run.cycle = 0 /\ run.round = 0 /\ run.exit # "clean"
           /\ ~cost.limitReached /\ at # "finish"
BY LoopFacts DEF Rounds, Early

LEMMA LoopStaysEarly ==
    ASSUME SessionInv, at \in Early, at' \in Early, UNCHANGED <<run, cost, history>>
    PROVE  LoopInv'
<1>1. history' = << >> /\ run'.cycle = 0 /\ run'.round = 0 /\ run'.exit # "clean" /\ ~cost'.limitReached
  BY BeforeReviews
<1>2. run' \in Run /\ cost'.total >= Charged(cost')
  BY LoopFacts
<1>. QED
  BY <1>1, <1>2, LoopEarly

LEMMA SeedKeeps ==
    ASSUME SessionInv, Seed
    PROVE  SessionInv'
<1>1. /\ at = "seed" /\ queue' = [t \in Task |-> IF t \in Plan THEN StatusOnResume(t) ELSE "absent"]
      /\ UNCHANGED <<run, cost, reads, history, progress, states, response, saved, result,
                     runs, yes, worked, lost>>
  BY DEF Seed
<1>2. \/ Gated = {} /\ at' = "coordinator" /\ UNCHANGED <<request, asked>>
      \/ at' = "poll" /\ request' = [tasks |-> Gated, there |-> TRUE] /\ asked' = Gated
  BY DEF Seed, Goto
<1>3. \A t \in Task : StatusOnResume(t) \in {"pending", "complete", "failed"}
  BY DEF StatusOnResume
<1>4. \A t \in Task : StatusOnResume(t) \in {"complete", "failed"}
                      => t \in progress.completed \cup progress.failed \cup progress.claimed
  BY DEF StatusOnResume
<1>5. \A t \in Task : run.resume = "tasks" /\ t \in progress.completed => StatusOnResume(t) = "complete"
  BY DEF StatusOnResume
<1>6. queue' \in [Task -> Statuses] /\ \A t \in Plan : queue'[t] = StatusOnResume(t)
  BY <1>1, <1>3, Limits DEF Statuses
<1>7. TypeOK'
  <2>1. request' \in [tasks : SUBSET Plan, there : BOOLEAN] /\ asked' \subseteq Plan /\ at' \in Label
    <3>1. Gated \in SUBSET Plan /\ at' \in Label
      BY <1>2, Limits DEF Label
    <3>2. CASE UNCHANGED <<request, asked>>
      BY <3>1, <3>2, Types, MoreTypes
    <3>3. CASE request' = [tasks |-> Gated, there |-> TRUE] /\ asked' = Gated
      BY <3>1, <3>3
    <3>. QED
      BY <1>2, <3>2, <3>3
  <2>. QED
    BY <1>1, <1>6, <2>1, TypesStay, Types, MoreTypes DEF Statuses
<1>8. LoopInv'
  BY <1>1, <1>2, LoopStaysEarly DEF Early
<1>9. Decided'
  <2>1. Decided /\ Gated \subseteq Plan /\ Plan \subseteq Task
    BY Limits DEF SessionInv, FilesInv
  <2>2. ASSUME NEW t \in Gated,
               \/ queue'[t] \in {"claimed", "complete", "failed"}
               \/ queue'[t] = "pending" /\ at' \in {"coordinator", "checkpoint"}
        PROVE  t \in yes
    <3>1. t \in Task /\ queue'[t] = StatusOnResume(t) /\ at' = "poll"
      BY <1>2, <1>6, <2>1
    <3>2. StatusOnResume(t) \in {"complete", "failed"}
      BY <1>3, <2>2, <3>1
    <3>. QED
      BY <1>4, <2>1, <3>1, <3>2 DEF Decided
  <2>. QED
    BY <1>1, <2>1, <2>2 DEF Decided, HumanDecides, Gated
<1>10. Once'
  <2>1. Once /\ Plan \subseteq Task
    BY Limits DEF SessionInv, FilesInv
  <2>2. at' \notin {"idle", "seed", "checkpoint"}
    BY <1>2
  <2>3. ASSUME NEW t \in Plan \ Gated, worked[t] > lost[t], run.resume # "phase"
        PROVE  queue'[t] = "complete" /\ t \in progress.completed
    <3>1. t \in progress.completed /\ run.resume = "tasks" /\ t \in Task
      BY <1>1, <2>1, <2>3, Types, RunFields DEF Once
    <3>. QED
      BY <1>5, <1>6, <2>3, <3>1
  <2>. QED
    BY <1>1, <2>1, <2>2, <2>3 DEF Once, Gated
<1>. QED
  BY <1>7, <1>8, <1>9, <1>10 DEF SessionInv, FilesInv

-----------------------------------------------------------------------------
(* The gate                                                                 *)

LEMMA AnswerKeeps ==
    ASSUME SessionInv, Answer
    PROVE  SessionInv'
<1>1. PICK approved \in SUBSET asked :
         response' = [approved |-> approved, kind |-> "answer"] /\ yes' = yes \cup approved
  BY DEF Answer
<1>2. /\ asked' = {}
      /\ UNCHANGED <<at, run, cost, reads, history, queue, progress, states, request, saved,
                     result, runs, worked, lost>>
  BY DEF Answer
<1>3. approved \subseteq Plan
  BY <1>1, Types
<1>4. response' \in [approved : SUBSET Plan, kind : {"none", "answer", "malformed"}]
      /\ response'.approved \subseteq yes' /\ yes \subseteq yes' /\ yes' \subseteq Plan
  BY <1>1, <1>3, Types
<1>5. TypeOK'
  BY <1>2, <1>4, TypesStay, Types, MoreTypes
<1>6. LoopInv'
  BY <1>2, LoopStays
<1>7. Decided'
  BY <1>2, <1>4 DEF SessionInv, FilesInv, Decided, HumanDecides, Gated
<1>8. Once'
  BY <1>2 DEF SessionInv, FilesInv, Once, Gated
<1>. QED
  BY <1>5, <1>6, <1>7, <1>8 DEF SessionInv, FilesInv

LEMMA AnswerBadlyKeeps ==
    ASSUME SessionInv, AnswerBadly
    PROVE  SessionInv'
<1>1. /\ asked' = {} /\ response' = [NoAnswer EXCEPT !.kind = "malformed"]
      /\ UNCHANGED <<at, run, cost, reads, history, queue, progress, states, request, saved,
                     result, runs, yes, worked, lost>>
  BY DEF AnswerBadly
<1>2. response' \in [approved : SUBSET Plan, kind : {"none", "answer", "malformed"}]
      /\ response'.approved = {}
  BY <1>1 DEF NoAnswer
<1>3. TypeOK'
  BY <1>1, <1>2, TypesStay, Types, MoreTypes
<1>4. LoopInv'
  BY <1>1, LoopStays
<1>5. Decided'
  BY <1>1, <1>2 DEF SessionInv, FilesInv, Decided, HumanDecides, Gated
<1>6. Once'
  BY <1>1 DEF SessionInv, FilesInv, Once, Gated
<1>. QED
  BY <1>3, <1>4, <1>5, <1>6 DEF SessionInv, FilesInv

(* The gate lets through what the human has approved: the rest is skipped.  *)
LEMMA GateOpens ==
    ASSUME SessionInv, at \in {"poll", "polled"}, at' = "coordinator", NEW tasks \in SUBSET Gated,
           Skip(tasks), Gated \ tasks \subseteq yes,
           request' = NoFile, response' = NoAnswer \/ response' = response,
           UNCHANGED <<run, cost, reads, history, progress, states, saved, result, runs, human, worked, lost>>
    PROVE  SessionInv'
<1>1. asked' = asked /\ yes' = yes
  BY DEF human
<1>2. queue' \in [Task -> Statuses]
      /\ \A t \in Task : queue'[t] = IF t \in tasks THEN "skipped" ELSE queue[t]
  BY Types DEF Skip, Statuses
<1>3. request' \in [tasks : SUBSET Plan, there : BOOLEAN]
  BY DEF NoFile
<1>4. response' \in [approved : SUBSET Plan, kind : {"none", "answer", "malformed"}]
      /\ response'.approved \subseteq yes
  <2>1. NoAnswer \in [approved : SUBSET Plan, kind : {"none", "answer", "malformed"}]
        /\ NoAnswer.approved = {}
    BY DEF NoAnswer
  <2>2. response.approved \subseteq yes
    BY DEF SessionInv, FilesInv, Decided
  <2>. QED
    BY <2>1, <2>2, Types
<1>5. TypeOK'
  BY <1>1, <1>2, <1>3, <1>4, TypesStay, Types, MoreTypes DEF Statuses, Label
<1>6. LoopInv'
  BY LoopStaysEarly DEF Early
<1>7. Decided'
  <2>1. \A t \in Gated : t \in Task /\ (queue'[t] # "skipped" => t \in yes)
    BY <1>2, Limits
  <2>. QED
    BY <1>1, <1>4, <2>1 DEF SessionInv, FilesInv, Decided, HumanDecides, Gated
<1>8. Once'
  <2>1. \A t \in Plan \ Gated : queue'[t] = queue[t]
    BY <1>2, Limits
  <2>. QED
    BY <2>1 DEF SessionInv, FilesInv, Once, Gated
<1>. QED
  BY <1>5, <1>6, <1>7, <1>8 DEF SessionInv, FilesInv

(* A step of the run that touches neither files nor costs.                  *)
LEMMA WaitKeeps ==
    ASSUME SessionInv, at \in {"poll", "polled", "coordinator"},
           at' \in Early \ {"idle", "seed", "coordinator", "checkpoint"},
           at' \in {"poll", "polled"} => at # "coordinator",
           UNCHANGED <<run, cost, reads, history, files, result, runs, human, worked, lost>>
    PROVE  SessionInv'
<1>1. UNCHANGED <<queue, progress, states, request, response, saved, asked, yes>>
  BY DEF files, human
<1>2. TypeOK'
  BY <1>1, TypesStay, Types, MoreTypes DEF Early, Label
<1>3. LoopInv'
  BY LoopStaysEarly DEF Early
<1>4. FilesInv'
  <2>1. Decided'
    BY <1>1, Limits DEF SessionInv, FilesInv, Decided, HumanDecides, Gated
  <2>2. Once'
    BY <1>1 DEF SessionInv, FilesInv, Once, Gated, Early
  <2>. QED
    BY <2>1, <2>2 DEF FilesInv
<1>. QED
  BY <1>2, <1>3, <1>4 DEF SessionInv

LEMMA PollKeeps ==
    ASSUME SessionInv, Poll
    PROVE  SessionInv'
<1>1. /\ at = "poll"
      /\ UNCHANGED <<run, cost, reads, history, progress, states, saved, result, runs, human, worked, lost>>
  BY DEF Poll
<1>2. CASE at' \in {"polled", "fail"} /\ UNCHANGED <<queue, request, response>>
  <2>1. UNCHANGED files
    BY <1>1, <1>2 DEF files
  <2>. QED
    BY <1>1, <1>2, <2>1, WaitKeeps DEF Early
<1>3. CASE /\ Skip(Refused(Gated, response)) /\ request' = NoFile /\ response' = NoAnswer
           /\ at' = "coordinator"
  <2>1. response.approved \subseteq yes
    BY DEF SessionInv, FilesInv, Decided
  <2>2. /\ Refused(Gated, response) \in SUBSET Gated
        /\ Gated \ Refused(Gated, response) \subseteq yes
    BY <2>1 DEF Refused
  <2>. QED
    BY <1>1, <1>3, <2>2, GateOpens
<1>. QED
  BY <1>2, <1>3 DEF Poll, Goto

LEMMA PollAgainKeeps ==
    ASSUME SessionInv, PollAgain
    PROVE  SessionInv'
BY WaitKeeps DEF PollAgain, Goto, Early

LEMMA TimeOutKeeps ==
    ASSUME SessionInv, TimeOut
    PROVE  SessionInv'
<1>1. /\ at = "polled" /\ Skip(Gated) /\ request' = NoFile /\ at' = "coordinator"
      /\ UNCHANGED <<run, cost, reads, history, progress, states, response, saved, result,
                     runs, human, worked, lost>>
  BY DEF TimeOut, Goto
<1>. QED
  BY <1>1, GateOpens

-----------------------------------------------------------------------------
(* The coordinator                                                          *)

(* Between two steps of the coordinator the run has not reviewed anything.  *)
LEMMA AtWork ==
    ASSUME SessionInv, at \in {"coordinator", "checkpoint"}, at' \in {"coordinator", "checkpoint"},
           run' \in Run, run'.cycle = run.cycle, run'.round = run.round, run'.exit = run.exit,
           UNCHANGED <<cost, history>>
    PROVE  LoopInv'
<1>1. at \in Early /\ at' \in Early
  BY DEF Early
<1>2. /\ history = << >> /\ run.cycle = 0 /\ run.round = 0 /\ run.exit # "clean" /\ ~cost.limitReached
      /\ cost.total >= Charged(cost)
  BY <1>1, BeforeReviews, LoopFacts
<1>. QED
  BY <1>1, <1>2, LoopEarly

LEMMA ClaimKeeps ==
    ASSUME SessionInv, NEW t \in Task, Claim(t)
    PROVE  SessionInv'
<1>1. /\ at = "coordinator" /\ queue[t] = "pending"
      /\ queue' = [queue EXCEPT ![t] = "claimed"]
      /\ progress' = [progress EXCEPT !.claimed = progress.claimed \cup {t}, !.there = TRUE]
      /\ UNCHANGED <<at, run, cost, reads, history, states, request, response, saved, result,
                     runs, human, worked, lost>>
  BY DEF Claim
<1>2. /\ queue' \in [Task -> Statuses] /\ queue'[t] = "claimed"
      /\ \A u \in Task \ {t} : queue'[u] = queue[u]
  BY <1>1, Types DEF Statuses
<1>3. /\ progress' \in [completed : SUBSET Task, failed : SUBSET Task, claimed : SUBSET Task, there : BOOLEAN]
      /\ progress'.completed = progress.completed /\ progress'.failed = progress.failed
      /\ progress'.claimed = progress.claimed \cup {t}
  BY <1>1, Types
<1>4. asked' = asked /\ yes' = yes
  BY <1>1 DEF human
<1>5. TypeOK'
  BY <1>1, <1>2, <1>3, <1>4, TypesStay, Types, MoreTypes
<1>6. LoopInv'
  BY <1>1, AtWork, Types
<1>7. Decided'
  <2>1. Decided /\ Gated \subseteq Plan /\ Plan \subseteq Task
    BY Limits DEF SessionInv, FilesInv
  <2>2. t \in Gated => t \in yes
    BY <1>1, <2>1 DEF Decided, HumanDecides
  <2>3. Gated \cap (progress'.completed \cup progress'.failed \cup progress'.claimed) \subseteq yes
    BY <1>3, <2>1, <2>2 DEF Decided
  <2>4. HumanDecides'
    BY <1>1, <1>2, <1>4, <2>1, <2>2 DEF Decided, HumanDecides, Gated
  <2>. QED
    BY <1>1, <1>4, <2>1, <2>3, <2>4 DEF Decided, Gated
<1>8. Once'
  <2>1. Once /\ Plan \subseteq Task
    BY Limits DEF SessionInv, FilesInv
  <2>2. run.resume # "phase"
    BY <2>1, NoWorkLater DEF Once, Claim
  <2>3. \A u \in Plan \ Gated : worked[u] > lost[u] => queue[u] = "complete" /\ u # t
    BY <1>1, <2>1, <2>2 DEF Once
  <2>4. \A u \in Plan \ Gated : worked[u] > lost[u] => u \in Task \ {t} /\ queue'[u] = "complete"
    BY <1>2, <2>1, <2>3
  <2>5. \A u \in Plan \ Gated : worked[u] > lost[u] => u \in progress.completed
    BY <1>1, <2>1, <2>2 DEF Once
  <2>. QED
    BY <1>1, <1>3, <2>1, <2>2, <2>4, <2>5 DEF Once, Gated
<1>. QED
  BY <1>5, <1>6, <1>7, <1>8 DEF SessionInv, FilesInv

LEMMA WorkKeeps ==
    ASSUME SessionInv, NEW t \in Task, NEW end \in {"complete", "failed"}, Work(t, end)
    PROVE  SessionInv'
<1>1. /\ at = "coordinator" /\ ShouldRun(run.from, "coordinator") /\ queue[t] = "claimed"
      /\ at' = "checkpoint"
      /\ run' = [run EXCEPT !.dirty = TRUE]
      /\ UNCHANGED <<cost, reads, history, progress, request, response, saved, result, runs, human, lost>>
  BY DEF Work, Goto
<1>2. PICK found \in SUBSET {f \in Found : queue[f] = "absent"} :
         queue' = [f \in Task |-> IF f = t THEN end
                                  ELSE IF f \in found THEN "pending_review" ELSE queue[f]]
  BY DEF Work
<1>3. /\ queue' \in [Task -> Statuses] /\ queue'[t] = end
      /\ \A u \in Task \ {t} : queue'[u] = queue[u] \/ queue'[u] = "pending_review"
      /\ \A u \in Plan \ {t} : queue'[u] = queue[u]
  <2>1. found \cap Plan = {}
    BY <1>2, SessionAssumption
  <2>. QED
    BY <1>2, <2>1, Types, Limits DEF Statuses
<1>4. states' \in [cost : Nat, complete : BOOLEAN]
  <2>1. states.cost + 1 \in Nat /\ (states.complete \/ end = "complete") \in BOOLEAN
    BY Types
  <2>2. states' = [cost |-> states.cost + 1, complete |-> states.complete \/ end = "complete"]
    BY DEF Work
  <2>. QED
    BY <2>1, <2>2
<1>5. /\ worked' \in [Task -> Nat] /\ \A u \in Task \ {t} : worked'[u] = worked[u]
      /\ \/ end = "complete" /\ worked'[t] = worked[t] + 1
         \/ worked'[t] = worked[t]
      /\ worked[t] \in Nat
  <2>1. worked \in [Task -> Nat] /\ worked[t] \in Nat /\ worked[t] + 1 \in Nat
    BY Types
  <2>2. worked' = IF end = "complete" THEN [worked EXCEPT ![t] = worked[t] + 1] ELSE worked
    BY DEF Work
  <2>. QED
    BY <2>1, <2>2
<1>6. asked' = asked /\ yes' = yes
  BY <1>1 DEF human
<1>7. /\ run' \in Run /\ run'.cycle = run.cycle /\ run'.round = run.round /\ run'.exit = run.exit
      /\ run'.resume = run.resume /\ run'.from = run.from
  <2>1. run \in Run
    BY Types
  <2>2. [run EXCEPT !.dirty = TRUE] \in Run
    BY <2>1, RunUpdates DEF Exit
  <2>3. [run EXCEPT !.dirty = TRUE].cycle = run.cycle /\ [run EXCEPT !.dirty = TRUE].round = run.round
        /\ [run EXCEPT !.dirty = TRUE].exit = run.exit
        /\ [run EXCEPT !.dirty = TRUE].resume = run.resume
        /\ [run EXCEPT !.dirty = TRUE].from = run.from
    BY <2>1 DEF Run
  <2>. QED
    BY <1>1, <2>2, <2>3
<1>8. TypeOK'
  BY <1>1, <1>3, <1>4, <1>5, <1>6, <1>7, TypesStay, Types, MoreTypes DEF Label
<1>9. LoopInv'
  BY <1>1, <1>7, AtWork
<1>10. Decided'
  <2>1. Decided /\ Gated \subseteq Plan /\ Plan \subseteq Task
    BY Limits DEF SessionInv, FilesInv
  <2>2. \A u \in Gated : queue'[u] \in {"claimed", "complete", "failed", "pending"} => u \in yes
    BY <1>1, <1>3, <2>1 DEF Decided, HumanDecides
  <2>3. HumanDecides'
    BY <1>6, <2>2 DEF HumanDecides, Gated
  <2>. QED
    BY <1>1, <1>6, <2>1, <2>3 DEF Decided, Gated
<1>11. Once'
  <2>1. Once /\ Plan \subseteq Task
    BY Limits DEF SessionInv, FilesInv
  <2>2. run.resume # "phase"
    BY <1>1, <2>1, NoWorkLater DEF Once
  <2>3. ASSUME NEW u \in Plan \ Gated
        PROVE  worked'[u] <= 1 + lost[u] /\ (worked'[u] > lost[u] => queue'[u] = "complete")
    <3>1. /\ worked[u] <= 1 + lost[u] /\ (worked[u] > lost[u] => queue[u] = "complete")
          /\ worked[u] \in Nat /\ lost[u] \in Nat /\ u \in Task
      BY <1>1, <2>1, <2>2, <2>3, Types DEF Once
    <3>2. CASE u = t
      <4>1. worked[t] <= lost[t]
        BY <1>1, <3>1, <3>2
      <4>. QED
        BY <1>3, <1>5, <3>1, <3>2, <4>1
    <3>3. CASE u # t
      BY <1>3, <1>5, <2>3, <3>1, <3>3
    <3>. QED
      BY <3>2, <3>3
  <2>4. at' = "checkpoint" /\ run'.resume = run.resume /\ lost' = lost
    BY <1>1, <1>7
  <2>. QED
    BY <2>2, <2>3, <2>4 DEF Once, Gated
<1>. QED
  BY <1>8, <1>9, <1>10, <1>11 DEF SessionInv, FilesInv

LEMMA CheckpointKeeps ==
    ASSUME SessionInv, Checkpoint
    PROVE  SessionInv'
<1>1. /\ at = "checkpoint" /\ at' = "coordinator"
      /\ UNCHANGED <<run, cost, reads, history, queue, states, request, response, saved, result,
                     runs, human, worked, lost>>
  BY DEF Checkpoint, Goto
<1>2. /\ progress' \in [completed : SUBSET Task, failed : SUBSET Task, claimed : SUBSET Task, there : BOOLEAN]
      /\ progress'.completed = {u \in Task : queue[u] = "complete"}
      /\ progress'.failed = {u \in Task : queue[u] = "failed"}
      /\ progress'.claimed = {u \in Task : queue[u] = "claimed"}
  <2>1. PICK c, d, e \in SUBSET Task : /\ c = {u \in Task : queue[u] = "complete"}
                                       /\ d = {u \in Task : queue[u] = "failed"}
                                       /\ e = {u \in Task : queue[u] = "claimed"}
    OBVIOUS
  <2>2. progress' = [completed |-> c, failed |-> d, claimed |-> e, there |-> TRUE]
    BY <2>1 DEF Checkpoint, WithStatus
  <2>. QED
    BY <2>1, <2>2
<1>3. asked' = asked /\ yes' = yes
  BY <1>1 DEF human
<1>4. TypeOK'
  BY <1>1, <1>2, <1>3, TypesStay, Types, MoreTypes DEF Label
<1>5. LoopInv'
  BY <1>1, AtWork, Types
<1>6. Decided'
  <2>1. Decided /\ Gated \subseteq Plan /\ Plan \subseteq Task
    BY Limits DEF SessionInv, FilesInv
  <2>2. Gated \cap (progress'.completed \cup progress'.failed \cup progress'.claimed) \subseteq yes
    BY <1>2, <2>1 DEF Decided, HumanDecides
  <2>3. HumanDecides'
    BY <1>1, <1>3, <2>1 DEF Decided, HumanDecides, Gated
  <2>. QED
    BY <1>1, <1>3, <2>1, <2>2, <2>3 DEF Decided, Gated
<1>7. Once'
  <2>1. Once /\ Plan \subseteq Task
    BY Limits DEF SessionInv, FilesInv
  <2>2. run.resume # "phase"
    BY <1>1, <2>1 DEF Once
  <2>3. \A u \in Plan \ Gated : worked[u] > lost[u] => queue[u] = "complete" /\ u \in progress'.completed
    BY <1>1, <1>2, <2>1, <2>2 DEF Once
  <2>. QED
    BY <1>1, <2>1, <2>2, <2>3 DEF Once, Gated
<1>. QED
  BY <1>4, <1>5, <1>6, <1>7 DEF SessionInv, FilesInv

(* A step that leaves the files the gate and the resumes are about alone.   *)
LEMMA LaterKeeps ==
    ASSUME SessionInv, LoopInv',
           at' \in Label \ {"idle", "seed", "poll", "polled", "coordinator", "checkpoint"},
           at \notin {"idle", "seed", "checkpoint"},
           run' \in Run, run'.resume = run.resume, run'.from = run.from, cost' \in Cost,
           history' \in Seq(SUBSET Issue), Len(history') <= LoopLimit + 1,
           states' \in [cost : Nat, complete : BOOLEAN],
           saved' \subseteq {"coordinator", "review", "fixes"},
           UNCHANGED <<reads, queue, progress, request, response, result, runs, human, worked, lost>>
    PROVE  SessionInv'
<1>1. asked' = asked /\ yes' = yes
  BY DEF human
<1>2. TypeOK'
  BY <1>1, TypesStay, Types, MoreTypes
<1>3. FilesInv'
  BY <1>1, FilesStay
<1>. QED
  BY <1>2, <1>3 DEF SessionInv

LEMMA CoordinatorEndsKeeps ==
    ASSUME SessionInv, CoordinatorEnds
    PROVE  SessionInv'
<1>1. /\ at \in {"coordinator", "checkpoint"} /\ at' = "after coordinator" /\ Cut
      /\ cost' = AddCoordinator(cost, 1, states.cost) /\ saved' = saved \cup {"coordinator"}
      /\ UNCHANGED <<reads, history, queue, states, request, response, result, runs, human, worked>>
  BY DEF CoordinatorEnds, Goto
<1>2. /\ history = << >> /\ run.cycle = 0 /\ run.round = 0 /\ run.exit # "clean" /\ ~cost.limitReached
      /\ cost.total >= Charged(cost) /\ cost \in Cost /\ run \in Run /\ states.cost \in Nat
      /\ states.complete \in BOOLEAN
  BY <1>1, BeforeReviews, LoopFacts, Types DEF Early
<1>3. cost' \in Cost /\ cost'.total >= Charged(cost') /\ ~cost'.limitReached
  <2>1. /\ AddCoordinator(cost, 1, states.cost) \in Cost
        /\ AddCoordinator(cost, 1, states.cost).limitReached = cost.limitReached
        /\ AddCoordinator(cost, 1, states.cost).total >= Charged(AddCoordinator(cost, 1, states.cost))
    BY <1>2, AddCoordinatorEffect
  <2>2. cost' = AddCoordinator(cost, 1, states.cost)
    BY <1>1
  <2>. QED
    BY <1>2, <2>1, <2>2
<1>4. /\ run' \in Run /\ run'.cycle = run.cycle /\ run'.round = run.round /\ run'.exit = run.exit
      /\ run'.resume = run.resume /\ run'.from = run.from
  <2>1. PICK error \in BOOLEAN : run' = [run EXCEPT !.error = error, !.output = states.complete]
    BY DEF CoordinatorEnds
  <2> DEFINE r == [run EXCEPT !.error = error]
  <2>2. /\ r \in Run /\ r.cycle = run.cycle /\ r.round = run.round /\ r.exit = run.exit
        /\ r.resume = run.resume /\ r.from = run.from
    <3>1. r \in Run
      BY <1>2, RunUpdates DEF Exit
    <3>. QED
      BY <1>2, <3>1 DEF Run
  <2>3. run' = [r EXCEPT !.output = states.complete]
    BY <2>1
  <2>. HIDE DEF r
  <2>4. [r EXCEPT !.output = states.complete] \in Run
    BY <1>2, <2>2, RunUpdates DEF Exit
  <2>5. /\ [r EXCEPT !.output = states.complete].cycle = r.cycle
        /\ [r EXCEPT !.output = states.complete].round = r.round
        /\ [r EXCEPT !.output = states.complete].exit = r.exit
        /\ [r EXCEPT !.output = states.complete].resume = r.resume
        /\ [r EXCEPT !.output = states.complete].from = r.from
    BY <2>2 DEF Run
  <2>. QED
    BY <2>2, <2>3, <2>4, <2>5
<1>5. LoopInv'
  BY <1>1, <1>2, <1>3, <1>4, LoopEarly DEF Early
<1>6. asked' = asked /\ yes' = yes
  BY <1>1 DEF human
<1>7. Settles /\ (progress' = progress \/ progress' = NoProgress)
  BY <1>1, CutSettles
<1>8. /\ NoProgress.completed = {} /\ NoProgress.failed = {} /\ NoProgress.claimed = {}
      /\ NoProgress \in [completed : SUBSET Task, failed : SUBSET Task, claimed : SUBSET Task, there : BOOLEAN]
  BY DEF NoProgress
<1>9. TypeOK'
  <2>1. /\ progress' \in [completed : SUBSET Task, failed : SUBSET Task, claimed : SUBSET Task, there : BOOLEAN]
        /\ lost' \in [Task -> Nat] /\ at' \in Label
        /\ saved' \subseteq {"coordinator", "review", "fixes"}
    BY <1>1, <1>7, <1>8, Types DEF Settles, Label
  <2>. QED
    BY <1>1, <1>3, <1>4, <1>6, <2>1, TypesStay, Types, MoreTypes
<1>10. Decided'
  <2>1. Decided
    BY DEF SessionInv, FilesInv
  <2>2. Gated \cap (progress'.completed \cup progress'.failed \cup progress'.claimed) \subseteq yes
    BY <1>7, <1>8, <2>1 DEF Decided
  <2>3. HumanDecides'
    BY <1>1, <1>6, <2>1 DEF Decided, HumanDecides, Gated
  <2>. QED
    BY <1>1, <1>6, <2>1, <2>2, <2>3 DEF Decided, Gated
<1>11. Once'
  <2>1. Once
    BY DEF SessionInv, FilesInv
  <2>2. ASSUME NEW t \in Plan \ Gated, worked[t] > lost'[t], run.resume # "phase"
        PROVE  queue[t] = "complete"
    BY <1>1, <1>7, <2>1, <2>2 DEF Once, Settles
  <2>. QED
    BY <1>1, <1>4, <1>7, <2>1, <2>2 DEF Once, Settles, Gated
<1>. QED
  BY <1>5, <1>9, <1>10, <1>11 DEF SessionInv, FilesInv

LEMMA CoordinatorSkippedKeeps ==
    ASSUME SessionInv, CoordinatorSkipped
    PROVE  SessionInv'
BY WaitKeeps DEF CoordinatorSkipped, Goto, Early

LEMMA DecideReviewKeeps ==
    ASSUME SessionInv, DecideReview
    PROVE  SessionInv'
<1>1. /\ at = "after coordinator" /\ at' \in {"start reviews", "finish"}
      /\ UNCHANGED <<cost, reads, history, files, result, runs, human, worked, lost>>
  BY DEF DecideReview, Goto
<1>2. /\ history = << >> /\ run.cycle = 0 /\ run.round = 0 /\ run.exit # "clean" /\ ~cost.limitReached
      /\ cost.total >= Charged(cost) /\ cost \in Cost /\ run \in Run
  BY <1>1, BeforeReviews, LoopFacts, Types DEF Early
<1>3. /\ run' \in Run /\ run'.cycle = run.cycle /\ run'.round = run.round /\ run'.exit # "clean"
      /\ run'.resume = run.resume /\ run'.from = run.from
  <2>1. PICK limit \in FixLimits :
          \/ run' = run
          \/ run' = [run EXCEPT !.limit = limit]
          \/ run' = [run EXCEPT !.error = TRUE, !.exit = "stuck"]
    BY DEF DecideReview
  <2>2. CASE run' = run
    BY <1>2, <2>2
  <2>3. CASE run' = [run EXCEPT !.limit = limit]
    <3>1. [run EXCEPT !.limit = limit] \in Run
      BY <1>2, RunUpdates DEF Exit
    <3>2. /\ [run EXCEPT !.limit = limit].cycle = run.cycle
          /\ [run EXCEPT !.limit = limit].round = run.round
          /\ [run EXCEPT !.limit = limit].exit = run.exit
          /\ [run EXCEPT !.limit = limit].resume = run.resume
          /\ [run EXCEPT !.limit = limit].from = run.from
      BY <1>2 DEF Run
    <3>. QED
      BY <1>2, <2>3, <3>1, <3>2
  <2>4. CASE run' = [run EXCEPT !.error = TRUE, !.exit = "stuck"]
    <3> DEFINE r == [run EXCEPT !.error = TRUE]
    <3>1. r \in Run
      BY <1>2, RunUpdates DEF Exit
    <3>2. r.cycle = run.cycle /\ r.round = run.round /\ r.resume = run.resume /\ r.from = run.from
      BY <1>2 DEF Run
    <3>3. run' = [r EXCEPT !.exit = "stuck"]
      BY <2>4
    <3>. HIDE DEF r
    <3>4. [r EXCEPT !.exit = "stuck"] \in Run
      BY <3>1, RunUpdates DEF Exit
    <3>5. /\ [r EXCEPT !.exit = "stuck"].exit = "stuck"
          /\ [r EXCEPT !.exit = "stuck"].cycle = r.cycle
          /\ [r EXCEPT !.exit = "stuck"].round = r.round
          /\ [r EXCEPT !.exit = "stuck"].resume = r.resume
          /\ [r EXCEPT !.exit = "stuck"].from = r.from
      BY <3>1 DEF Run
    <3>. QED
      BY <3>2, <3>3, <3>4, <3>5
  <2>. QED
    BY <2>1, <2>2, <2>3, <2>4
<1>4. LoopInv'
  <2>1. CASE at' = "start reviews"
    BY <1>1, <1>2, <1>3, <2>1, LoopEarly DEF Early
  <2>2. CASE at' = "finish"
    <3>1. run'.cycle <= LoopLimit
      BY <1>2, <1>3, Limits
    <3>. QED
      BY <1>1, <1>2, <1>3, <2>2, <3>1, LoopFinishes
  <2>. QED
    BY <1>1, <2>1, <2>2
<1>5. UNCHANGED <<queue, progress, states, request, response, saved>>
  BY <1>1 DEF files
<1>. QED
  BY <1>1, <1>2, <1>3, <1>4, <1>5, LaterKeeps, Types DEF Label

-----------------------------------------------------------------------------
(* The reviews                                                              *)

LEMMA Exits ==
    ASSUME NEW r \in Run, NEW exit \in Exit
    PROVE  /\ [r EXCEPT !.exit = exit] \in Run
           /\ [r EXCEPT !.exit = exit].exit = exit
           /\ [r EXCEPT !.exit = exit].cycle = r.cycle
           /\ [r EXCEPT !.exit = exit].round = r.round
           /\ [r EXCEPT !.exit = exit].dirty = r.dirty
           /\ [r EXCEPT !.exit = exit].issues = r.issues
           /\ [r EXCEPT !.exit = exit].resume = r.resume
           /\ [r EXCEPT !.exit = exit].from = r.from
<1>1. [r EXCEPT !.exit = exit] \in Run
  BY RunUpdates
<1>. QED
  BY <1>1 DEF Run

(* The run gives up.                                                        *)
LEMMA ExitWithKeeps ==
    ASSUME SessionInv, at \notin {"idle", "seed", "checkpoint"}, NEW exit \in {"stuck", "max_cycles", "cost_limit"},
           ExitWith(exit), cost' = cost \/ cost' = [cost EXCEPT !.limitReached = TRUE],
           history' = history, states' = states, saved' \subseteq {"coordinator", "review", "fixes"},
           UNCHANGED <<reads, queue, progress, request, response, result, runs, human, worked, lost>>
    PROVE  SessionInv'
<1>1. at' = "finish" /\ run' = [run EXCEPT !.exit = exit] /\ run \in Run /\ cost \in Cost
  BY LoopFacts DEF ExitWith, Goto
<1>2. exit \in Exit /\ exit # "clean"
  BY DEF Exit
<1>3. /\ run' \in Run /\ run'.exit # "clean" /\ run'.cycle = run.cycle
      /\ run'.resume = run.resume /\ run'.from = run.from
  BY <1>1, <1>2, Exits
<1>4. cost' \in Cost /\ cost'.total >= Charged(cost')
  BY <1>1, LoopFacts, LimitEffect
<1>5. run'.cycle <= LoopLimit
  BY <1>3, LoopFacts DEF Rounds
<1>6. LoopInv'
  BY <1>1, <1>3, <1>4, <1>5, LoopFinishes
<1>. QED
  BY <1>1, <1>3, <1>4, <1>6, LaterKeeps, Types DEF Label

LEMMA StartReviewsKeeps ==
    ASSUME SessionInv, StartReviews
    PROVE  SessionInv'
<1>1. /\ at = "start reviews" /\ CheckCost("integration")
      /\ UNCHANGED <<reads, history, queue, progress, states, request, response, saved, result, runs,
                     human, worked, lost>>
  BY DEF StartReviews, files
<1>2. CASE OverLimit(cost)
  <2>1. ExitWith("cost_limit") /\ cost' = [cost EXCEPT !.limitReached = TRUE]
    BY <1>1, <1>2 DEF CheckCost
  <2>. QED
    BY <1>1, <2>1, ExitWithKeeps, Types
<1>3. CASE ~OverLimit(cost)
  <2>1. at' = "integration" /\ UNCHANGED <<run, cost>>
    BY <1>1, <1>3 DEF CheckCost, Goto
  <2>2. /\ history = << >> /\ run.cycle = 0 /\ run.round = 0 /\ run.exit # "clean" /\ ~cost.limitReached
        /\ cost.total >= Charged(cost) /\ cost \in Cost /\ run \in Run
    BY <1>1, BeforeReviews, LoopFacts DEF Early
  <2>3. Clean' /\ Account'
    BY <2>1, <2>2 DEF Clean, Account, Charged
  <2>4. Rounds'
    <3>1. history' = << >> /\ run'.cycle = 0 /\ run'.round = 0 /\ 0 <= LoopLimit
      BY <1>1, <2>1, <2>2, LoopLimits
    <3>2. Len(history') = 0
      BY <3>1
    <3>. QED
      BY <2>1, <3>1, <3>2 DEF Rounds, Early
  <2>5. NoRoundInVain'
    BY <2>1 DEF NoRoundInVain, NoReviewBeyondTheLimit, NoFixInCircles
  <2>. QED
    BY <1>1, <2>1, <2>2, <2>3, <2>4, <2>5, LaterKeeps, Types DEF Label, LoopInv
<1>. QED
  BY <1>2, <1>3

Middle == {"integration", "fix integration", "fixed integration", "loop", "review", "fix", "fixed"}

(* The loop goes on, and may add tasks.                                     *)
LEMMA MiddleKeeps ==
    ASSUME SessionInv, at \notin {"idle", "seed", "checkpoint"}, at' \in Middle,
           run' \in Run, run'.exit # "clean", run'.resume = run.resume, run'.from = run.from,
           cost' \in Cost, cost'.total >= Charged(cost'), ~cost'.limitReached,
           history' \in Seq(SUBSET Issue), Len(history') <= LoopLimit + 1,
           Rounds', NoRoundInVain',
           states' \in [cost : Nat, complete : BOOLEAN],
           saved' \subseteq {"coordinator", "review", "fixes"},
           queue' \in [Task -> Statuses], \A t \in Plan : queue'[t] = queue[t],
           UNCHANGED <<reads, progress, request, response, result, runs, human, worked, lost>>
    PROVE  SessionInv'
<1>1. asked' = asked /\ yes' = yes
  BY DEF human
<1>2. at' \in Label \ {"idle", "seed", "poll", "polled", "coordinator", "checkpoint", "finish"}
  BY DEF Middle, Label
<1>3. TypeOK'
  BY <1>1, <1>2, TypesStay, Types, MoreTypes DEF Statuses
<1>4. LoopInv'
  BY <1>2 DEF LoopInv, Clean, Account, Charged
<1>5. FilesInv'
  BY <1>1, <1>2, FilesStay
<1>. QED
  BY <1>3, <1>4, <1>5 DEF SessionInv

(* What holds of the run between two steps of the loop.                     *)
LEMMA MiddleFacts ==
    ASSUME SessionInv, at \in Middle
    PROVE  /\ run \in Run /\ run.exit # "clean" /\ run.cycle \in Nat /\ run.round \in Nat
           /\ run.issues \in SUBSET Issue /\ run.fixers \in Nat
           /\ cost \in Cost /\ cost.total >= Charged(cost) /\ ~cost.limitReached
           /\ history \in Seq(SUBSET Issue) /\ Len(history) \in Nat /\ Len(history) <= LoopLimit + 1
           /\ Rounds /\ run.cycle <= LoopLimit /\ LoopLimit \in Nat /\ at \notin {"idle", "seed", "checkpoint", "finish"}
           /\ queue \in [Task -> Statuses] /\ states.cost \in Nat /\ states.complete \in BOOLEAN
           /\ states \in [cost : Nat, complete : BOOLEAN] /\ saved \subseteq {"coordinator", "review", "fixes"}
<1>1. at \notin {"idle", "seed", "checkpoint", "finish"}
  BY DEF Middle
<1>2. /\ run \in Run /\ cost \in Cost /\ cost.total >= Charged(cost) /\ run.exit # "clean"
      /\ ~cost.limitReached /\ Rounds /\ Len(history) \in Nat
  BY <1>1, LoopFacts
<1>3. /\ run.cycle \in Nat /\ run.round \in Nat /\ run.issues \in SUBSET Issue
      /\ run.fixers \in Nat
  BY <1>2, RunFields
<1>4. run.cycle <= LoopLimit /\ LoopLimit \in Nat
  BY <1>2, LoopLimits DEF Rounds
<1>5. queue \in [Task -> Statuses]
  BY Types DEF Statuses
<1>. QED
  BY <1>1, <1>2, <1>3, <1>4, <1>5, Types

LEMMA IssuesUpdate ==
    ASSUME NEW r \in Run, NEW issues \in SUBSET Issue
    PROVE  /\ [r EXCEPT !.issues = issues] \in Run
           /\ [r EXCEPT !.issues = issues].issues = issues
           /\ [r EXCEPT !.issues = issues].exit = r.exit
           /\ [r EXCEPT !.issues = issues].cycle = r.cycle
           /\ [r EXCEPT !.issues = issues].round = r.round
           /\ [r EXCEPT !.issues = issues].dirty = r.dirty
           /\ [r EXCEPT !.issues = issues].resume = r.resume
           /\ [r EXCEPT !.issues = issues].from = r.from
<1>1. [r EXCEPT !.issues = issues] \in Run
  BY RunUpdates DEF Exit
<1>. QED
  BY <1>1 DEF Run

LEMMA IntegrationKeeps ==
    ASSUME SessionInv, Integration
    PROVE  SessionInv'
<1>1. /\ at = "integration"
      /\ UNCHANGED <<reads, queue, progress, states, request, response, saved, result, runs,
                     human, worked, lost>>
  BY DEF Integration, files
<1>2. PICK issues \in SUBSET Issue, price \in {0, 1} :
         /\ cost' = AddReview(cost, price)
         /\ run' = [run EXCEPT !.issues = issues]
         /\ \/ at' = "loop" /\ history' = history
            \/ /\ at' = "fix integration"
               /\ history' = IF run.round = 0 THEN Append(history, issues) ELSE history
  BY DEF Integration, Goto
<1>3. SessionInv /\ at \in Middle
  BY <1>1 DEF Middle
<1>4. /\ run' \in Run /\ run'.exit # "clean" /\ run'.cycle = run.cycle /\ run'.round = run.round
      /\ run'.resume = run.resume /\ run'.from = run.from
  <2>1. run \in Run /\ run.exit # "clean"
    BY <1>3, MiddleFacts
  <2>. QED
    BY <1>2, <2>1, IssuesUpdate
<1>5. cost' \in Cost /\ cost'.total >= Charged(cost') /\ ~cost'.limitReached
  <2>1. cost \in Cost /\ cost.total >= Charged(cost) /\ ~cost.limitReached /\ price \in Nat
    BY <1>3, MiddleFacts
  <2>2. cost.total \in Nat /\ Charged(cost) \in Nat
    BY <2>1, CostFields
  <2>3. /\ cost' \in Cost /\ cost'.limitReached = cost.limitReached
        /\ cost'.total = cost.total + price /\ Charged(cost') = Charged(cost) + price
    <3>1. /\ AddReview(cost, price) \in Cost
          /\ AddReview(cost, price).limitReached = cost.limitReached
          /\ AddReview(cost, price).total = cost.total + price
          /\ Charged(AddReview(cost, price)) = Charged(cost) + price
      BY <2>1, AddReviewEffect
    <3>. QED
      BY <1>2, <3>1
  <2>. QED
    BY <2>1, <2>2, <2>3
<1>6. /\ run.cycle = 0 /\ Len(history) <= 1 /\ (run.round = 0 => Len(history) <= 0) /\ Len(history) \in Nat
      /\ LoopLimit \in Nat
  BY <1>1, <1>3, MiddleFacts DEF Rounds
<1>7. history' \in Seq(SUBSET Issue) /\ Len(history') \in Nat /\ Len(history') <= 1
  <2>1. history \in Seq(SUBSET Issue)
    BY <1>3, MiddleFacts
  <2>2. Append(history, issues) \in Seq(SUBSET Issue) /\ Len(Append(history, issues)) = Len(history) + 1
    BY <2>1
  <2>3. \/ history' = history
        \/ run.round = 0 /\ history' = Append(history, issues)
    BY <1>2
  <2>. QED
    BY <1>6, <2>1, <2>2, <2>3
<1>8. Len(history') <= LoopLimit + 1
  BY <1>6, <1>7
<1>9. at' \in {"loop", "fix integration"}
  BY <1>2
<1>10. Rounds'
  <2>1. run'.cycle = 0 /\ run'.cycle <= LoopLimit
    BY <1>4, <1>6, LoopLimits
  <2>2. Len(history') <= run'.cycle + 1
    BY <1>7, <2>1
  <2>. QED
    BY <1>7, <1>9, <2>1, <2>2 DEF Rounds, Early
<1>11. NoRoundInVain'
  BY <1>9 DEF NoRoundInVain, NoReviewBeyondTheLimit, NoFixInCircles
<1>12. queue' \in [Task -> Statuses]
  BY <1>1, <1>3, MiddleFacts
<1>. QED
  BY <1>1, <1>4, <1>5, <1>7, <1>8, <1>9, <1>10, <1>11, <1>12, MiddleKeeps, Types DEF Middle

LEMMA LoopKeeps ==
    ASSUME SessionInv, Loop
    PROVE  SessionInv'
<1>1. /\ at = "loop" /\ at \in Middle
      /\ UNCHANGED <<reads, history, queue, progress, states, request, response, saved, result, runs,
                     human, worked, lost>>
  BY DEF Loop, files, Middle
<1>2. CASE ~(run.cycle < LoopLimit)
  <2>1. ExitWith("max_cycles") /\ cost' = cost
    BY <1>2 DEF Loop
  <2>. QED
    BY <1>1, <2>1, ExitWithKeeps, Types
<1>3. CASE run.cycle < LoopLimit /\ OverLimit(cost)
  <2>1. ExitWith("cost_limit") /\ cost' = [cost EXCEPT !.limitReached = TRUE]
    BY <1>3 DEF Loop, CheckCost
  <2>. QED
    BY <1>1, <2>1, ExitWithKeeps, Types
<1>4. CASE run.cycle < LoopLimit /\ ~OverLimit(cost)
  <2>1. at' = "review" /\ run' = run /\ cost' = cost
    BY <1>4 DEF Loop, CheckCost, Goto
  <2>2. /\ run \in Run /\ run.exit # "clean" /\ run.cycle \in Nat
        /\ cost \in Cost /\ cost.total >= Charged(cost) /\ ~cost.limitReached
        /\ history \in Seq(SUBSET Issue) /\ Len(history) \in Nat /\ Len(history) <= LoopLimit + 1
        /\ Rounds /\ queue \in [Task -> Statuses]
    BY <1>1, MiddleFacts
  <2>3. Charged(cost) < CostLimit
    <3>1. cost.total \in Nat /\ Charged(cost) \in Nat /\ CostLimit \in Nat
      BY <2>2, CostFields, Limits
    <3>2. ~(cost.total >= CostLimit)
      BY <1>4, <2>2 DEF OverLimit
    <3>. QED
      BY <2>2, <3>1, <3>2
  <2>4. Rounds'
    BY <1>1, <1>4, <2>1, <2>2 DEF Rounds, Early
  <2>5. NoRoundInVain'
    BY <2>1, <2>3 DEF NoRoundInVain, NoReviewBeyondTheLimit, NoFixInCircles, Charged
  <2>. QED
    BY <1>1, <2>1, <2>2, <2>4, <2>5, MiddleKeeps, Types DEF Middle
<1>. QED
  BY <1>2, <1>3, <1>4

LEMMA IssuesHaveLengths ==
    ASSUME NEW issues \in SUBSET Issue
    PROVE  /\ Cardinality(issues) \in Nat
           /\ \A length \in Lengths(issues) :
                 length \in Nat /\ length >= Cardinality(issues) /\ (issues # {} => length > 0)
<1>1. IsFiniteSet(issues)
  BY FS_Subset, PipelineAssumption
<1>2. Cardinality(issues) \in Nat /\ (Cardinality(issues) = 0 <=> issues = {})
  BY <1>1, FS_CardinalityType, FS_EmptySet
<1>3. SameIssueLimit \in Nat
  BY PipelineAssumption
<1>. QED
  BY <1>2, <1>3 DEF Lengths

(* A review whose issues are those of one of the two before is stuck, if it *)
(* lists each of them once or has as many as the limit asks for.            *)
LEMMA NotStuck ==
    ASSUME NEW h \in Seq(SUBSET Issue), NEW issues \in SUBSET Issue, NEW length \in Lengths(issues),
           issues # {}, length > Cardinality(issues) => Cardinality(issues) >= SameIssueLimit,
           ~Stuck(issues, length, h), NEW i \in 1..(Len(h) - 1), i >= Len(h) - 2
    PROVE  h[i] # issues
<1> SUFFICES ASSUME h[i] = issues PROVE FALSE
  OBVIOUS
<1>1. Len(h) \in Nat /\ Len(h) >= 2 /\ (i = Len(h) - 1 \/ (i = Len(h) - 2 /\ Len(h) >= 3))
  OBVIOUS
<1>2. /\ Cardinality(issues) \in Nat /\ SameIssueLimit \in Nat
      /\ length \in Nat /\ length >= Cardinality(issues) /\ length > 0
  BY IssuesHaveLengths, PipelineAssumption
<1> DEFINE threshold == IF SameIssueLimit < length THEN SameIssueLimit ELSE length
<1>3. Cardinality(issues) >= threshold
  BY <1>2
<1>4. SomeRecur(issues, h[i], threshold)
  <2>1. issues \cap h[i] = issues
    OBVIOUS
  <2>. QED
    BY <1>3, <2>1 DEF SomeRecur
<1>5. \/ SomeRecur(issues, h[Len(h) - 1], threshold)
      \/ Len(h) >= 3 /\ SomeRecur(issues, h[Len(h) - 2], threshold)
  <2>. HIDE DEF threshold
  <2>. QED
    BY <1>1, <1>4
<1>. QED
  BY <1>1, <1>2, <1>5 DEF Stuck

LEMMA ReviewKeeps ==
    ASSUME SessionInv, Review
    PROVE  SessionInv'
<1>1. /\ at = "review" /\ at \in Middle
      /\ UNCHANGED <<reads, progress, states, request, response, result, runs, human, worked, lost>>
  BY SMTT(40) DEF Review, Middle
<1>2. PICK passing \in BOOLEAN, issues \in SUBSET Issue, found \in SUBSET Found,
           length \in Nat :
         /\ length \in Lengths(issues)
         /\ history' = Append(history, issues)
         /\ queue' = [t \in Task |-> IF t \in found /\ queue[t] = "absent" THEN "pending" ELSE queue[t]]
         /\ cost' = AddReview(cost, 1)
         /\ saved' = saved \cup {"review"}
         /\ LET seen == [run EXCEPT !.issues = issues, !.dirty = FALSE]
            IN  \/ run' = [seen EXCEPT !.exit = "clean"] /\ at' = "finish"
                \/ run' = [seen EXCEPT !.exit = "stuck"] /\ at' = "finish"
                \/ /\ ~Stuck(issues, length, history')
                   /\ run' = [seen EXCEPT !.cycle = run.cycle + 1,
                                          !.again = length > Cardinality(issues)]
                   /\ at' = "fix"
  <2> DEFINE seen(i) == [run EXCEPT !.issues = i, !.dirty = FALSE]
  <2>3. \A issues \in SUBSET Issue : Lengths(issues) \subseteq Nat
    BY IssuesHaveLengths
  <2>1. PICK passing \in BOOLEAN, issues \in SUBSET Issue, found \in SUBSET Found,
             length \in Nat :
          /\ length \in Lengths(issues)
          /\ history' = Append(history, issues)
          /\ queue' = [t \in Task |-> IF t \in found /\ queue[t] = "absent" THEN "pending" ELSE queue[t]]
          /\ cost' = AddReview(cost, 1)
          /\ saved' = saved \cup {"review"}
          /\ \/ run' = [seen(issues) EXCEPT !.exit = "clean"] /\ at' = "finish"
             \/ run' = [seen(issues) EXCEPT !.exit = "stuck"] /\ at' = "finish"
             \/ /\ ~Stuck(issues, length, history')
                /\ run' = [seen(issues) EXCEPT !.cycle = seen(issues).cycle + 1,
                                               !.again = length > Cardinality(issues)]
                /\ at' = "fix"
    BY <2>3 DEF Review, Goto
  <2>2. seen(issues).cycle = run.cycle
    BY <1>1, MiddleFacts DEF Run
  <2>. QED
    BY <2>1, <2>2
<1>3. /\ run \in Run /\ run.cycle \in Nat /\ LoopLimit \in Nat /\ run.exit # "clean"
      /\ cost \in Cost /\ cost.total >= Charged(cost) /\ ~cost.limitReached
      /\ history \in Seq(SUBSET Issue) /\ Len(history) \in Nat /\ queue \in [Task -> Statuses]
  BY <1>1, MiddleFacts
<1>4. run.cycle < LoopLimit /\ Len(history) <= run.cycle + 1
  BY <1>1, MiddleFacts DEF Rounds
<1>5. /\ cost' \in Cost /\ cost'.total >= Charged(cost') /\ ~cost'.limitReached
  <2>1. /\ AddReview(cost, 1) \in Cost
        /\ AddReview(cost, 1).limitReached = cost.limitReached
        /\ AddReview(cost, 1).total = cost.total + 1
        /\ Charged(AddReview(cost, 1)) = Charged(cost) + 1
    BY <1>3, AddReviewEffect
  <2>2. cost.total \in Nat /\ Charged(cost) \in Nat
    BY <1>3, CostFields
  <2>. QED
    BY <1>2, <1>3, <2>1, <2>2
<1>6. /\ queue' \in [Task -> Statuses] /\ \A t \in Plan : queue'[t] = queue[t]
  <2>1. found \cap Plan = {} /\ Plan \subseteq Task
    BY SessionAssumption, Limits
  <2>. QED
    BY <1>2, <1>3, <2>1 DEF Statuses
<1>7. /\ history' \in Seq(SUBSET Issue) /\ Len(history') = Len(history) + 1
      /\ Len(history') <= LoopLimit + 1 /\ history'[Len(history')] = issues
  BY <1>2, <1>3, <1>4
<1>8. saved' \subseteq {"coordinator", "review", "fixes"}
  BY <1>1, <1>2, MiddleFacts
<1> DEFINE one == [run EXCEPT !.issues = issues]
           seen == [one EXCEPT !.dirty = FALSE]
<1>9. /\ seen \in Run /\ seen.issues = issues /\ ~seen.dirty /\ seen.exit = run.exit
      /\ seen.cycle = run.cycle /\ seen.round = run.round
      /\ seen.resume = run.resume /\ seen.from = run.from
  <2>1. /\ one \in Run /\ one.issues = issues /\ one.exit = run.exit /\ one.cycle = run.cycle
        /\ one.round = run.round /\ one.resume = run.resume /\ one.from = run.from
    BY <1>3, IssuesUpdate
  <2>. HIDE DEF one
  <2>2. seen \in Run
    BY <2>1, RunUpdates DEF Exit
  <2>3. /\ seen.issues = one.issues /\ ~seen.dirty /\ seen.exit = one.exit
        /\ seen.cycle = one.cycle /\ seen.round = one.round
        /\ seen.resume = one.resume /\ seen.from = one.from
    BY <2>1 DEF Run
  <2>. QED
    BY <2>1, <2>2, <2>3
<1>10. [run EXCEPT !.issues = issues, !.dirty = FALSE] = seen
  OBVIOUS
<1>. HIDE DEF seen, one
<1>11. CASE at' = "finish"
  <2>1. PICK exit \in {"clean", "stuck"} : run' = [seen EXCEPT !.exit = exit]
    BY <1>2, <1>10, <1>11
  <2>2. /\ run' \in Run /\ ~run'.dirty /\ run'.cycle = run.cycle
        /\ run'.resume = run.resume /\ run'.from = run.from
    <3>1. exit \in Exit
      BY DEF Exit
    <3>2. /\ [seen EXCEPT !.exit = exit] \in Run
          /\ [seen EXCEPT !.exit = exit].cycle = seen.cycle
          /\ [seen EXCEPT !.exit = exit].dirty = seen.dirty
          /\ [seen EXCEPT !.exit = exit].resume = seen.resume
          /\ [seen EXCEPT !.exit = exit].from = seen.from
      BY <1>9, <3>1, Exits
    <3>. QED
      BY <1>9, <2>1, <3>2
  <2>3. run'.cycle <= LoopLimit
    BY <1>3, <1>4, <2>2
  <2>4. LoopInv'
    BY <1>5, <1>11, <2>2, <2>3, LoopFinishes
  <2>5. asked' = asked /\ yes' = yes
    BY <1>1 DEF human
  <2>6. TypeOK'
    BY <1>1, <1>5, <1>6, <1>7, <1>8, <1>11, <2>2, <2>5, TypesStay, Types, MoreTypes DEF Statuses, Label
  <2>7. FilesInv'
    BY <1>1, <1>6, <1>11, <2>2, <2>5, FilesStay
  <2>. QED
    BY <2>4, <2>6, <2>7 DEF SessionInv
<1>12. CASE at' = "fix"
  <2>1. /\ run' = [seen EXCEPT !.cycle = run.cycle + 1, !.again = length > Cardinality(issues)]
        /\ ~Stuck(issues, length, history')
    BY <1>2, <1>10, <1>12
  <2>2. /\ run' \in Run /\ run'.cycle = run.cycle + 1 /\ run'.exit # "clean" /\ run'.issues = issues
        /\ run'.again = (length > Cardinality(issues))
        /\ run'.resume = run.resume /\ run'.from = run.from
    <3>1. PICK n \in Nat, again \in BOOLEAN : n = run.cycle + 1 /\ again = (length > Cardinality(issues))
      <4>1. run.cycle + 1 \in Nat
        BY <1>3
      <4>2. (length > Cardinality(issues)) \in BOOLEAN
        OBVIOUS
      <4>. QED
        BY <4>1, <4>2, Zenon
    <3> DEFINE next == [seen EXCEPT !.cycle = n]
    <3>2. /\ next \in Run /\ next.cycle = n /\ next.exit = seen.exit /\ next.issues = seen.issues
          /\ next.resume = seen.resume /\ next.from = seen.from
      <4>1. next \in Run
        BY <1>9, RunUpdates DEF Exit
      <4>. QED
        BY <1>9, <4>1 DEF Run
    <3>3. run' = [next EXCEPT !.again = again]
      BY <2>1, <3>1
    <3>. HIDE DEF next
    <3>4. /\ [next EXCEPT !.again = again] \in Run
          /\ [next EXCEPT !.again = again].cycle = next.cycle
          /\ [next EXCEPT !.again = again].exit = next.exit
          /\ [next EXCEPT !.again = again].issues = next.issues
          /\ [next EXCEPT !.again = again].again = again
          /\ [next EXCEPT !.again = again].resume = next.resume
          /\ [next EXCEPT !.again = again].from = next.from
      <4>1. [next EXCEPT !.again = again] \in Run
        BY <3>2, RunUpdates DEF Exit
      <4>. QED
        BY <3>2, <4>1 DEF Run
    <3>. QED
      BY <1>3, <1>9, <3>1, <3>2, <3>3, <3>4
  <2>3. Rounds'
    <3>1. run'.cycle <= LoopLimit /\ Len(history') <= run'.cycle + 1
      BY <1>3, <1>4, <1>7, <2>2
    <3>. QED
      BY <1>12, <3>1 DEF Rounds, Early
  <2>4. NoRoundInVain'
    <3>1. NoReviewBeyondTheLimit'
      BY <1>12 DEF NoReviewBeyondTheLimit
    <3>2. PICK h \in Seq(SUBSET Issue) : h = history' /\ h[Len(h)] = issues
      BY <1>7
    <3>3. ASSUME issues # {}, NEW i \in 1..(Len(h) - 1), i >= Len(h) - 2,
                 length > Cardinality(issues) => Cardinality(issues) >= SameIssueLimit
          PROVE  h[i] # h[Len(h)]
      <4>1. length \in Lengths(issues)
        BY <1>2
      <4>. QED
        BY <2>1, <3>2, <3>3, <4>1, NotStuck
    <3>4. NoFixInCircles'
      BY <2>2, <3>2, <3>3 DEF NoFixInCircles
    <3>. QED
      BY <3>1, <3>4 DEF NoRoundInVain
  <2>. QED
    BY <1>1, <1>5, <1>6, <1>7, <1>8, <1>12, <2>2, <2>3, <2>4, MiddleKeeps, Types DEF Middle
<1>. QED
  BY <1>2, <1>11, <1>12

LEMMA FixKeeps ==
    ASSUME SessionInv, Fix
    PROVE  SessionInv'
<1>1. /\ at \in {"fix", "fix integration"} /\ at \in Middle
      /\ UNCHANGED <<cost, reads, history, queue, progress, request, response, result, runs,
                     human, worked, lost>>
  BY DEF Fix, Middle
<1>2. CASE ExitWith("max_cycles") /\ saved' = saved \cup {"fixes"} /\ states' = states
  <2>1. saved' \subseteq {"coordinator", "review", "fixes"} /\ at \notin {"idle", "seed", "checkpoint"}
    BY <1>1, <1>2, MiddleFacts
  <2>. QED
    BY <1>1, <1>2, <2>1, ExitWithKeeps
<1>3. ASSUME NEW price \in {0, 1},
             states' = [states EXCEPT !.cost = states.cost + price,
                                      !.complete = states.complete \/ price > 0],
             run' = [run EXCEPT !.issues = {}, !.again = FALSE,
                                !.fixers = price, !.dirty = run.dirty \/ price > 0,
                                !.round = IF at = "fix" THEN run.round ELSE run.round + 1],
             at' = (IF at = "fix" THEN "fixed" ELSE "fixed integration"), saved' = saved
      PROVE  SessionInv'
  <2>1. /\ run \in Run /\ run.cycle \in Nat /\ run.round \in Nat /\ run.exit # "clean"
        /\ cost \in Cost /\ cost.total >= Charged(cost) /\ ~cost.limitReached
        /\ history \in Seq(SUBSET Issue) /\ Len(history) \in Nat /\ Len(history) <= LoopLimit + 1
        /\ queue \in [Task -> Statuses] /\ states.cost \in Nat /\ states.complete \in BOOLEAN
        /\ states \in [cost : Nat, complete : BOOLEAN] /\ run.cycle <= LoopLimit
        /\ saved \subseteq {"coordinator", "review", "fixes"} /\ Rounds
        /\ at \notin {"idle", "seed", "checkpoint"}
    BY <1>1, MiddleFacts
  <2>2. states' \in [cost : Nat, complete : BOOLEAN]
    <3>1. states.cost + price \in Nat /\ (states.complete \/ price > 0) \in BOOLEAN
      BY <2>1
    <3>2. states' = [cost |-> states.cost + price, complete |-> states.complete \/ price > 0]
      BY <1>3, <2>1
    <3>. QED
      BY <3>1, <3>2
  <2>3. PICK fixers \in Nat, dirty \in BOOLEAN, round \in Nat :
           /\ run' = [run EXCEPT !.issues = {}, !.again = FALSE, !.fixers = fixers, !.dirty = dirty,
                                !.round = round]
           /\ at = "fix integration" => round > 0
    <3>1. run.dirty \in BOOLEAN
      BY <2>1, RunFields
    <3>2. /\ price \in Nat /\ (run.dirty \/ price > 0) \in BOOLEAN
      BY <3>1
    <3>3. run.round \in Nat
      BY <2>1
    <3>5. run.round + 1 \in Nat /\ run.round + 1 > 0
      BY <3>3
    <3>4. /\ (IF at = "fix" THEN run.round ELSE run.round + 1) \in Nat
          /\ at = "fix integration" => (IF at = "fix" THEN run.round ELSE run.round + 1) > 0
      BY <3>3, <3>5
    <3>. QED
      BY <1>3, <3>2, <3>4
  <2> DEFINE none == [run EXCEPT !.issues = {}]
             once == [none EXCEPT !.again = FALSE]
             one == [once EXCEPT !.fixers = fixers]
             two == [one EXCEPT !.dirty = dirty]
             three == [two EXCEPT !.round = round]
  <2>5. run' = three
    BY <2>3
  <2>. HIDE DEF one, two, three
  <2>12. /\ none \in Run /\ none.exit = run.exit /\ none.cycle = run.cycle
         /\ none.resume = run.resume /\ none.from = run.from
    BY <2>1, IssuesUpdate
  <2>. HIDE DEF none
  <2>13. /\ once \in Run /\ once.exit = run.exit /\ once.cycle = run.cycle
         /\ once.resume = run.resume /\ once.from = run.from
    <3>1. once \in Run
      BY <2>12, RunUpdates DEF Exit
    <3>2. once.exit = none.exit /\ once.cycle = none.cycle /\ once.resume = none.resume /\ once.from = none.from
      BY <2>12 DEF Run
    <3>. QED
      BY <2>12, <3>1, <3>2
  <2>. HIDE DEF once
  <2>4. /\ one \in Run /\ one.exit = run.exit /\ one.cycle = run.cycle
        /\ one.resume = run.resume /\ one.from = run.from
    <3>1. one \in Run
      BY <2>13, RunUpdates DEF Exit, one
    <3>2. one.exit = once.exit /\ one.cycle = once.cycle /\ one.resume = once.resume /\ one.from = once.from
      BY <2>13 DEF Run, one
    <3>. QED
      BY <2>13, <3>1, <3>2
  <2>6. /\ two \in Run /\ two.exit = run.exit /\ two.cycle = run.cycle
        /\ two.resume = run.resume /\ two.from = run.from
    <3>1. two \in Run
      BY <2>4, RunUpdates DEF Exit, two
    <3>2. two.exit = one.exit /\ two.cycle = one.cycle /\ two.resume = one.resume /\ two.from = one.from
      BY <2>4 DEF Run, two
    <3>. QED
      BY <2>4, <3>1, <3>2
  <2>7. /\ three \in Run /\ three.exit = run.exit /\ three.cycle = run.cycle /\ three.round = round
        /\ three.resume = run.resume /\ three.from = run.from
    <3>1. three \in Run
      BY <2>6, RunUpdates DEF Exit, three
    <3>2. /\ three.exit = two.exit /\ three.cycle = two.cycle /\ three.round = round
          /\ three.resume = two.resume /\ three.from = two.from
      BY <2>6 DEF Run, three
    <3>. QED
      BY <2>6, <3>1, <3>2
  <2>8. at' \in {"fixed", "fixed integration"} /\ (at' = "fixed integration" <=> at = "fix integration")
    BY <1>1, <1>3
  <2>9. Rounds'
    <3>1. run'.cycle <= LoopLimit /\ run'.cycle = run.cycle /\ run'.round = round /\ history' = history
      BY <1>1, <2>1, <2>5, <2>7
    <3>2. CASE at = "fix"
      BY <2>1, <2>8, <3>1, <3>2 DEF Rounds, Early
    <3>3. CASE at = "fix integration"
      BY <2>1, <2>3, <2>8, <3>1, <3>3 DEF Rounds, Early
    <3>. QED
      BY <1>1, <3>2, <3>3
  <2>10. NoRoundInVain'
    BY <2>8 DEF NoRoundInVain, NoReviewBeyondTheLimit, NoFixInCircles
  <2>11. /\ run' \in Run /\ run'.exit # "clean" /\ run'.resume = run.resume /\ run'.from = run.from
    BY <2>1, <2>5, <2>7
  <2>. QED
    BY <1>1, <1>3, <2>1, <2>2, <2>8, <2>9, <2>10, <2>11, MiddleKeeps DEF Middle
<1>. QED
  <2>1. CASE run.cycle >= run.limit
    BY <1>2, <2>1 DEF Fix
  <2>2. CASE ~(run.cycle >= run.limit)
    <3>1. PICK price \in {0, 1} : price = IF run.issues \cap Owned = {} THEN 0 ELSE 1
      OBVIOUS
    <3>. QED
      BY <1>3, <2>2, <3>1 DEF Fix, Goto
  <2>. QED
    BY <2>1, <2>2

LEMMA FixedKeeps ==
    ASSUME SessionInv, Fixed
    PROVE  SessionInv'
<1>1. /\ at \in {"fixed", "fixed integration"} /\ at \in Middle
      /\ cost' = AddFixes(cost, run.fixers) /\ run' = [run EXCEPT !.fixers = 0]
      /\ saved' = saved \cup {"fixes"}
      /\ at' = "loop" \/ (at' = "integration" /\ at = "fixed integration")
      /\ UNCHANGED <<reads, history, queue, progress, states, request, response, result, runs,
                     human, worked, lost>>
  BY DEF Fixed, Middle, Goto
<1>2. /\ run \in Run /\ run.cycle \in Nat /\ run.round \in Nat /\ run.fixers \in Nat /\ run.exit # "clean"
      /\ cost \in Cost /\ cost.total >= Charged(cost) /\ ~cost.limitReached
      /\ history \in Seq(SUBSET Issue) /\ Len(history) \in Nat /\ Len(history) <= LoopLimit + 1
      /\ queue \in [Task -> Statuses] /\ run.cycle <= LoopLimit
      /\ states \in [cost : Nat, complete : BOOLEAN]
      /\ saved \subseteq {"coordinator", "review", "fixes"} /\ Rounds /\ at \notin {"idle", "seed", "checkpoint"}
  BY <1>1, MiddleFacts
<1>3. /\ cost' \in Cost /\ cost'.total >= Charged(cost') /\ ~cost'.limitReached
  <2>1. /\ AddFixes(cost, run.fixers) \in Cost
        /\ AddFixes(cost, run.fixers).limitReached = cost.limitReached
        /\ AddFixes(cost, run.fixers).total = cost.total + run.fixers
        /\ Charged(AddFixes(cost, run.fixers)) = Charged(cost) + run.fixers
    BY <1>2, AddFixesEffect
  <2>2. cost.total \in Nat /\ Charged(cost) \in Nat /\ run.fixers \in Nat
    BY <1>2, CostFields
  <2>3. /\ cost' \in Cost /\ cost'.limitReached = cost.limitReached
        /\ cost'.total = cost.total + run.fixers /\ Charged(cost') = Charged(cost) + run.fixers
    BY <1>1, <2>1
  <2>4. cost.total >= Charged(cost) /\ ~cost.limitReached
    BY <1>2
  <2>. QED
    BY <2>2, <2>3, <2>4
<1>4. /\ run' \in Run /\ run'.exit = run.exit /\ run'.cycle = run.cycle /\ run'.round = run.round
      /\ run'.resume = run.resume /\ run'.from = run.from
  <2>1. [run EXCEPT !.fixers = 0] \in Run
    BY <1>2, RunUpdates DEF Exit
  <2>2. /\ [run EXCEPT !.fixers = 0].exit = run.exit /\ [run EXCEPT !.fixers = 0].cycle = run.cycle
        /\ [run EXCEPT !.fixers = 0].round = run.round
        /\ [run EXCEPT !.fixers = 0].resume = run.resume /\ [run EXCEPT !.fixers = 0].from = run.from
    BY <1>2 DEF Run
  <2>. QED
    BY <1>1, <2>1, <2>2
<1>5. Rounds'
  <2>1. history' = history /\ run'.cycle <= LoopLimit
    BY <1>1, <1>2, <1>4
  <2>3. at = "fixed integration" => run.cycle = 0 /\ Len(history) <= 1 /\ run.round > 0
    BY <1>2 DEF Rounds
  <2>2. Len(history) <= run.cycle + 1
    <3>1. at = "fixed" => Len(history) <= run.cycle + 1
      BY <1>2 DEF Rounds
    <3>2. CASE at = "fixed integration"
      <4>1. run.cycle = 0 /\ Len(history) <= 1
        BY <2>3, <3>2
      <4>. QED
        BY <4>1
    <3>. QED
      BY <1>1, <3>1, <3>2
  <2>4. CASE at' = "loop"
    BY <1>4, <2>1, <2>2, <2>4 DEF Rounds, Early
  <2>5. CASE at' = "integration" /\ at = "fixed integration"
    <3>1. Len(history) <= run.round
      <4>1. run.round \in Nat /\ Len(history) \in Nat
        BY <1>2
      <4>2. Len(history) <= 1 /\ run.round > 0
        BY <2>3, <2>5
      <4>. QED
        BY <4>1, <4>2
    <3>. QED
      BY <1>4, <2>1, <2>3, <2>5, <3>1 DEF Rounds, Early
  <2>. QED
    BY <1>1, <2>4, <2>5
<1>6. NoRoundInVain'
  BY <1>1 DEF NoRoundInVain, NoReviewBeyondTheLimit, NoFixInCircles
<1>. QED
  BY <1>1, <1>2, <1>3, <1>4, <1>5, <1>6, MiddleKeeps DEF Middle

-----------------------------------------------------------------------------
(* The end, and the status interval                                         *)

LEMMA StopKeeps ==
    ASSUME SessionInv, NEW how \in {"failed", "succeeded"}, Stop(how),
           progress' = progress \/ progress' = NoProgress, Settles,
           UNCHANGED <<queue, states, request, response, saved, runs, human, worked>>
    PROVE  SessionInv'
<1>1. /\ at' = "idle" /\ run' = NewRun("no", "scout") /\ cost' = NoCost /\ reads' = {}
      /\ history' = << >> /\ result' = how
  BY DEF Stop, Goto
<1>2. asked' = asked /\ yes' = yes
  BY DEF human
<1>3. /\ run' \in Run /\ run'.exit # "clean" /\ run'.cycle = 0 /\ run'.round = 0
  BY <1>1, NewRunType DEF Phases
<1>4. cost' \in Cost /\ cost'.total >= Charged(cost') /\ ~cost'.limitReached
  BY <1>1, NoCostType
<1>5. progress' \in [completed : SUBSET Task, failed : SUBSET Task, claimed : SUBSET Task, there : BOOLEAN]
  <2>1. NoProgress \in [completed : SUBSET Task, failed : SUBSET Task, claimed : SUBSET Task, there : BOOLEAN]
    BY DEF NoProgress
  <2>. QED
    BY <2>1, Types
<1>6. TypeOK'
  <2>1. history' \in Seq(SUBSET Issue) /\ Len(history') <= LoopLimit + 1
    BY <1>1, LoopLimits
  <2>2. at' \in Label /\ lost' \in [Task -> Nat]
    BY <1>1 DEF Label, Settles
  <2>. QED
    BY <1>1, <1>2, <1>3, <1>4, <1>5, <2>1, <2>2, TypesStay, Types, MoreTypes
<1>7. LoopInv'
  BY <1>1, <1>3, <1>4, LoopEarly DEF Early
<1>8. FilesInv'
  BY <1>1, <1>2, FilesIdle
<1>. QED
  BY <1>6, <1>7, <1>8 DEF SessionInv

LEMMA FinishKeeps ==
    ASSUME SessionInv, Finish
    PROVE  SessionInv'
<1>1. PICK how \in {"failed", "succeeded"} : Stop(how)
  BY DEF Finish
<1>2. progress' = progress \/ progress' = NoProgress
  BY DEF Finish
<1>3. at = "finish" /\ UNCHANGED <<queue, states, request, response, saved, runs, human, worked, lost>>
  BY DEF Finish
<1>4. Settles
  <2>1. Once /\ ~NoProgress.there
    BY DEF SessionInv, FilesInv, NoProgress
  <2>. QED
    BY <1>2, <1>3, <2>1, Types DEF Once, Settles
<1>. QED
  BY <1>1, <1>2, <1>3, <1>4, StopKeeps

LEMMA FailKeeps ==
    ASSUME SessionInv, Fail
    PROVE  SessionInv'
BY CutSettles, StopKeeps DEF Fail

LEMMA ReadCostsKeeps ==
    ASSUME SessionInv, ReadCosts
    PROVE  SessionInv'
<1>1. /\ reads' = reads \cup {states.cost}
      /\ UNCHANGED <<at, run, cost, history, queue, progress, states, request, response, saved,
                     result, runs, asked, yes, worked, lost>>
  BY DEF ReadCosts, files, human
<1>2. reads' \subseteq Nat
  BY <1>1, Types
<1>3. TypeOK'
  BY <1>1, <1>2, TypesStay, Types, MoreTypes
<1>4. LoopInv'
  BY <1>1, LoopStays
<1>5. FilesInv'
  BY <1>1, FilesStay
<1>. QED
  BY <1>3, <1>4, <1>5 DEF SessionInv

(* The interval may come at any time: what it rewrites is not what the      *)
(* limit is about.                                                          *)
LEMMA StoreCostsKeeps ==
    ASSUME SessionInv, StoreCosts
    PROVE  SessionInv'
<1>1. /\ UNCHANGED <<at, run, history, queue, progress, states, request, response, saved,
                     result, runs, asked, yes, worked, lost>>
  BY DEF StoreCosts, files, human
<1>2. PICK v \in reads : cost' = Refresh(cost, v) /\ reads' = reads \ {v}
  BY DEF StoreCosts
<1>3. /\ cost' \in Cost /\ Charged(cost') = Charged(cost) /\ cost'.limitReached = cost.limitReached
      /\ cost'.total >= Charged(cost')
  <2>1. cost \in Cost /\ v \in Nat
    BY <1>2, Types, LoopFacts
  <2>2. /\ Refresh(cost, v) \in Cost /\ Charged(Refresh(cost, v)) = Charged(cost)
        /\ Refresh(cost, v).limitReached = cost.limitReached
        /\ Refresh(cost, v).total >= Charged(Refresh(cost, v))
    BY <2>1, RefreshEffect
  <2>. QED
    BY <1>2, <2>2
<1>4. TypeOK'
  BY <1>1, <1>2, <1>3, TypesStay, Types, MoreTypes
<1>5. LoopInv'
  <2>1. LoopInv
    BY DEF SessionInv
  <2>2. Clean' /\ Rounds' /\ NoFixInCircles'
    BY <1>1, <2>1 DEF LoopInv, Clean, Rounds, NoRoundInVain, NoFixInCircles
  <2>3. Account'
    BY <1>1, <1>3, <2>1 DEF LoopInv, Account, Charged
  <2>4. NoReviewBeyondTheLimit'
    BY <1>1, <1>3, <2>1 DEF LoopInv, NoRoundInVain, NoReviewBeyondTheLimit, Charged
  <2>. QED
    BY <2>2, <2>3, <2>4 DEF LoopInv, NoRoundInVain
<1>6. FilesInv'
  BY <1>1, FilesStay
<1>. QED
  BY <1>4, <1>5, <1>6 DEF SessionInv

-----------------------------------------------------------------------------
LEMMA StepKeeps ==
    ASSUME SessionInv, Step
    PROVE  SessionInv'
<1>1. CASE Seed \/ Poll \/ TimeOut
  BY <1>1, SeedKeeps, PollKeeps, TimeOutKeeps
<1>2. CASE Checkpoint \/ CoordinatorEnds \/ CoordinatorSkipped \/ DecideReview
  BY <1>2, CheckpointKeeps, CoordinatorEndsKeeps, CoordinatorSkippedKeeps, DecideReviewKeeps
<1>3. CASE StartReviews \/ Integration \/ Loop
  BY <1>3, StartReviewsKeeps, IntegrationKeeps, LoopKeeps
<1>4. CASE Review \/ Fix \/ Fixed
  BY <1>4, ReviewKeeps, FixKeeps, FixedKeeps
<1>5. CASE Finish \/ (at = "fail" /\ Fail)
  BY <1>5, FinishKeeps, FailKeeps
<1>. QED
  BY <1>1, <1>2, <1>3, <1>4, <1>5 DEF Step

(* The steps of a run, the human, the status interval and what begins the   *)
(* next run keep the invariant, in any order.                               *)
THEOREM SessionInductive == Spec => []SessionInv
<1>1. Init => SessionInv
  BY InitHolds
<1>2. SessionInv /\ [Next]_vars => SessionInv'
  <2> SUFFICES ASSUME SessionInv, [Next]_vars PROVE SessionInv'
    OBVIOUS
  <2>1. CASE BeginFresh \/ BeginResumed \/ BeginAtPhase
    BY <2>1, BeginFreshKeeps, BeginResumedKeeps, BeginAtPhaseKeeps
  <2>2. CASE Step \/ PollAgain \/ Fail
    BY <2>2, StepKeeps, PollAgainKeeps, FailKeeps
  <2>3. ASSUME NEW t \in Task, Claim(t) \/ \E end \in {"complete", "failed"} : Work(t, end)
        PROVE  SessionInv'
    BY <2>3, ClaimKeeps, WorkKeeps
  <2>4. CASE Answer \/ AnswerBadly
    BY <2>4, AnswerKeeps, AnswerBadlyKeeps
  <2>5. CASE ReadCosts \/ StoreCosts
    BY <2>5, ReadCostsKeeps, StoreCostsKeeps
  <2>6. CASE UNCHANGED vars
    <3>1. UNCHANGED <<at, run, cost, reads, history, queue, progress, states, request, response,
                      saved, result, runs, asked, yes, worked, lost>>
      BY <2>6 DEF vars, files, human
    <3>2. TypeOK'
      BY <3>1, TypesStay, Types, MoreTypes
    <3>3. LoopInv'
      BY <3>1, LoopStays
    <3>4. FilesInv'
      BY <3>1, FilesStay
    <3>. QED
      BY <3>2, <3>3, <3>4 DEF SessionInv
  <2>. QED
    BY <2>1, <2>2, <2>3, <2>4, <2>5, <2>6 DEF Next
<1>. QED
  BY <1>1, <1>2, PTL DEF Spec

(* The run's variables and its directory hold what they are declared to     *)
(* hold; the history never outgrows the limit of the loop.                  *)
THEOREM TypeCorrect == Spec => []TypeOK
<1>1. SessionInv => TypeOK
  BY DEF SessionInv
<1>. QED
  BY <1>1, SessionInductive, PTL

(* Default-deny: no task that the gate asks about is worked on unless the   *)
(* human has approved it, in this run or an earlier one of the directory.   *)
THEOREM OnlyTheApproved == Spec => []HumanDecides
<1>1. SessionInv => HumanDecides
  BY DEF SessionInv, FilesInv, Decided
<1>. QED
  BY <1>1, SessionInductive, PTL

(* No failure or resume makes a task that needs no approval be completed    *)
(* twice in a directory, and a crash does so only when it comes between the *)
(* completion in tasks.json and the checkpoint in progress.json, once for   *)
(* every such crash.                                                        *)
THEOREM CompletedOnce == Spec => []UngatedOnce
<1>1. SessionInv => UngatedOnce
  BY DEF SessionInv, FilesInv, Once, UngatedOnce
<1>. QED
  BY <1>1, SessionInductive, PTL

(* A run that ends "clean" ends on a review of all it has changed.          *)
THEOREM CleanIsReviewed == Spec => []CleanMeansReviewed
<1>1. SessionInv => CleanMeansReviewed
  BY DEF SessionInv, LoopInv, Clean, CleanMeansReviewed
<1>. QED
  BY <1>1, SessionInductive, PTL

(* The loop's rounds stay within the limit whenever the status intervals    *)
(* rewrite the account, and its fixers are not sent after the same issues   *)
(* again unless a review of few issues lists one of them more than once.    *)
THEOREM RoundsAreWorthIt == Spec => []NoRoundInVain
<1>1. SessionInv => NoRoundInVain
  BY DEF SessionInv, LoopInv
<1>. QED
  BY <1>1, SessionInductive, PTL
=============================================================================
