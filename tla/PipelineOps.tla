---------------------------- MODULE PipelineOps ----------------------------
(***************************************************************************)
(* What the phases of a coordination run compute: the order of the phases,  *)
(* the cost account, the test for a review loop that makes no headway       *)
(* (src/coordinate/pipeline.ts, checkpoint.ts) and the approval gate's      *)
(* routing and answer (index.ts, hitl-gate.ts).                             *)
(*                                                                          *)
(* An issue is a model value: its file and its description together, which  *)
(* is all that is compared; a review may list an issue more than once, with *)
(* different lines.  Operators under "Bug:" are the mistakes the    *)
(* runs are shown to catch; nothing uses them.                              *)
(***************************************************************************)
EXTENDS Integers, Sequences, FiniteSets

CONSTANTS
    Issue,          \* what a reviewer may complain about
    SameIssueLimit, \* sameIssueLimit: issues that must recur for "stuck"
    CostLimit,      \* costLimit
    Mode            \* hitl: "off", "permissive" or "strict"

ASSUME PipelineAssumption ==
    /\ IsFiniteSet(Issue)
    /\ SameIssueLimit \in Nat /\ CostLimit \in Nat
    /\ Mode \in {"off", "permissive", "strict"}

(***************************************************************************)
(* Phases                                                                   *)
(***************************************************************************)
PhaseOrder == <<"scout", "planner", "coordinator", "workers", "integration", "review",
                "fixes", "complete">>

PhaseIndex(phase) == CHOOSE i \in DOMAIN PhaseOrder : PhaseOrder[i] = phase

NextPhase(phase) ==
    IF phase = "complete" THEN "complete" ELSE PhaseOrder[PhaseIndex(phase) + 1]

(* A run that is not resumed at a phase starts at the first one.            *)
ShouldRun(from, phase) == PhaseIndex(phase) >= PhaseIndex(from)

(***************************************************************************)
(* Costs                                                                    *)
(***************************************************************************)
NoCost == [coordinator |-> 0, workers |-> 0, review |-> 0, fixes |-> 0,
           total |-> 0, limitReached |-> FALSE]

ByPhase(c) == c.coordinator + c.workers + c.review + c.fixes

(* The status interval: the workers' cost is what their state files say,    *)
(* the total is recomputed.                                                 *)
Refresh(c, workers) ==
    LET new == [c EXCEPT !.workers = workers]
    IN  [new EXCEPT !.total = ByPhase(new)]

AddReview(c, amount) == [c EXCEPT !.review = @ + amount, !.total = @ + amount]

AddFixes(c, amount) == [c EXCEPT !.fixes = @ + amount, !.total = @ + amount]

(* The end of the coordinator phase assigns the two parts and adds both to  *)
(* the total, which the interval may have brought up to date already.       *)
AddCoordinator(c, amount, workers) ==
    [c EXCEPT !.coordinator = amount, !.workers = workers,
              !.total = @ + amount + workers]

OverLimit(c) == c.total >= CostLimit /\ ~c.limitReached

(***************************************************************************)
(* The review loop                                                          *)
(***************************************************************************)
SomeRecur(current, earlier, threshold) ==
    earlier # {} /\ Cardinality(current \cap earlier) >= threshold

(* How long a review's list may be that has these issues: it may list some  *)
(* of them again.                                                           *)
Lengths(issues) ==
    IF issues = {} THEN {0} ELSE Cardinality(issues)..(Cardinality(issues) + SameIssueLimit)

(* Bug: only the review before is compared.                                 *)
StuckInARow(current, length, history) ==
    LET n == Len(history)
    IN  n >= 2 /\ length > 0 /\ SomeRecur(current, history[n - 1], SameIssueLimit)

(* The last entry of the history is the current review.  The threshold      *)
(* counts what is listed, the matches are between sets.                     *)
Stuck(current, length, history) ==
    LET n         == Len(history)
        threshold == IF SameIssueLimit < length THEN SameIssueLimit ELSE length
    IN  /\ n >= 2
        /\ length > 0
        /\ \/ SomeRecur(current, history[n - 1], threshold)
           \/ n >= 3 /\ SomeRecur(current, history[n - 2], threshold)

(***************************************************************************)
(* The approval gate                                                        *)
(***************************************************************************)
Risk == {"low", "medium", "high", "critical"}

Gates(risk) ==
    CASE Mode = "off"        -> FALSE
      [] Mode = "permissive" -> risk \in {"high", "critical"}
      [] Mode = "strict"     -> risk # "low"

(* Bug: an answer that names no task is taken for consent.                  *)
RefusedIfNamed(pending, answer) ==
    IF answer.approved = {} THEN {} ELSE pending \ answer.approved

(* What the answer does not approve is refused, whether its list of         *)
(* rejected tasks has it or not: that list is only printed.                 *)
Refused(pending, answer) == pending \ answer.approved
=============================================================================
