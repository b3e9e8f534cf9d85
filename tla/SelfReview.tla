----------------------------- MODULE SelfReview -----------------------------
(***************************************************************************)
(* The review that a worker makes of its own work before agent_work complete *)
(* is let through: the tool_call and agent_end handlers of worker.ts (a      *)
(* process) and sdk-worker.ts (in-process), and the fresh eyes that          *)
(* worker-tools/index.ts asks for where they are switched off.               *)
(*                                                                          *)
(* The agent's turns are external: in a turn it may change files and try to  *)
(* complete; at the end of a turn the handler reads the last message.        *)
(***************************************************************************)
EXTENDS Naturals

CONSTANTS
    ReviewerKind,  \* kinds of worker: "process", "sdk"
    ReviewLimit,   \* PI_MAX_SELF_REVIEW_CYCLES
    FreshLimit,    \* PI_FRESH_EYES_MAX_CYCLES
    MaxPrompts     \* bound: reviews that are counted

ASSUME SelfReviewAssumption ==
    /\ ReviewerKind \subseteq {"process", "sdk"}
    /\ ReviewLimit \in Nat /\ FreshLimit \in Nat
    /\ MaxPrompts \in Nat /\ ReviewLimit <= MaxPrompts

VARIABLES
    author,      \* kind; on: PI_SELF_REVIEW_ENABLED; fresh: PI_FRESH_EYES_ENABLED
    work,        \* complete: agent_work was let through; exited; modified: files are tracked
    selfReview,  \* the handlers' state; eyes: freshEyesCycleCount
    heard        \* what its reviews were: a clean verdict, prompts sent; or no file was found

reviewVars == <<author, work, selfReview, heard>>

ReviewInit ==
    /\ author \in [kind : ReviewerKind, on : BOOLEAN, fresh : BOOLEAN]
    /\ work = [complete |-> FALSE, exited |-> FALSE, modified |-> FALSE]
    /\ selfReview = [count |-> 0, passed |-> FALSE, pending |-> FALSE, eyes |-> 0]
    /\ heard = [clean |-> FALSE, prompts |-> 0, nothing |-> FALSE]

-----------------------------------------------------------------------------
(* The tools that edit files record them in the state file; what the agent  *)
(* changes otherwise leaves no trace there.                                 *)
ChangeFiles ==
    /\ ~work.exited /\ ~work.modified
    /\ work' = [work EXCEPT !.modified = TRUE]
    /\ UNCHANGED <<author, selfReview, heard>>

(* agent_work complete, once no handler blocks it: fresh eyes send the      *)
(* first attempt back.                                                      *)
FreshEyes == ~author.on /\ author.fresh /\ selfReview.eyes < FreshLimit

Complete ==
    work' = IF FreshEyes /\ selfReview.eyes = 0 THEN work ELSE [work EXCEPT !.complete = TRUE]

Eyes == IF FreshEyes THEN selfReview.eyes + 1 ELSE selfReview.eyes

(* Bug: an attempt is let through while its review is pending.              *)
CompleteImpatiently ==
    /\ ~work.exited
    /\ IF author.on /\ ~selfReview.passed /\ ~selfReview.pending
       THEN selfReview' = [selfReview EXCEPT !.pending = TRUE] /\ UNCHANGED work
       ELSE selfReview' = [selfReview EXCEPT !.eyes = Eyes] /\ Complete
    /\ UNCHANGED <<author, heard>>

(* An SDK worker needs no review if no file is found: it names none, and    *)
(* none is tracked or the state file cannot be read.                        *)
TryComplete ==
    /\ ~work.exited
    /\ \E named \in BOOLEAN, readable \in BOOLEAN :
          IF ~author.on \/ selfReview.passed
          THEN selfReview' = [selfReview EXCEPT !.eyes = Eyes] /\ Complete /\ UNCHANGED heard
          ELSE IF author.kind = "sdk" /\ ~named /\ ~(readable /\ work.modified)
          THEN /\ selfReview' = [selfReview EXCEPT !.passed = TRUE, !.eyes = Eyes] /\ Complete
               /\ heard' = [heard EXCEPT !.nothing = TRUE]
          ELSE selfReview' = [selfReview EXCEPT !.pending = TRUE] /\ UNCHANGED <<work, heard>>
    /\ UNCHANGED author

(* getAdaptiveMaxCycles: one cycle, or two for many files and no tests.     *)
CycleLimits ==
    IF author.kind = "process" THEN {ReviewLimit}
    ELSE {n \in 0..2 : n <= ReviewLimit /\ (n = 0 => ReviewLimit = 0)}

Counted(n) == IF n < MaxPrompts THEN n + 1 ELSE n

(* The end of a turn, with a verdict or without.  pendingCompletion is      *)
(* never cleared: after the first attempt every turn is followed by another *)
(* one, and the count starts again after a clean verdict.                    *)
EndOfTurn(clean) ==
    /\ ~work.exited
    /\ IF ~author.on \/ ~selfReview.pending
       THEN work' = [work EXCEPT !.exited = TRUE] /\ UNCHANGED <<selfReview, heard>>
       ELSE /\ UNCHANGED work
            /\ IF clean
               THEN /\ selfReview' = [selfReview EXCEPT !.passed = TRUE, !.count = 0]
                    /\ heard' = [heard EXCEPT !.clean = TRUE]
               ELSE \E limit \in CycleLimits :
                       IF selfReview.count >= limit
                       THEN selfReview' = [selfReview EXCEPT !.passed = TRUE] /\ UNCHANGED heard
                       ELSE /\ selfReview' = [selfReview EXCEPT !.count = @ + 1]
                            /\ heard' = [heard EXCEPT !.prompts = Counted(@)]
    /\ UNCHANGED author

(* The process is stopped.                                                  *)
Stopped ==
    /\ ~work.exited
    /\ work' = [work EXCEPT !.exited = TRUE]
    /\ UNCHANGED <<author, selfReview, heard>>

ReviewNext ==
    \/ ChangeFiles \/ TryComplete \/ Stopped
    \/ \E clean \in BOOLEAN : EndOfTurn(clean)

-----------------------------------------------------------------------------
ReviewTypeOK ==
    /\ author \in [kind : ReviewerKind, on : BOOLEAN, fresh : BOOLEAN]
    /\ work \in [complete : BOOLEAN, exited : BOOLEAN, modified : BOOLEAN]
    /\ selfReview \in [count : 0..ReviewLimit, passed : BOOLEAN, pending : BOOLEAN,
                       eyes : 0..FreshLimit]
    /\ heard \in [clean : BOOLEAN, prompts : 0..MaxPrompts, nothing : BOOLEAN]

(* Where self-review is on, nothing is completed unless a review was clean, *)
(* or as many were asked for as a worker of this kind is granted, or an SDK  *)
(* worker named no file and none was found to be tracked when it tried,      *)
(* whether it had changed any or not.                                        *)
CompletionIsReviewed ==
    work.complete /\ author.on =>
        \/ heard.clean
        \/ \E n \in CycleLimits : heard.prompts >= n
        \/ author.kind = "sdk" /\ heard.nothing
=============================================================================
