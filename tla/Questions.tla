----------------------------- MODULE Questions -----------------------------
(***************************************************************************)
(* A question to the user: escalate_to_user of the coordinator, agent_chat   *)
(* with to = "user" of a worker, and the two surfaces that answer it, the    *)
(* browser through the server of escalation.ts and the dashboard.  All of    *)
(* them write one file, escalation-responses/<id>.json, in place: a reader   *)
(* may meet it empty, and the agent takes that for no answer.                *)
(*                                                                          *)
(* One question; the server, the dashboard and the agent may be processes    *)
(* of their own.  A server handles one request at a time.                    *)
(***************************************************************************)
EXTENDS Naturals

CONSTANTS
    Choice,   \* what can be answered
    Default,  \* agentAssumption, or options[defaultOption]
    Nothing   \* no choice yet

ASSUME QuestionsAssumption == Default \in Choice /\ Nothing \notin Choice

VARIABLES
    deadline,  \* "open", "expired" (createdAt + timeout), "over" (the agent's own deadline)
    asker,     \* the agent: what it does, and the choice it goes on with
    response,  \* the file: "none", "empty" or "written", and its choice
    browser,   \* the request the server is handling: idle, checked or opened
    tui,       \* the dashboard: the question is in its list; an answer opened
    late       \* history: an answer was under way when the agent went on

questionsVars == <<deadline, asker, response, browser, tui, late>>

Idle == [at |-> "idle", choice |-> Nothing]

QuestionsInit ==
    /\ deadline = "open"
    /\ asker = [at |-> "polling", choice |-> Nothing]
    /\ response = [file |-> "none", choice |-> Nothing]
    /\ browser = Idle
    /\ tui = [listed |-> FALSE, choice |-> Nothing]
    /\ late = FALSE

Open == response' = [file |-> "empty", choice |-> Nothing]
Put(c) == response' = [file |-> "written", choice |-> c]

-----------------------------------------------------------------------------
TimePasses ==
    /\ deadline # "over"
    /\ deadline' = IF deadline = "open" THEN "expired" ELSE "over"
    /\ UNCHANGED <<asker, response, browser, tui, late>>

UnderWay == browser.at # "idle" \/ tui.listed \/ tui.choice # Nothing

GoOn(c) ==
    /\ asker' = [at |-> "gone", choice |-> c]
    /\ late' = UnderWay

(* An answer is found.  A file that does not parse is no answer.             *)
FindAnswer ==
    /\ asker.at = "polling" /\ response.file = "written"
    /\ GoOn(response.choice)
    /\ UNCHANGED <<deadline, response, browser, tui>>

(* The loop ends at the deadline, without another look: an answer that has  *)
(* come in since the last one is written over.                               *)
OpenDefault ==
    /\ asker.at = "polling" /\ deadline = "over"
    /\ asker' = [asker EXCEPT !.at = "writing"]
    /\ Open
    /\ UNCHANGED <<deadline, browser, tui, late>>

WriteDefault ==
    /\ asker.at = "writing"
    /\ Put(Default)
    /\ GoOn(Default)
    /\ UNCHANGED <<deadline, browser, tui>>

-----------------------------------------------------------------------------
(* POST /respond: refused with 409 when there is a file.                     *)
Responded == response.file # "none"

BrowserCheck(c) ==
    /\ browser = Idle /\ ~Responded
    /\ browser' = [at |-> "checked", choice |-> c]
    /\ UNCHANGED <<deadline, asker, response, tui, late>>

BrowserOpen ==
    /\ browser.at = "checked"
    /\ browser' = [browser EXCEPT !.at = "opened"]
    /\ Open
    /\ UNCHANGED <<deadline, asker, tui, late>>

BrowserWrite ==
    /\ browser.at = "opened"
    /\ Put(browser.choice)
    /\ browser' = Idle
    /\ UNCHANGED <<deadline, asker, tui, late>>

(* Bug: a question is pending until its time is over.                        *)
PendingInTime == deadline = "open"

(* getPendingEscalations: the dashboard's list, as often as it refreshes.    *)
Pending == ~Responded /\ deadline = "open"


TuiRefresh ==
    /\ tui.choice = Nothing
    /\ tui' = [tui EXCEPT !.listed = Pending]
    /\ UNCHANGED <<deadline, asker, response, browser, late>>

(* answerEscalation: what is in the list is answered with no look at the     *)
(* file, and the list is refreshed after it.                                 *)
TuiOpen(c) ==
    /\ tui.listed /\ tui.choice = Nothing
    /\ tui' = [tui EXCEPT !.choice = c]
    /\ Open
    /\ UNCHANGED <<deadline, asker, browser, late>>

TuiWrite ==
    /\ tui.choice # Nothing
    /\ Put(tui.choice)
    /\ tui' = [listed |-> FALSE, choice |-> Nothing]
    /\ UNCHANGED <<deadline, asker, browser, late>>

QuestionsNext ==
    \/ TimePasses \/ FindAnswer \/ OpenDefault \/ WriteDefault
    \/ BrowserOpen \/ BrowserWrite \/ TuiRefresh \/ TuiWrite
    \/ \E c \in Choice : BrowserCheck(c) \/ TuiOpen(c)

-----------------------------------------------------------------------------
QuestionsTypeOK ==
    /\ deadline \in {"open", "expired", "over"}
    /\ asker \in [at : {"polling", "writing", "gone"}, choice : Choice \cup {Nothing}]
    /\ response \in [file : {"none", "empty", "written"}, choice : Choice \cup {Nothing}]
    /\ browser \in [at : {"idle", "checked", "opened"}, choice : Choice \cup {Nothing}]
    /\ tui \in [listed : BOOLEAN, choice : Choice \cup {Nothing}]
    /\ late \in BOOLEAN

(* What the agent goes on with is what the file says ever after, and what   *)
(* the report shows, unless an answer was under way at that moment: a        *)
(* request that the server had checked, or a list of the dashboard that      *)
(* still held the question.  No answer that begins later changes it.         *)
AnswerStands ==
    asker.at = "gone" /\ ~late =>
        response = [file |-> "written", choice |-> asker.choice]
=============================================================================
