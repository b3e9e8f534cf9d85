------------------------------ MODULE Mailbox ------------------------------
(***************************************************************************)
(* Messages: sendMessage and getMessages in state.ts, as agent_chat          *)
(* (worker-tools/index.ts) and broadcast (coordinator-tools/index.ts) use    *)
(* them, seen by one worker that reads its inbox.  A message is a file of    *)
(* its own, written without a rename, so that a reader may meet it empty;    *)
(* JSON.parse then throws and the call of agent_chat fails.                  *)
(***************************************************************************)
EXTENDS Naturals

CONSTANTS
    Message,  \* messages that are sent to this worker or to all
    Foreign,  \* messages for other workers: they are in the same directory
    MaxClock  \* bound: the last millisecond

ASSUME MailboxAssumption == MaxClock \in Nat /\ Message \cap Foreign = {}

VARIABLES
    clock,     \* Date.now()
    mail,      \* each message: stage of its file, timestamp
    inbox,     \* the reader: its call, lastMessageCheck, messages it received
    raced,     \* history: messages on their way while an inbox call was made
    skipped    \* history: messages that the call's own "since" left out

mailVars == <<clock, mail, inbox, raced, skipped>>

Mail == Message \cup Foreign

MailInit ==
    /\ clock = 0
    /\ mail = [m \in Mail |-> [stage |-> "none", stamp |-> 0]]
    /\ inbox = [reading |-> FALSE, since |-> 0, listed |-> {}, todo |-> {}, got |-> {},
                lastCheck |-> 0, received |-> {}]
    /\ raced = {} /\ skipped = {}

-----------------------------------------------------------------------------
PassTime ==
    /\ clock < MaxClock
    /\ clock' = clock + 1
    /\ UNCHANGED <<mail, inbox, raced, skipped>>

(* sendMessage: the timestamp is taken, the file is created, then written.  *)
StepOfFile(m, from, to) ==
    /\ mail[m].stage = from
    /\ mail' = [mail EXCEPT ![m] = [stage |-> to, stamp |-> IF from = "none" THEN clock ELSE @.stamp]]
    /\ UNCHANGED <<clock, inbox, raced, skipped>>

Stamp(m)     == StepOfFile(m, "none", "stamped")
OpenFile(m)  == StepOfFile(m, "stamped", "empty")
WriteFile(m) == StepOfFile(m, "empty", "written")

(* The sender is killed between the two: the empty file stays.               *)
SenderDies(m) == StepOfFile(m, "empty", "torn")

-----------------------------------------------------------------------------
InDirectory == {m \in Mail : mail[m].stage \in {"empty", "written", "torn"}}

(* The agent may give a time of its own, earlier or later than the last     *)
(* check; 0 counts as none.                                                 *)
ListInbox ==
    /\ ~inbox.reading
    /\ \E since \in 0..MaxClock :
          inbox' = [inbox EXCEPT !.reading = TRUE, !.listed = InDirectory, !.todo = InDirectory,
                                 !.since = IF since = 0 THEN inbox.lastCheck ELSE since]
    /\ UNCHANGED <<clock, mail, raced, skipped>>

(* Bug: a message of the millisecond of the last check counts as seen.       *)
WantedIfLater(m) == m \in Message /\ mail[m].stamp > inbox.since

(* The messages that the filters of getMessages let through.                *)
Wanted(m) == m \in Message /\ mail[m].stamp >= inbox.since

NotReading == [inbox EXCEPT !.reading = FALSE, !.since = 0, !.listed = {}, !.todo = {}, !.got = {}]

ReadMessage(m) ==
    /\ inbox.reading /\ m \in inbox.todo
    /\ IF mail[m].stage = "written"
       THEN inbox' = [inbox EXCEPT !.todo = @ \ {m}, !.got = IF Wanted(m) THEN @ \cup {m} ELSE @]
       ELSE inbox' = NotReading
    /\ UNCHANGED <<clock, mail, raced, skipped>>

(* lastMessageCheck is the time after the reading, whatever "since" was: a   *)
(* message that came in the meantime is older, and so is one left out.       *)
FinishInbox ==
    /\ inbox.reading /\ inbox.todo = {}
    /\ inbox' = [NotReading EXCEPT !.lastCheck = clock, !.received = @ \cup inbox.got]
    /\ skipped' = skipped \cup {m \in Message \cap inbox.listed :
                                   inbox.lastCheck <= mail[m].stamp /\ mail[m].stamp < inbox.since}
    /\ raced' = raced \cup {m \in Message \ inbox.listed : mail[m].stage # "none"}
    /\ UNCHANGED <<clock, mail>>

MailNext ==
    \/ PassTime \/ ListInbox \/ FinishInbox
    \/ \E m \in Mail : Stamp(m) \/ OpenFile(m) \/ WriteFile(m) \/ SenderDies(m) \/ ReadMessage(m)

-----------------------------------------------------------------------------
MailTypeOK ==
    /\ clock \in 0..MaxClock
    /\ mail \in [Mail -> [stage : {"none", "stamped", "empty", "written", "torn"}, stamp : 0..MaxClock]]
    /\ inbox \in [reading : BOOLEAN, since : 0..MaxClock, listed : SUBSET Mail, todo : SUBSET Mail, got : SUBSET Message,
                  lastCheck : 0..MaxClock, received : SUBSET Message]
    /\ raced \subseteq Message /\ skipped \subseteq Message

(* A message is passed over, older than the last check and never received,   *)
(* only if it was on its way (stamped, and not in the directory that the     *)
(* call listed) while a call of the inbox was made, or if the agent itself   *)
(* asked for later ones only in a call that found it: no failed call, no     *)
(* earlier "since" and no two events in one millisecond lose any other.      *)
InboxLosesOnlyRaces ==
    \A m \in Message \ (inbox.received \cup raced \cup skipped) :
        ~inbox.reading /\ mail[m].stage = "written" => mail[m].stamp >= inbox.lastCheck
=============================================================================
