---------------------------- MODULE PartsProofs ----------------------------
(***************************************************************************)
(* Theorems about the parts of a coordination, for any number of agents,    *)
(* files, messages, tasks, jobs and runs.                                   *)
(***************************************************************************)
EXTENDS Parts, SequenceTheorems, TLAPS

(* A step of the composition is a step of each part, or leaves it alone.    *)
LEMMA StepOfParts ==
    ASSUME [Next]_vars
    PROVE  /\ [FilesNext]_filesVars /\ [ContractsNext]_contractsVars /\ [MailNext]_mailVars
           /\ [QuestionsNext]_questionsVars /\ [ReviewNext]_reviewVars /\ [SpecsNext]_specsVars
           /\ [AgentNext]_agentVars /\ [DetachedNext]_detachedVars
           /\ part' = part
BY DEF Next, vars

(* Hence a behaviour of the composition is one of each of them.             *)
LEMMA PartsAlone ==
    Spec => /\ FilesInit /\ [][FilesNext]_filesVars
            /\ ContractsInit /\ [][ContractsNext]_contractsVars
            /\ MailInit /\ [][MailNext]_mailVars
            /\ QuestionsInit /\ [][QuestionsNext]_questionsVars
            /\ ReviewInit /\ [][ReviewNext]_reviewVars
            /\ SpecsInit /\ [][SpecsNext]_specsVars
            /\ AgentInit /\ [][AgentNext]_agentVars
            /\ DetachedInit /\ [][DetachedNext]_detachedVars
            /\ part \in Parts /\ [][part' = part]_vars
<1>1. Init => /\ FilesInit /\ ContractsInit /\ MailInit /\ QuestionsInit
              /\ ReviewInit /\ SpecsInit /\ AgentInit /\ DetachedInit /\ part \in Parts
  BY DEF Init
<1>. QED
  BY <1>1, StepOfParts, PTL DEF Spec

-----------------------------------------------------------------------------
(* Questions                                                                *)

(* Once the agent has gone on and no answer was under way, none ever is.    *)
AnswerIsSettled ==
    asker.at = "gone" /\ ~late => browser.at = "idle" /\ ~tui.listed /\ tui.choice = Nothing

QuestionsInv == QuestionsTypeOK /\ AnswerStands /\ AnswerIsSettled

LEMMA QuestionsInductive ==
    /\ QuestionsInit => QuestionsInv
    /\ QuestionsInv /\ [QuestionsNext]_questionsVars => QuestionsInv'
<1>. USE QuestionsAssumption
<1>1. QuestionsInit => QuestionsInv
  <2>. SUFFICES ASSUME QuestionsInit
                PROVE  QuestionsInv
    OBVIOUS
  <2>1. QuestionsTypeOK
    BY DEF QuestionsInit, QuestionsTypeOK, Idle
  <2>2. asker.at # "gone"
    BY DEF QuestionsInit
  <2>. QED
    BY <2>1, <2>2 DEF QuestionsInv, AnswerStands, AnswerIsSettled
<1>2. ASSUME QuestionsInv, [QuestionsNext]_questionsVars
      PROVE  QuestionsInv'
  <2>. USE <1>2 DEF QuestionsInv, QuestionsTypeOK, AnswerStands, AnswerIsSettled
  <2>1. CASE TimePasses
    BY <2>1 DEF TimePasses
  <2>2. CASE FindAnswer
    BY <2>2 DEF FindAnswer, GoOn, UnderWay
  <2>3. CASE OpenDefault
    BY <2>3 DEF OpenDefault, Open
  <2>4. CASE WriteDefault
    BY <2>4 DEF WriteDefault, Put, GoOn, UnderWay
  <2>5. ASSUME NEW c \in Choice, BrowserCheck(c)
        PROVE  QuestionsInv'
    BY <2>5 DEF BrowserCheck, Responded
  <2>6. CASE BrowserOpen
    BY <2>6 DEF BrowserOpen, Open
  <2>7. CASE BrowserWrite
    BY <2>7 DEF BrowserWrite, Put, Idle
  <2>8. CASE TuiRefresh
    <3>1. Pending \in BOOLEAN /\ (response.file = "written" => ~Pending)
      BY DEF Pending, Responded
    <3>. QED
      BY <2>8, <3>1 DEF TuiRefresh
  <2>9. ASSUME NEW c \in Choice, TuiOpen(c)
        PROVE  QuestionsInv'
    BY <2>9 DEF TuiOpen, Open
  <2>10. CASE TuiWrite
    BY <2>10 DEF TuiWrite, Put
  <2>11. CASE UNCHANGED questionsVars
    BY <2>11 DEF questionsVars
  <2>. QED
    BY <2>1, <2>2, <2>3, <2>4, <2>5, <2>6, <2>7, <2>8, <2>9, <2>10, <2>11, <1>2 DEF QuestionsNext
<1>. QED
  BY <1>1, <1>2

-----------------------------------------------------------------------------
(* Self-review                                                              *)

(* Behind every review that counts as passed is a clean verdict, or as many *)
(* prompts as the worker's limit, or nothing to review.                     *)
PassedHadReviews ==
    author.on /\ (selfReview.passed \/ work.complete) =>
        \/ heard.clean
        \/ \E n \in CycleLimits : heard.prompts >= n
        \/ author.kind = "sdk" /\ heard.nothing

(* Until the first clean verdict every review that is counted was prompted. *)
CountedArePrompted == ~heard.clean => heard.prompts >= selfReview.count

ReviewInv == ReviewTypeOK /\ PassedHadReviews /\ CountedArePrompted

(* No worker is granted more cycles than the setting allows.                *)
LEMMA LimitsAreBounded ==
    ASSUME author.kind \in ReviewerKind
    PROVE  CycleLimits \subseteq 0..ReviewLimit
BY SelfReviewAssumption DEF CycleLimits

LEMMA ReviewInductive ==
    /\ ReviewInit => ReviewInv
    /\ ReviewInv /\ [ReviewNext]_reviewVars => ReviewInv'
<1>. USE SelfReviewAssumption
<1>1. ASSUME ReviewInit
      PROVE  ReviewInv
  <2>1. ReviewTypeOK
    BY <1>1 DEF ReviewInit, ReviewTypeOK
  <2>2. ~selfReview.passed /\ ~work.complete /\ selfReview.count = 0 /\ heard.prompts = 0
    BY <1>1 DEF ReviewInit
  <2>. QED
    BY <2>1, <2>2 DEF ReviewInv, PassedHadReviews, CountedArePrompted
<1>2. ASSUME ReviewInv, [ReviewNext]_reviewVars
      PROVE  ReviewInv'
  <2>. USE <1>2 DEF ReviewInv, ReviewTypeOK, PassedHadReviews, CountedArePrompted
  <2>0. /\ author' = author
        /\ CycleLimits' = CycleLimits
        /\ CycleLimits \subseteq 0..ReviewLimit
    BY LimitsAreBounded DEF ReviewNext, ChangeFiles, TryComplete, Stopped, EndOfTurn, CycleLimits,
       reviewVars
  <2>. HIDE DEF CycleLimits
  <2>1. CASE ChangeFiles \/ Stopped
    BY <2>0, <2>1 DEF ChangeFiles, Stopped
  <2>2. CASE TryComplete
    <3>1. Eyes \in 0..FreshLimit
      BY DEF Eyes, FreshEyes
    <3>6. Complete => work' \in [complete : BOOLEAN, exited : BOOLEAN, modified : BOOLEAN]
      BY DEF Complete
    <3>2. PICK named \in BOOLEAN, readable \in BOOLEAN :
            IF ~author.on \/ selfReview.passed
            THEN selfReview' = [selfReview EXCEPT !.eyes = Eyes] /\ Complete /\ UNCHANGED heard
            ELSE IF author.kind = "sdk" /\ ~named /\ ~(readable /\ work.modified)
            THEN /\ selfReview' = [selfReview EXCEPT !.passed = TRUE, !.eyes = Eyes] /\ Complete
                 /\ heard' = [heard EXCEPT !.nothing = TRUE]
            ELSE selfReview' = [selfReview EXCEPT !.pending = TRUE] /\ UNCHANGED <<work, heard>>
      BY <2>2 DEF TryComplete
    <3>3. CASE ~author.on \/ selfReview.passed
      BY <2>0, <3>1, <3>2, <3>3, <3>6
    <3>4. CASE /\ ~(~author.on \/ selfReview.passed)
               /\ author.kind = "sdk" /\ ~named /\ ~(readable /\ work.modified)
      BY <2>0, <3>1, <3>2, <3>4, <3>6
    <3>5. CASE /\ ~(~author.on \/ selfReview.passed)
               /\ ~(author.kind = "sdk" /\ ~named /\ ~(readable /\ work.modified))
      BY <2>0, <3>2, <3>5
    <3>. QED
      BY <3>3, <3>4, <3>5
  <2>3. ASSUME NEW clean \in BOOLEAN, EndOfTurn(clean)
        PROVE  ReviewInv'
    <3>1. CASE ~author.on \/ ~selfReview.pending
      BY <2>0, <2>3, <3>1 DEF EndOfTurn
    <3>2. CASE author.on /\ selfReview.pending /\ clean
      <4>1. /\ work' = work
            /\ selfReview' = [selfReview EXCEPT !.passed = TRUE, !.count = 0]
            /\ heard' = [heard EXCEPT !.clean = TRUE]
        BY <2>3, <3>2 DEF EndOfTurn
      <4>3. selfReview' \in [count : 0..ReviewLimit, passed : BOOLEAN, pending : BOOLEAN,
                             eyes : 0..FreshLimit]
        <5>1. 0 \in 0..ReviewLimit
          OBVIOUS
        <5>2. [selfReview EXCEPT !.passed = TRUE] \in
                [count : 0..ReviewLimit, passed : BOOLEAN, pending : BOOLEAN, eyes : 0..FreshLimit]
          OBVIOUS
        <5>3. [[selfReview EXCEPT !.passed = TRUE] EXCEPT !.count = 0] \in
                [count : 0..ReviewLimit, passed : BOOLEAN, pending : BOOLEAN, eyes : 0..FreshLimit]
          BY <5>1, <5>2
        <5>. QED
          BY <4>1, <5>3
      <4>4. heard' \in [clean : BOOLEAN, prompts : 0..MaxPrompts, nothing : BOOLEAN]
        BY <4>1
      <4>2. ReviewTypeOK' /\ heard'.clean
        BY <2>0, <4>1, <4>3, <4>4
      <4>. QED
        BY <2>0, <4>2
    <3>3. CASE author.on /\ selfReview.pending /\ ~clean
      <4>1. PICK limit \in CycleLimits :
              IF selfReview.count >= limit
              THEN selfReview' = [selfReview EXCEPT !.passed = TRUE] /\ UNCHANGED heard
              ELSE /\ selfReview' = [selfReview EXCEPT !.count = @ + 1]
                   /\ heard' = [heard EXCEPT !.prompts = Counted(@)]
        BY <2>3, <3>3 DEF EndOfTurn
      <4>2. work' = work
        BY <2>3, <3>3 DEF EndOfTurn
      <4>3. limit \in 0..ReviewLimit
        BY <4>1, <2>0
      <4>4. CASE selfReview.count >= limit
        <5>1. selfReview' = [selfReview EXCEPT !.passed = TRUE] /\ heard' = heard
          BY <4>1, <4>4
        <5>2. ReviewTypeOK' /\ selfReview'.count = selfReview.count
          BY <2>0, <4>2, <5>1
        <5>3. heard.clean \/ heard.prompts >= limit
          BY <4>3, <4>4
        <5>. QED
          BY <2>0, <4>1, <4>2, <5>1, <5>2, <5>3
      <4>5. CASE selfReview.count < limit
        <5>1. /\ Counted(heard.prompts) \in 0..MaxPrompts
              /\ Counted(heard.prompts) >= heard.prompts
              /\ Counted(heard.prompts) = MaxPrompts \/ Counted(heard.prompts) = heard.prompts + 1
          BY DEF Counted
        <5>. QED
          BY <2>0, <4>1, <4>2, <4>3, <4>5, <5>1
      <4>. QED
        BY <4>3, <4>4, <4>5
    <3>. QED
      BY <3>1, <3>2, <3>3
  <2>4. CASE UNCHANGED reviewVars
    BY <2>0, <2>4 DEF reviewVars
  <2>. QED
    BY <2>1, <2>2, <2>3, <2>4, <1>2 DEF ReviewNext
<1>. QED
  BY <1>1, <1>2

-----------------------------------------------------------------------------
(* Messages                                                                 *)

(* A message that was not received, raced or skipped is not older than the  *)
(* last check, at whatever stage it is: a call that goes on will list it.   *)
NothingPassedOver ==
    \A m \in Message \ (inbox.received \cup raced \cup skipped) :
        mail[m].stage # "none" => mail[m].stamp >= inbox.lastCheck

(* What a call has listed and read it has got, if it wanted it.             *)
WantedIsGot ==
    inbox.reading =>
        /\ \A m \in inbox.listed : mail[m].stage # "none"
        /\ \A m \in (inbox.listed \ inbox.todo) \cap Message :
              mail[m].stamp >= inbox.since => m \in inbox.got

MailInv == /\ MailTypeOK /\ NothingPassedOver /\ WantedIsGot
           /\ inbox.lastCheck <= clock

Inbox == [reading : BOOLEAN, since : 0..MaxClock, listed : SUBSET Mail, todo : SUBSET Mail,
          got : SUBSET Message, lastCheck : 0..MaxClock, received : SUBSET Message]

LEMMA NotReadingFields ==
    ASSUME MailTypeOK
    PROVE  /\ NotReading \in Inbox /\ ~NotReading.reading
           /\ NotReading.lastCheck = inbox.lastCheck /\ NotReading.received = inbox.received
<1>1. inbox \in Inbox /\ 0 \in 0..MaxClock
  BY MailboxAssumption DEF MailTypeOK, Inbox
<1>. QED
  BY <1>1 DEF NotReading, Inbox

LEMMA MailInductive ==
    /\ MailInit => MailInv
    /\ MailInv /\ [MailNext]_mailVars => MailInv'
<1>. USE MailboxAssumption DEF Mail
<1>1. ASSUME MailInit
      PROVE  MailInv
  BY <1>1 DEF MailInit, MailInv, MailTypeOK, NothingPassedOver, WantedIsGot
<1>2. ASSUME MailInv, [MailNext]_mailVars
      PROVE  MailInv'
  <2>. USE <1>2 DEF MailInv, MailTypeOK, NothingPassedOver, WantedIsGot
  <2>1. CASE PassTime
    BY <2>1 DEF PassTime
  <2>2. CASE ListInbox
    <3>1. PICK since \in 0..MaxClock :
            inbox' = [inbox EXCEPT !.reading = TRUE, !.listed = InDirectory, !.todo = InDirectory,
                                   !.since = since]
      BY <2>2 DEF ListInbox
    <3>2. clock' = clock /\ mail' = mail /\ raced' = raced /\ skipped' = skipped
      BY <2>2 DEF ListInbox
    <3>3. InDirectory \in SUBSET Mail /\ \A m \in InDirectory : mail[m].stage # "none"
      BY DEF InDirectory
    <3>4. /\ inbox'.listed = InDirectory /\ inbox'.todo = InDirectory
          /\ inbox'.lastCheck = inbox.lastCheck /\ inbox'.received = inbox.received
      BY <3>1
    <3>5. MailTypeOK'
      BY <3>1, <3>2, <3>3
    <3>. QED
      BY <3>2, <3>3, <3>4, <3>5
  <2>3. CASE FinishInbox
    <3>1. /\ inbox.reading /\ inbox.todo = {} /\ clock' = clock /\ mail' = mail
          /\ raced' = raced \cup {m \in Message \ inbox.listed : mail[m].stage # "none"}
          /\ skipped' = skipped \cup {m \in Message \cap inbox.listed :
                                         inbox.lastCheck <= mail[m].stamp /\ mail[m].stamp < inbox.since}
          /\ inbox'.reading = FALSE /\ inbox'.lastCheck = clock
          /\ inbox'.received = inbox.received \cup inbox.got
      BY <2>3, NotReadingFields DEF FinishInbox
    <3>3. MailTypeOK'
      <4>1. inbox' = [NotReading EXCEPT !.lastCheck = clock, !.received = inbox.received \cup inbox.got]
        BY <2>3, NotReadingFields DEF FinishInbox
      <4>2. inbox' \in Inbox
        BY <4>1, NotReadingFields DEF Inbox
      <4>. QED
        BY <3>1, <4>2 DEF Inbox
    <3>2. ASSUME NEW m \in Message \ (inbox'.received \cup raced' \cup skipped'), mail[m].stage # "none"
          PROVE  FALSE
      <4>1. m \in inbox.listed /\ mail[m].stamp >= inbox.lastCheck
        BY <3>1, <3>2
      <4>2. mail[m].stamp \in Nat /\ inbox.since \in Nat /\ ~(mail[m].stamp < inbox.since)
        BY <3>1, <3>2, <4>1
      <4>. QED
        BY <3>1, <3>2, <4>1, <4>2
    <3>. QED
      BY <3>1, <3>2, <3>3
  <2>4. ASSUME NEW m \in Mail, NEW from \in {"none", "stamped", "empty"},
               NEW to \in {"stamped", "empty", "written", "torn"}, StepOfFile(m, from, to)
        PROVE  MailInv'
    BY <2>4 DEF StepOfFile
  <2>5. ASSUME NEW m \in Mail, ReadMessage(m)
        PROVE  MailInv'
    <3>1. /\ inbox.reading /\ m \in inbox.todo /\ clock' = clock /\ mail' = mail /\ raced' = raced
          /\ skipped' = skipped
      BY <2>5 DEF ReadMessage
    <3>2. CASE mail[m].stage = "written"
      <4>1. inbox' = [inbox EXCEPT !.todo = @ \ {m}, !.got = IF Wanted(m) THEN @ \cup {m} ELSE @]
        BY <2>5, <3>2 DEF ReadMessage
      <4>2. /\ inbox'.todo = inbox.todo \ {m}
            /\ inbox'.got = IF Wanted(m) THEN inbox.got \cup {m} ELSE inbox.got
            /\ inbox'.reading = inbox.reading /\ inbox'.listed = inbox.listed
            /\ inbox'.lastCheck = inbox.lastCheck /\ inbox'.received = inbox.received
            /\ inbox'.since = inbox.since
        BY <4>1
      <4>3. MailTypeOK'
        BY <3>1, <4>1 DEF Wanted
      <4>. QED
        BY <3>1, <4>2, <4>3 DEF Wanted
    <3>3. CASE mail[m].stage # "written"
      <4>1. inbox' = NotReading
        BY <2>5, <3>3 DEF ReadMessage
      <4>2. /\ ~inbox'.reading /\ inbox'.lastCheck = inbox.lastCheck
            /\ inbox'.received = inbox.received
        BY <4>1, NotReadingFields
      <4>3. MailTypeOK'
        BY <3>1, <4>1, NotReadingFields DEF Inbox
      <4>. QED
        BY <3>1, <4>2, <4>3
    <3>. QED
      BY <3>2, <3>3
  <2>6. CASE UNCHANGED mailVars
    BY <2>6 DEF mailVars
  <2>7. ASSUME NEW m \in Mail, Stamp(m) \/ OpenFile(m) \/ WriteFile(m) \/ SenderDies(m)
        PROVE  MailInv'
    BY <2>4, <2>7 DEF Stamp, OpenFile, WriteFile, SenderDies
  <2>. QED
    BY <2>1, <2>2, <2>3, <2>5, <2>6, <2>7, <1>2 DEF MailNext
<1>. QED
  BY <1>1, <1>2

-----------------------------------------------------------------------------
(* Contracts                                                                *)

LEMMA CallTypes == Off \in Calls /\ Working \in Calls
BY ContractsAssumption DEF Off, Working, Calls, AnyItem

LEMMA ContractsInductive ==
    /\ ContractsInit => ContractsTypeOK
    /\ ContractsTypeOK /\ [ContractsNext]_contractsVars => ContractsTypeOK'
<1>. USE ContractsAssumption
<1>1. ContractsInit => ContractsTypeOK
  BY CallTypes DEF ContractsInit, ContractsTypeOK, Contract, NoContract
<1>2. ASSUME ContractsTypeOK, [ContractsNext]_contractsVars
      PROVE  ContractsTypeOK'
  <2>. USE CallTypes, <1>2 DEF ContractsTypeOK, Contract
  <2>1. CASE SpawnAll
    BY <2>1 DEF SpawnAll
  <2>2. ASSUME NEW i \in Item, CreateContract(i)
        PROVE  ContractsTypeOK'
    BY <2>2 DEF CreateContract
  <2>3. ASSUME NEW w \in Peer, Leave(w)
        PROVE  ContractsTypeOK'
    BY <2>3 DEF Leave
  <2>4. ASSUME NEW w \in Peer, Tell(w)
        PROVE  ContractsTypeOK'
    <3>1. CASE call[w].todo = {}
      BY <2>4, <3>1 DEF Tell
    <3>2. CASE call[w].todo # {}
      <4>1. PICK v \in call[w].todo : call' = [call EXCEPT ![w].todo = @ \ {v}]
        BY <2>4, <3>2 DEF Tell
      <4>2. [call[w] EXCEPT !.todo = @ \ {v}] \in Calls
        BY DEF Calls
      <4>. QED
        BY <2>4, <4>1, <4>2 DEF Tell
    <3>. QED
      BY <3>1, <3>2
  <2>5. ASSUME NEW w \in Peer, RegisterWaiter(w)
        PROVE  ContractsTypeOK'
    <3>1. call[w].item \in Item /\ [call[w] EXCEPT !.at = "wait"] \in Calls
      BY DEF Calls
    <3>2. contract' \in [Item -> Contract]
      BY <2>5, <3>1 DEF RegisterWaiter
    <3>. QED
      BY <2>5, <3>1, <3>2 DEF RegisterWaiter
  <2>6. ASSUME NEW w \in Peer, SeeReady(w) \/ GiveUp(w)
        PROVE  ContractsTypeOK'
    BY <2>6 DEF SeeReady, GiveUp
  <2>7. ASSUME NEW w \in Peer, NEW i \in Item, Provide(w, i)
        PROVE  ContractsTypeOK'
    <3>1. [at |-> "tell", item |-> i, todo |-> contract[i].waiters] \in Calls
      BY DEF Calls
    <3>2. contract' \in [Item -> Contract]
      <4>1. [contract[i] EXCEPT !.ready = TRUE] \in Contract
        OBVIOUS
      <4>. QED
        BY <2>7, <4>1 DEF Provide
    <3>. QED
      BY <2>7, <3>1, <3>2 DEF Provide
  <2>8. ASSUME NEW w \in Peer, NEW i \in Item, Need(w, i)
        PROVE  ContractsTypeOK'
    BY <2>8 DEF Need, Calls
  <2>9. CASE UNCHANGED contractsVars
    BY <2>9, SMTT(40) DEF contractsVars
  <2>. QED
    BY <2>1, <2>2, <2>3, <2>4, <2>5, <2>6, <2>7, <2>8, <2>9, <1>2 DEF ContractsNext
<1>. QED
  BY <1>1, <1>2

(* A step makes no contract unready but by making a new one.                *)
LEMMA ReadyKeptByStep ==
    ASSUME ContractsTypeOK, ContractsNext, NEW i \in Item,
           contract[i].ready, contract'[i].made = contract[i].made
    PROVE  contract'[i].ready
<1>. USE ContractsAssumption DEF ContractsTypeOK, Contract
<1>1. ASSUME NEW k \in Item, CreateContract(k)
      PROVE  contract'[i].ready
  BY <1>1 DEF CreateContract
<1>2. ASSUME NEW w \in Peer, RegisterWaiter(w)
      PROVE  contract'[i].ready
  BY <1>2 DEF RegisterWaiter, Calls
<1>3. ASSUME NEW w \in Peer, NEW k \in Item, Provide(w, k)
      PROVE  contract'[i].ready
  BY <1>3 DEF Provide
<1>4. CASE UNCHANGED contract
  BY <1>4
<1>. QED
  BY <1>1, <1>2, <1>3, <1>4 DEF ContractsNext, SpawnAll, Leave, Tell, SeeReady, GiveUp, Need

-----------------------------------------------------------------------------
(* Sub-agents                                                               *)

(* A job is not prompted before it starts, and waits only for an attempt it *)
(* is still granted.                                                        *)
AttemptsAreGranted ==
    \A j \in Job : /\ agent[j].at \in {"none", "todo"} => agent[j].attempt = 0
                   /\ agent[j].at = "waiting" => agent[j].attempt < 2 * Models

AgentInv == AgentTypeOK /\ AttemptsAreGranted

LEMMA AgentInductive ==
    /\ AgentInit => AgentInv
    /\ AgentInv /\ [AgentNext]_agentVars => AgentInv'
<1>. USE SubAgentAssumption
<1>. DEFINE JobState == [at : {"none", "todo", "running", "signalled", "waiting", "returned"},
                         silent : BOOLEAN, attempt : 0..(2 * Models), exit : {0, 1},
                         stop : {"none", "timeout", "aborted"}]
            Granted(r) == /\ r \in JobState
                          /\ r.at \in {"none", "todo"} => r.attempt = 0
                          /\ r.at = "waiting" => r.attempt < 2 * Models
<1>0. AgentInv <=> /\ path \in {"process", "sdk"} /\ stubborn \subseteq Job /\ aborted \in BOOLEAN
                   /\ agent \in [Job -> JobState]
                   /\ \A j \in Job : Granted(agent[j])
  BY DEF AgentInv, AgentTypeOK, AttemptsAreGranted
<1>1. AgentInit => AgentInv
  <2>1. 0 \in 0..(2 * Models)
    OBVIOUS
  <2>. QED
    <3>1. Granted([at |-> "none", silent |-> FALSE, attempt |-> 0, exit |-> 0, stop |-> "none"])
      BY <2>1
    <3>2. AgentInit => \A j \in Job : Granted(agent[j])
      BY <3>1 DEF AgentInit
    <3>3. AgentInit => agent \in [Job -> JobState]
      BY <3>1 DEF AgentInit
    <3>4. AgentInit => path \in {"process", "sdk"} /\ stubborn \subseteq Job /\ aborted \in BOOLEAN
      BY DEF AgentInit
    <3>. QED
      BY <3>2, <3>3, <3>4, <1>0
<1>2. ASSUME AgentInv, [AgentNext]_agentVars
      PROVE  AgentInv'
  <2>1. ASSUME NEW j \in Job, NEW r, Granted(r), Set(j, r), UNCHANGED <<path, stubborn, aborted>>
        PROVE  AgentInv'
    BY <1>0, <1>2, <2>1 DEF Set, AgentInv, AgentTypeOK, AttemptsAreGranted
  <2>2. CASE CallPool
    BY <1>0, <1>2, <2>2, ZenonT(60) DEF CallPool, AgentInv, AgentTypeOK, AttemptsAreGranted
  <2>3. CASE Abort
    <3>1. CASE path = "sdk"
      BY <1>2, <2>3, <3>1 DEF Abort, AgentInv, AgentTypeOK, AttemptsAreGranted
    <3>2. CASE path # "sdk"
      BY <1>2, <2>3, <3>2 DEF Abort, AgentInv, AgentTypeOK, AttemptsAreGranted
    <3>. QED
      BY <3>1, <3>2
  <2>4. ASSUME NEW j \in Job, agent[j].at \in {"todo", "waiting"}
        PROVE  Granted(Attempt(j))
    <3>1. agent[j] \in JobState /\ Granted(agent[j]) /\ agent[j].attempt + 1 \in 0..(2 * Models)
      BY <1>0, <1>2, <2>4
    <3>2. CASE aborted
      BY <3>1, <3>2 DEF Attempt
    <3>3. CASE ~aborted
      BY <3>1, <3>3 DEF Attempt
    <3>. QED
      BY <3>2, <3>3
  <2>5. ASSUME NEW j \in Job
        PROVE  /\ \A s \in {"none", "timeout", "aborted"} :
                     Granted([agent[j] EXCEPT !.at = "signalled", !.stop = s])
               /\ Granted([agent[j] EXCEPT !.at = "running"])
               /\ Granted([agent[j] EXCEPT !.silent = ~@])
               /\ \A code \in {0, 1} : Granted([agent[j] EXCEPT !.at = "returned", !.exit = code])
               /\ agent[j].attempt < 2 * Models => Granted([agent[j] EXCEPT !.at = "waiting"])
    <3>1. agent[j] \in JobState /\ Granted(agent[j])
      BY <1>0, <1>2
    <3>2. agent[j].at \notin {"none", "todo"} \/ agent[j].attempt = 0
      BY <3>1
    <3>3. \A s \in {"none", "timeout", "aborted"} :
             Granted([agent[j] EXCEPT !.at = "signalled", !.stop = s])
      BY <3>1
    <3>4. Granted([agent[j] EXCEPT !.at = "running"])
      BY <3>1
    <3>5. Granted([agent[j] EXCEPT !.silent = ~@])
      BY <3>1
    <3>6. \A code \in {0, 1} : Granted([agent[j] EXCEPT !.at = "returned", !.exit = code])
      BY <3>1
    <3>7. agent[j].attempt < 2 * Models => Granted([agent[j] EXCEPT !.at = "waiting"])
      BY <3>1
    <3>. QED
      BY <3>3, <3>4, <3>5, <3>6, <3>7
  <2>. HIDE DEF Granted, JobState
  <2>6. ASSUME NEW j \in Job, StartAgent(j)
        PROVE  AgentInv'
    BY <2>1, <2>4, <2>5, <2>6 DEF StartAgent, NextJob
  <2>7. ASSUME NEW j \in Job, Talk(j) \/ RoleTimeout(j) \/ IdleTimeout(j) \/ Close(j)
        PROVE  AgentInv'
    BY <2>1, <2>5, <2>7 DEF Talk, RoleTimeout, IdleTimeout, TimedOut, Close
  <2>8. ASSUME NEW j \in Job, PromptEnds(j) \/ TryAgain(j)
        PROVE  AgentInv'
    BY <2>1, <2>4, <2>5, <2>8 DEF PromptEnds, TryAgain
  <2>9. CASE UNCHANGED agentVars
    BY <1>2, <2>9 DEF agentVars, AgentInv, AgentTypeOK, AttemptsAreGranted
  <2>. QED
    BY <2>2, <2>3, <2>6, <2>7, <2>8, <2>9, <1>2 DEF AgentNext
<1>. QED
  BY <1>1, <1>2

-----------------------------------------------------------------------------
(* Detached runs                                                            *)

LEMMA DetachedInductive ==
    /\ DetachedInit => DetachedTypeOK
    /\ DetachedTypeOK /\ [DetachedNext]_detachedVars => DetachedTypeOK'
<1>. USE DetachedAssumption
<1>. DEFINE Good(run) == run \in DetachedRun /\ run.told \subseteq {run.owner}
<1>1. Good(NotAsked)
  <2>1. 0 \in 0..MaxPids /\ 0 \in 0..MaxEvents
    OBVIOUS
  <2>. QED
    BY <2>1 DEF NotAsked, DetachedRun, Status
<1>2. DetachedTypeOK <=> /\ pid \in 1..MaxPids /\ watcher \in Dir \cup {Nowhere}
                         /\ detached \in [Detach -> DetachedRun]
                         /\ \A r \in Detach : Good(detached[r])
  BY DEF DetachedTypeOK
<1>5. ASSUME NEW g, Good(g), NEW end \in {"opened", "ended"}
      PROVE  Good([g EXCEPT !.child = end])
  BY <1>5 DEF DetachedRun
<1>6. ASSUME NEW g, Good(g), NEW how \in Status
      PROVE  Good([g EXCEPT !.status = how])
  BY <1>6 DEF DetachedRun
<1>7. ASSUME NEW g, Good(g)
      PROVE  /\ g.final \in Status /\ Good([g EXCEPT !.asked = "opened"])
             /\ Good([g EXCEPT !.asked = "done"])
  BY <1>7 DEF DetachedRun, Status
<1>8. ASSUME NEW g, Good(g), NEW how \in {"complete", "failed"}, NEW n \in 0..MaxEvents
      PROVE  /\ Good([g EXCEPT !.final = how]) /\ Good([g EXCEPT !.result = TRUE])
             /\ Good([g EXCEPT !.events = n])
  BY <1>8 DEF DetachedRun
<1>9. ASSUME NEW g, Good(g)
      PROVE  /\ Good([g EXCEPT !.result = FALSE])
             /\ g.owner \in 1..MaxPids => Good([g EXCEPT !.told = @ \cup {g.owner}])
  BY <1>9 DEF DetachedRun
<1>3. DetachedInit => DetachedTypeOK
  BY <1>1, <1>2 DEF DetachedInit
<1>4. ASSUME DetachedTypeOK, [DetachedNext]_detachedVars
      PROVE  DetachedTypeOK'
  <2>1. ASSUME NEW r \in Detach, NEW run, Good(run), Becomes(r, run), UNCHANGED <<pid, watcher>>
        PROVE  DetachedTypeOK'
    BY <1>2, <1>4, <2>1 DEF Becomes, DetachedTypeOK
  <2>2. ASSUME NEW r \in Detach
        PROVE  detached[r] \in DetachedRun /\ Good(detached[r])
    BY <1>2, <1>4
  <2>3. ASSUME NEW r \in Detach, AskBackground(r)
        PROVE  DetachedTypeOK'
    <3>. DEFINE new == [NotAsked EXCEPT !.mode = "background", !.asked = "call", !.owner = pid,
                                        !.status = "running"]
    <3>1. pid \in 0..MaxPids
      BY <1>2, <1>4
    <3>2. Good(new)
      BY <1>1, <3>1 DEF NotAsked, DetachedRun, Status
    <3>. QED
      BY <2>1, <2>3, <3>2 DEF AskBackground
  <2>4. ASSUME NEW r \in Detach, NEW cwd \in Dir, AskAsync(r, cwd)
        PROVE  DetachedTypeOK'
    <3>. DEFINE new == [NotAsked EXCEPT !.mode = "async", !.asked = "call", !.owner = pid,
                                        !.cwd = cwd]
    <3>1. pid \in 0..MaxPids
      BY <1>2, <1>4
    <3>2. Good(new)
      BY <1>1, <3>1 DEF NotAsked, DetachedRun, Status
    <3>3. PICK stale \in SUBSET {s \in Detach : detached[s].result /\ watcher = Nowhere} :
            detached' = [s \in Detach |->
                IF s = r THEN new ELSE [detached[s] EXCEPT !.result = @ /\ s \notin stale]]
      BY <2>4 DEF AskAsync
    <3>4. ASSUME NEW s \in Detach
          PROVE  Good([detached[s] EXCEPT !.result = @ /\ s \notin stale])
      <4>1. (detached[s].result /\ s \notin stale) \in BOOLEAN
        OBVIOUS
      <4>2. \A b \in BOOLEAN : Good([detached[s] EXCEPT !.result = b])
        BY <2>2 DEF DetachedRun
      <4>. QED
        BY <4>1, <4>2
    <3>5. \A s \in Detach : Good(detached'[s])
      BY <3>2, <3>3, <3>4
    <3>. HIDE DEF new
    <3>6. detached' \in [Detach -> DetachedRun]
      BY <3>2, <3>3, <3>4
    <3>. QED
      BY <1>4, <2>4, <3>5, <3>6 DEF AskAsync, DetachedTypeOK
  <2>5. ASSUME NEW r \in Detach, SpawnChild(r) \/ OpenStatus(r) \/ WritePid(r)
        PROVE  DetachedTypeOK'
    <3>1. Good([detached[r] EXCEPT !.child = "running",
                  !.asked = IF detached[r].mode = "async" THEN "done" ELSE "spawned"])
      BY <2>2, ZenonT(60) DEF DetachedRun
    <3>4. {"torn", "running"} \subseteq Status
      BY DEF Status
    <3>2. Good([detached[r] EXCEPT !.asked = "opened", !.status = "torn"])
      <4>1. Good([[detached[r] EXCEPT !.asked = "opened"] EXCEPT !.status = "torn"])
        <5>. HIDE DEF Good
        <5>. QED
          BY <1>6, <1>7, <2>2, <3>4
      <4>. QED
        BY <4>1
    <3>3. Good([detached[r] EXCEPT !.asked = "done", !.status = "running"])
      <4>1. Good([[detached[r] EXCEPT !.asked = "done"] EXCEPT !.status = "running"])
        <5>. HIDE DEF Good
        <5>. QED
          BY <1>6, <1>7, <2>2, <3>4
      <4>. QED
        BY <4>1
    <3>. QED
      BY <2>1, <2>5, <3>1, <3>2, <3>3 DEF SpawnChild, OpenStatus, WritePid
  <2>6. ASSUME NEW r \in Detach, ReadStatus(r)
        PROVE  DetachedTypeOK'
    <3>1. PICK how \in {"complete", "failed"} :
            Becomes(r, [detached[r] EXCEPT !.final = how, !.raced = detached[r].asked # "done",
                            !.child = IF detached[r].status = "torn" THEN "ended" ELSE "read"])
      BY <2>6 DEF ReadStatus
    <3>2. (detached[r].asked # "done") \in BOOLEAN
      OBVIOUS
    <3>3. Good([detached[r] EXCEPT !.final = how, !.raced = detached[r].asked # "done",
                    !.child = IF detached[r].status = "torn" THEN "ended" ELSE "read"])
      <4>1. ASSUME NEW b \in BOOLEAN, NEW c \in {"ended", "read"}
            PROVE  Good([detached[r] EXCEPT !.final = how, !.raced = b, !.child = c])
        <5>. DEFINE run == [detached[r] EXCEPT !.final = how, !.child = c]
        <5>1. Good(run)
          BY <2>2, ZenonT(60) DEF DetachedRun
        <5>2. Good([run EXCEPT !.raced = b])
          <6>. HIDE DEF run
          <6>. QED
            BY <5>1 DEF DetachedRun
        <5>3. [run EXCEPT !.raced = b] = [detached[r] EXCEPT !.final = how, !.raced = b, !.child = c]
          BY <2>2 DEF DetachedRun
        <5>. QED
          BY <5>2, <5>3
      <4>. QED
        BY <3>2, <4>1
    <3>. QED
      BY <2>1, <2>6, <3>1, <3>3 DEF ReadStatus
  <2>7. ASSUME NEW r \in Detach, OpenFinal(r) \/ WriteFinal(r) \/ KillChild(r)
        PROVE  DetachedTypeOK'
    <3>4. "torn" \in Status
      BY DEF Status
    <3>1. Good([detached[r] EXCEPT !.child = "opened", !.status = "torn"])
      <4>1. Good([[detached[r] EXCEPT !.child = "opened"] EXCEPT !.status = "torn"])
        <5>. HIDE DEF Good
        <5>. QED
          BY <1>5, <1>6, <2>2, <3>4
      <4>. QED
        BY <4>1
    <3>2. Good([detached[r] EXCEPT !.child = "ended", !.status = detached[r].final])
      <4>1. Good([[detached[r] EXCEPT !.child = "ended"] EXCEPT !.status = detached[r].final])
        <5>. HIDE DEF Good
        <5>. QED
          BY <1>5, <1>6, <1>7, <2>2
      <4>. QED
        BY <4>1
    <3>3. Good([detached[r] EXCEPT !.child = "killed"])
      BY <2>2 DEF DetachedRun
    <3>. QED
      BY <2>1, <2>7, <3>1, <3>2, <3>3 DEF OpenFinal, WriteFinal, KillChild
  <2>8. ASSUME NEW r \in Detach, Report(r)
        PROVE  DetachedTypeOK'
    <3>1. PICK how \in {"complete", "failed"} : Becomes(r, Reported(r, how, TRUE))
      BY <2>8 DEF Report
    <3>2. Good(Reported(r, how, TRUE))
      <4>1. MaxEvents \in 0..MaxEvents /\ 0 \in 0..MaxEvents
        OBVIOUS
      <4>2. ASSUME NEW n \in 0..MaxEvents
            PROVE  Good([detached[r] EXCEPT !.child = "ended", !.final = how, !.result = TRUE,
                                        !.events = n])
        <5>1. Good([[detached[r] EXCEPT !.child = "ended"] EXCEPT !.final = how])
          <6>. HIDE DEF Good
          <6>. QED
            BY <1>5, <1>8, <2>2
        <5>2. Good([[[[detached[r] EXCEPT !.child = "ended"] EXCEPT !.final = how]
                      EXCEPT !.result = TRUE] EXCEPT !.events = n])
          <6>. HIDE DEF Good
          <6>. QED
            BY <1>8, <5>1
        <5>. QED
          BY <5>2
      <4>. QED
        BY <4>1, <4>2 DEF Reported
    <3>. QED
      BY <2>1, <2>8, <3>1, <3>2 DEF Report
  <2>9. ASSUME NEW r \in Detach, HandleResult(r)
        PROVE  DetachedTypeOK'
    <3>1. detached[r].events - 1 \in 0..MaxEvents
      BY <2>2, <2>9 DEF HandleResult, DetachedRun
    <3>2. Good([detached[r] EXCEPT !.events = @ - 1])
      BY <2>2, <3>1 DEF DetachedRun
    <3>3. ASSUME ForMe(r)
          PROVE  Good([detached[r] EXCEPT !.events = @ - 1, !.result = FALSE,
                                          !.told = @ \cup {pid}])
      <4>1. pid = detached[r].owner /\ pid \in 1..MaxPids
        BY <1>2, <1>4, <3>3 DEF ForMe, Mine
      <4>. DEFINE less == [detached[r] EXCEPT !.events = @ - 1]
                  gone == [less EXCEPT !.result = FALSE]
      <4>2. Good(gone)
        <5>. HIDE DEF Good, less
        <5>. QED
          BY <1>9, <3>2 DEF less
      <4>3. gone.owner = detached[r].owner
        BY <2>2 DEF DetachedRun
      <4>4. Good([gone EXCEPT !.told = @ \cup {gone.owner}])
        <5>. HIDE DEF Good, gone
        <5>. QED
          BY <1>9, <4>1, <4>2, <4>3
      <4>5. [detached[r] EXCEPT !.events = @ - 1, !.result = FALSE, !.told = @ \cup {pid}]
              = [gone EXCEPT !.told = @ \cup {gone.owner}]
        BY <2>2, <4>1, <4>3 DEF DetachedRun
      <4>. HIDE DEF Good, gone
      <4>. QED
        BY <4>4, <4>5
    <3>. QED
      BY <2>1, <2>9, <3>2, <3>3 DEF HandleResult
  <2>10. CASE Restart
    <3>1. \A r \in Detach : Good([detached[r] EXCEPT !.events = 0])
      BY <2>2 DEF DetachedRun
    <3>2. pid + 1 \in 1..MaxPids
      BY <1>2, <1>4, <2>10 DEF Restart
    <3>. QED
      BY <2>10, <3>1, <3>2 DEF Restart, DetachedTypeOK
  <2>11. CASE UNCHANGED detachedVars
    BY <1>4, <2>11 DEF detachedVars, DetachedTypeOK
  <2>. QED
    BY <2>3, <2>4, <2>5, <2>6, <2>7, <2>8, <2>9, <2>10, <2>11, <1>4
       DEF DetachedNext, CallerStep, ChildStep
<1>. QED
  BY <1>3, <1>4

-----------------------------------------------------------------------------
(* Specs                                                                    *)

(* The search, as a statement about its state s and the graph D it is of.   *)
Node == Id \cup {Missing}

Graph == [Id -> SUBSET Node]

Edges(D, n) == IF n \in Id THEN D[n] ELSE {}

OnPath(s) == {s.path[i] : i \in 1..Len(s.path)}

(* Nodes that the search is done with.                                      *)
Finished(s) == s.visited \ OnPath(s)

SearchType(s) ==
    /\ s \in [visited : SUBSET Node, path : Seq(Node), left : Seq(SUBSET Node), cyclic : BOOLEAN]
    /\ Len(s.left) = Len(s.path)
    /\ OnPath(s) \subseteq s.visited
    /\ \A i, k \in 1..Len(s.path) : s.path[i] = s.path[k] => i = k

(* As long as no cycle was seen: what is finished leads to finished nodes    *)
(* only, and a node of the path to finished ones, to what it still has to    *)
(* look at, or to the next node of the path.                                 *)
FinishedBehind(s, D) ==
    ~s.cyclic => \A n \in Finished(s) : Edges(D, n) \subseteq Finished(s)

PathBehind(s, D) ==
    ~s.cyclic => \A i \in 1..Len(s.path) : \A d \in Edges(D, s.path[i]) \ s.left[i] :
                    d \in Finished(s) \/ (i < Len(s.path) /\ d = s.path[i + 1])

(* Among finished nodes, however they are chosen, one leads to none of them. *)
FinishedHaveSinks(s, D) ==
    ~s.cyclic =>
        \A S \in SUBSET Finished(s) : S # {} => \E m \in S : Edges(D, m) \cap S = {}

Searching(s, D) ==
    SearchType(s) /\ FinishedBehind(s, D) /\ PathBehind(s, D) /\ FinishedHaveSinks(s, D)

(* Before anything is visited there is nothing to say.                       *)
LEMMA EmptySearch ==
    ASSUME NEW D
    PROVE  Searching(NoSearch, D)
<1>1. /\ NoSearch.path = << >> /\ NoSearch.left = << >> /\ NoSearch.visited = {}
      /\ OnPath(NoSearch) = {} /\ Finished(NoSearch) = {} /\ Len(<< >>) = 0
  BY DEF NoSearch, OnPath, Finished
<1>2. SearchType(NoSearch)
  <2>1. NoSearch \in [visited : SUBSET Node, path : Seq(Node), left : Seq(SUBSET Node),
                      cyclic : BOOLEAN]
    BY DEF NoSearch
  <2>. QED
    BY <1>1, <2>1 DEF SearchType
<1>. QED
  BY <1>1, <1>2 DEF Searching, FinishedBehind, PathBehind, FinishedHaveSinks

LEMMA VisitRootKeeps ==
    ASSUME NEW D \in Graph, NEW s, Searching(s, D), s.path = << >>,
           NEW t \in Id, t \notin s.visited,
           NEW s2, s2 = [s EXCEPT !.visited = @ \cup {t}, !.path = <<t>>, !.left = <<D[t]>>]
    PROVE  Searching(s2, D)
<1>1. /\ s \in [visited : SUBSET Node, path : Seq(Node), left : Seq(SUBSET Node),
                cyclic : BOOLEAN]
      /\ OnPath(s) = {} /\ Finished(s) = s.visited
  BY DEF Searching, SearchType, OnPath, Finished
<1>2. /\ s2.visited = s.visited \cup {t} /\ s2.path = <<t>>
      /\ s2.left = <<D[t]>> /\ s2.cyclic = s.cyclic
  BY <1>1
<1>3. /\ Len(s2.path) = 1 /\ Len(s2.left) = 1 /\ s2.path[1] = t /\ s2.left[1] = D[t]
      /\ 1..Len(s2.path) = {1}
  BY <1>2
<1>4. OnPath(s2) = {t} /\ Finished(s2) = Finished(s)
  BY <1>1, <1>2, <1>3 DEF OnPath, Finished
<1>5. SearchType(s2)
  <2>1. t \in Node /\ D[t] \in SUBSET Node
    BY DEF Node, Graph
  <2>2. s.visited \cup {t} \in SUBSET Node /\ <<t>> \in Seq(Node) /\ <<D[t]>> \in Seq(SUBSET Node)
    BY <1>1, <2>1
  <2>3. s2 \in [visited : SUBSET Node, path : Seq(Node), left : Seq(SUBSET Node),
                cyclic : BOOLEAN]
    BY <1>1, <2>2
  <2>. QED
    BY <1>2, <1>3, <1>4, <2>3 DEF SearchType
<1>6. PathBehind(s2, D)
  <2>1. Edges(D, s2.path[1]) \ s2.left[1] = {}
    BY <1>3 DEF Edges
  <2>. QED
    BY <1>3, <2>1 DEF PathBehind
<1>7. FinishedBehind(s2, D) /\ FinishedHaveSinks(s2, D)
  BY <1>2, <1>4 DEF Searching, FinishedBehind, FinishedHaveSinks
<1>. QED
  BY <1>5, <1>6, <1>7 DEF Searching

PassedBy(s, d) == [s.left EXCEPT ![Len(s.left)] = s.left[Len(s.left)] \ {d}]

LEMMA FrontProperties ==
    ASSUME NEW S, NEW seq \in Seq(S), seq # << >>
    PROVE  /\ Front(seq) \in Seq(S) /\ Len(Front(seq)) = Len(seq) - 1
           /\ \A i \in 1..(Len(seq) - 1) : Front(seq)[i] = seq[i]
<1>1. Len(seq) \in Nat /\ Len(seq) > 0 /\ Len(seq) - 1 \in Int
  OBVIOUS
<1>2. \A i \in 1..(Len(seq) - 1) : seq[i] \in S
  BY <1>1
<1> DEFINE k == Len(seq) - 1
           f == SubSeq(seq, 1, k)
<1>3. /\ f \in Seq(S) /\ Len(f) = IF 1 <= k THEN k - 1 + 1 ELSE 0
      /\ \A i \in 1..(k - 1 + 1) : f[i] = seq[1 + i - 1]
  <2>. HIDE DEF k
  <2>. QED
    BY <1>1, <1>2, SubSeqProperties DEF k
<1>4. Front(seq) = f
  BY DEF Front
<1>. HIDE DEF f
<1>. QED
  BY <1>1, <1>3, <1>4

(* The last task of the path has a dependency that was visited before: on   *)
(* the path, it closes a cycle; otherwise it is finished.                    *)
LEMMA PassKeeps ==
    ASSUME NEW D \in Graph, NEW s, Searching(s, D), s.path # << >>,
           NEW d \in s.visited, NEW cyclic \in BOOLEAN,
           ~cyclic => ~s.cyclic /\ d \notin OnPath(s),
           NEW s2, s2 = [s EXCEPT !.left = PassedBy(s, d), !.cyclic = cyclic]
    PROVE  Searching(s2, D)
<1> DEFINE n == Len(s.path)
<1>1. s \in [visited : SUBSET Node, path : Seq(Node), left : Seq(SUBSET Node), cyclic : BOOLEAN]
  BY DEF Searching, SearchType
<1>2. n \in Nat /\ n > 0 /\ Len(s.left) = n /\ n \in 1..n
  BY <1>1 DEF Searching, SearchType
<1>3. /\ s2.visited = s.visited /\ s2.path = s.path /\ s2.cyclic = cyclic
      /\ s2.left = [s.left EXCEPT ![n] = s.left[n] \ {d}]
  BY <1>1, <1>2 DEF PassedBy
<1>4. OnPath(s2) = OnPath(s) /\ Finished(s2) = Finished(s)
  BY <1>3 DEF OnPath, Finished
<1>5. /\ s2.left \in Seq(SUBSET Node) /\ Len(s2.left) = n
      /\ s2.left[n] = s.left[n] \ {d} /\ \A i \in 1..n : i # n => s2.left[i] = s.left[i]
  <2>1. s.left[n] \ {d} \in SUBSET Node /\ s.left \in Seq(SUBSET Node)
    BY <1>1, <1>2
  <2>. QED
    BY <1>2, <1>3, <2>1
<1>6. SearchType(s2)
  <2>1. s2 \in [visited : SUBSET Node, path : Seq(Node), left : Seq(SUBSET Node),
                cyclic : BOOLEAN]
    <3>1. s2 = [s EXCEPT !.left = s2.left, !.cyclic = cyclic]
      BY <1>1, <1>3
    <3>. QED
      BY <1>1, <1>5, <3>1
  <2>. QED
    BY <1>2, <1>3, <1>4, <1>5, <2>1 DEF Searching, SearchType
<1>7. PathBehind(s2, D)
  <2>. SUFFICES ASSUME ~cyclic, NEW i \in 1..n, NEW x \in Edges(D, s.path[i]) \ s2.left[i]
                PROVE  x \in Finished(s) \/ (i < n /\ x = s.path[i + 1])
    BY <1>3, <1>4 DEF PathBehind
  <2>1. CASE x \notin s.left[i]
    BY <2>1 DEF Searching, PathBehind
  <2>2. CASE x \in s.left[i]
    <3>1. x = d
      BY <1>5, <2>2
    <3>. QED
      BY <3>1 DEF Finished
  <2>. QED
    BY <2>1, <2>2
<1>8. FinishedBehind(s2, D) /\ FinishedHaveSinks(s2, D)
  BY <1>3, <1>4 DEF Searching, FinishedBehind, FinishedHaveSinks
<1>. QED
  BY <1>6, <1>7, <1>8 DEF Searching

(* It has one that was not: that becomes the last of the path.              *)
LEMMA PushKeeps ==
    ASSUME NEW D \in Graph, NEW s, Searching(s, D), s.path # << >>,
           NEW d \in Node, d \notin s.visited,
           NEW s2, s2 = [s EXCEPT !.visited = @ \cup {d}, !.path = Append(@, d),
                            !.left = Append(PassedBy(s, d), Edges(D, d))]
    PROVE  Searching(s2, D)
<1> DEFINE n == Len(s.path)
           left == [s.left EXCEPT ![n] = s.left[n] \ {d}]
<1>1. s \in [visited : SUBSET Node, path : Seq(Node), left : Seq(SUBSET Node), cyclic : BOOLEAN]
  BY DEF Searching, SearchType
<1>2. n \in Nat /\ n > 0 /\ Len(s.left) = n /\ n \in 1..n
  BY <1>1 DEF Searching, SearchType
<1>3. /\ s2.visited = s.visited \cup {d} /\ s2.path = Append(s.path, d) /\ s2.cyclic = s.cyclic
      /\ s2.left = Append(left, Edges(D, d))
  BY <1>1, <1>2 DEF PassedBy
<1>4. /\ left \in Seq(SUBSET Node) /\ Len(left) = n
      /\ left[n] = s.left[n] \ {d} /\ \A i \in 1..n : i # n => left[i] = s.left[i]
  <2>1. s.left[n] \ {d} \in SUBSET Node /\ s.left \in Seq(SUBSET Node)
    BY <1>1, <1>2
  <2>. QED
    BY <1>2, <2>1
<1>. HIDE DEF left
<1>5. Edges(D, d) \in SUBSET Node
  BY DEF Edges, Graph
<1>6. /\ Len(s2.path) = n + 1 /\ s2.path \in Seq(Node)
      /\ s2.path[n + 1] = d /\ \A i \in 1..n : s2.path[i] = s.path[i]
  BY <1>1, <1>2, <1>3
<1>7. /\ Len(s2.left) = n + 1 /\ s2.left \in Seq(SUBSET Node)
      /\ s2.left[n + 1] = Edges(D, d) /\ \A i \in 1..n : s2.left[i] = left[i]
  <2>1. /\ Append(left, Edges(D, d)) \in Seq(SUBSET Node)
        /\ Len(Append(left, Edges(D, d))) = Len(left) + 1
        /\ \A i \in 1..Len(left) : Append(left, Edges(D, d))[i] = left[i]
        /\ Append(left, Edges(D, d))[Len(left) + 1] = Edges(D, d)
    BY <1>4, <1>5, AppendProperties
  <2>. QED
    BY <1>2, <1>3, <1>4, <2>1
<1>8. OnPath(s2) = OnPath(s) \cup {d}
  <2>1. 1..(n + 1) = 1..n \cup {n + 1}
    BY <1>2
  <2>. QED
    BY <1>6, <2>1 DEF OnPath
<1>9. OnPath(s) \subseteq s.visited /\ Finished(s2) = Finished(s)
  BY <1>3, <1>8 DEF Finished, Searching, SearchType
<1>10. SearchType(s2)
  <2>1. s2 \in [visited : SUBSET Node, path : Seq(Node), left : Seq(SUBSET Node),
                cyclic : BOOLEAN]
    <3>1. s2 = [s EXCEPT !.visited = s2.visited, !.path = s2.path, !.left = s2.left]
      BY <1>1, <1>3
    <3>2. s2.visited \in SUBSET Node
      BY <1>1, <1>3
    <3>. QED
      BY <1>1, <1>6, <1>7, <3>1, <3>2
  <2>2. ASSUME NEW i \in 1..(n + 1), NEW k \in 1..(n + 1), s2.path[i] = s2.path[k]
        PROVE  i = k
    <3>1. \A j \in 1..n : s.path[j] # d
      BY <1>9 DEF OnPath
    <3>2. (i = n + 1 \/ i \in 1..n) /\ (k = n + 1 \/ k \in 1..n)
      BY <1>2
    <3>. QED
      BY <1>6, <2>2, <3>1, <3>2 DEF Searching, SearchType
  <2>. QED
    BY <1>3, <1>6, <1>7, <1>8, <1>9, <2>1, <2>2 DEF SearchType
<1>11. PathBehind(s2, D)
  <2>. SUFFICES ASSUME ~s.cyclic, NEW i \in 1..(n + 1),
                       NEW x \in Edges(D, s2.path[i]) \ s2.left[i]
                PROVE  x \in Finished(s) \/ (i < n + 1 /\ x = s2.path[i + 1])
    BY <1>3, <1>6, <1>9 DEF PathBehind
  <2>1. CASE i = n + 1
    BY <1>6, <1>7, <2>1
  <2>2. CASE i = n
    <3>1. x \in Edges(D, s.path[n]) /\ (x \notin s.left[n] \/ x = d)
      BY <1>2, <1>4, <1>6, <1>7, <2>2
    <3>2. x \notin s.left[n] => x \in Finished(s)
      BY <1>2, <3>1 DEF Searching, PathBehind
    <3>. QED
      BY <1>2, <1>6, <2>2, <3>1, <3>2
  <2>3. CASE i \in 1..n /\ i # n
    <3>1. x \in Edges(D, s.path[i]) \ s.left[i]
      BY <1>4, <1>6, <1>7, <2>3
    <3>2. x \in Finished(s) \/ x = s.path[i + 1]
      BY <2>3, <3>1 DEF Searching, PathBehind
    <3>3. i + 1 \in 1..n
      BY <1>2, <2>3
    <3>. QED
      BY <1>2, <1>6, <2>3, <3>2, <3>3
  <2>. QED
    BY <1>2, <2>1, <2>2, <2>3
<1>12. FinishedBehind(s2, D) /\ FinishedHaveSinks(s2, D)
  BY <1>3, <1>9 DEF Searching, FinishedBehind, FinishedHaveSinks
<1>. QED
  BY <1>10, <1>11, <1>12 DEF Searching

(* Nothing is left to look at: the last task of the path is finished, and   *)
(* leads to finished ones only.                                              *)
LEMMA LeaveKeeps ==
    ASSUME NEW D \in Graph, NEW s, Searching(s, D), s.path # << >>, Last(s.left) = {},
           NEW s2, s2 = [s EXCEPT !.path = Front(@), !.left = Front(@)]
    PROVE  Searching(s2, D)
<1> DEFINE n == Len(s.path)
           m == s.path[n]
<1>1. s \in [visited : SUBSET Node, path : Seq(Node), left : Seq(SUBSET Node), cyclic : BOOLEAN]
  BY DEF Searching, SearchType
<1>2. n \in Nat /\ n > 0 /\ Len(s.left) = n /\ n \in 1..n /\ n - 1 \in Nat /\ s.left[n] = {}
  BY <1>1 DEF Searching, SearchType, Last
<1>3. /\ s2.visited = s.visited /\ s2.path = Front(s.path) /\ s2.cyclic = s.cyclic
      /\ s2.left = Front(s.left)
  BY <1>1
<1>4. /\ Len(s2.path) = n - 1 /\ s2.path \in Seq(Node)
      /\ \A i \in 1..(n - 1) : s2.path[i] = s.path[i]
  BY <1>1, <1>2, <1>3, FrontProperties
<1>5. /\ Len(s2.left) = n - 1 /\ s2.left \in Seq(SUBSET Node)
      /\ \A i \in 1..(n - 1) : s2.left[i] = s.left[i]
  BY <1>1, <1>2, <1>3, FrontProperties
<1>6. OnPath(s) = OnPath(s2) \cup {m} /\ m \notin OnPath(s2)
  <2>1. 1..n = 1..(n - 1) \cup {n} /\ n \notin 1..(n - 1)
    BY <1>2
  <2>2. \A i \in 1..(n - 1) : s.path[i] # m
    BY <1>2, <2>1 DEF Searching, SearchType
  <2>. QED
    BY <1>4, <2>1, <2>2, SMTT(40) DEF OnPath
<1>7. Finished(s2) = Finished(s) \cup {m} /\ m \notin Finished(s)
  BY <1>3, <1>6 DEF Finished, Searching, SearchType
<1>8. SearchType(s2)
  <2>1. s2 \in [visited : SUBSET Node, path : Seq(Node), left : Seq(SUBSET Node),
                cyclic : BOOLEAN]
    <3>1. s2 = [s EXCEPT !.path = s2.path, !.left = s2.left]
      BY <1>1, <1>3
    <3>. QED
      BY <1>1, <1>4, <1>5, <3>1
  <2>2. OnPath(s2) \subseteq s2.visited
    BY <1>3, <1>6 DEF Searching, SearchType
  <2>3. \A i, k \in 1..(n - 1) : s2.path[i] = s2.path[k] => i = k
    BY <1>2, <1>4 DEF Searching, SearchType
  <2>. QED
    BY <1>4, <1>5, <2>1, <2>2, <2>3 DEF SearchType
<1>9. ~s.cyclic => Edges(D, m) \subseteq Finished(s)
  BY <1>2 DEF Searching, PathBehind
<1>10. FinishedBehind(s2, D)
  BY <1>3, <1>7, <1>9 DEF Searching, FinishedBehind
<1>11. PathBehind(s2, D)
  <2>. SUFFICES ASSUME ~s.cyclic, NEW i \in 1..(n - 1), NEW x \in Edges(D, s2.path[i]) \ s2.left[i]
                PROVE  x \in Finished(s2) \/ (i < n - 1 /\ x = s2.path[i + 1])
    BY <1>3, <1>4 DEF PathBehind
  <2>1. i \in 1..n /\ x \in Edges(D, s.path[i]) \ s.left[i]
    BY <1>2, <1>4, <1>5
  <2>2. x \in Finished(s) \/ x = s.path[i + 1]
    BY <2>1 DEF Searching, PathBehind
  <2>3. CASE i = n - 1
    BY <1>2, <1>7, <2>2, <2>3
  <2>4. CASE i < n - 1
    <3>1. i + 1 \in 1..(n - 1)
      BY <1>2, <2>4
    <3>. QED
      BY <1>4, <1>7, <2>2, <2>4, <3>1
  <2>. QED
    BY <1>2, <2>3, <2>4
<1>12. FinishedHaveSinks(s2, D)
  <2>. SUFFICES ASSUME ~s.cyclic, NEW S \in SUBSET (Finished(s) \cup {m}), S # {}
                PROVE  \E k \in S : Edges(D, k) \cap S = {}
    BY <1>3, <1>7 DEF FinishedHaveSinks
  <2>1. CASE S \subseteq {m}
    BY <1>7, <1>9, <2>1
  <2>2. CASE ~(S \subseteq {m})
    <3>1. S \ {m} \in SUBSET Finished(s) /\ S \ {m} # {}
      BY <2>2
    <3>2. PICK k \in S \ {m} : Edges(D, k) \cap (S \ {m}) = {}
      BY <3>1 DEF Searching, FinishedHaveSinks
    <3>3. Edges(D, k) \subseteq Finished(s)
      BY <3>1, <3>2 DEF Searching, FinishedBehind
    <3>. QED
      BY <1>7, <3>2, <3>3
  <2>. QED
    BY <2>1, <2>2
<1>. QED
  BY <1>8, <1>10, <1>11, <1>12 DEF Searching

(* The steps of the module are these.                                       *)
LEMMA SearchGoesOn ==
    ASSUME text \in TextRecord, Searching(search, DependsOn),
           \/ LeaveTask
           \/ \E t \in Id : VisitRoot(t)
           \/ \E d \in Node : VisitDependency(d)
    PROVE  Searching(search', DependsOn)
<1>1. DependsOn \in Graph
  BY SpecsAssumption DEF DependsOn, TextRecord, Node, Graph
<1>2. search \in [visited : SUBSET Node, path : Seq(Node), left : Seq(SUBSET Node), cyclic : BOOLEAN]
  BY DEF Searching, SearchType
<1>3. ASSUME NEW t \in Id, VisitRoot(t)
      PROVE  Searching(search', DependsOn)
  BY <1>1, <1>3, VisitRootKeeps DEF VisitRoot
<1>4. ASSUME NEW d \in Node, VisitDependency(d)
      PROVE  Searching(search', DependsOn)
  <2>. USE <1>4 DEF VisitDependency
  <2>1. search.path # << >> /\ Len(search.left) = Len(search.path)
    BY DEF Searching, SearchType
  <2>2. ToSet(search.path) = OnPath(search)
    BY <1>2, SMTT(40) DEF ToSet, OnPath
  <2>3. Passed(d) = [search EXCEPT !.left = PassedBy(search, d)]
    BY <1>2 DEF Passed, PassedBy
  <2>4. CASE d \in ToSet(search.path)
    <3>1. d \in search.visited
      BY <2>2, <2>4 DEF Searching, SearchType
    <3>2. search' = [search EXCEPT !.left = PassedBy(search, d), !.cyclic = TRUE]
      BY <1>2, <2>3, <2>4
    <3>. QED
      BY <1>1, <2>1, <3>1, <3>2, PassKeeps
  <2>5. CASE d \notin ToSet(search.path) /\ d \in search.visited
    <3>1. search' = [search EXCEPT !.left = PassedBy(search, d), !.cyclic = search.cyclic]
      BY <1>2, <2>3, <2>5
    <3>2. search.cyclic \in BOOLEAN
      BY <1>2
    <3>. QED
      BY <1>1, <2>1, <2>2, <2>5, <3>1, <3>2, PassKeeps
  <2>6. CASE d \notin ToSet(search.path) /\ d \notin search.visited
    <3>1. search' = [search EXCEPT !.visited = @ \cup {d}, !.path = Append(@, d),
                        !.left = Append(PassedBy(search, d), Edges(DependsOn, d))]
      BY <1>2, <2>3, <2>6 DEF Pushed, PassedBy, Edges
    <3>. QED
      BY <1>1, <2>1, <2>6, <3>1, PushKeeps
  <2>. QED
    BY <2>4, <2>5, <2>6
<1>5. CASE LeaveTask
  BY <1>1, <1>5, LeaveKeeps DEF LeaveTask
<1>. QED
  BY <1>3, <1>4, <1>5

(* The graph that was searched is the one that is worked on.                *)
AcceptedWasSearched ==
    stage = "running" => /\ Id \subseteq Finished(search) /\ ~search.cyclic
                         /\ \A t \in Id : DependsOn[t] \subseteq Id

(* What is kept of the text that was written.                               *)
MeaningIsKept ==
    ~meant.bold => /\ ~text.bold
                   /\ \A t \in Id : text.deps[t] \cap Id = meant.deps[t] \cap Id

SpecsInv ==
    /\ SpecsTypeOK /\ Searching(search, DependsOn) /\ AcceptedWasSearched /\ MeaningIsKept
    /\ stage \in {"idle", "saved"} => search = NoSearch
    /\ stage # "running" => done = {}
    /\ WrittenOrderIsKept

(* The type of the search is the type invariant's part about it.            *)
LEMMA SearchIsTyped ==
    ASSUME NEW s, SearchType(s)
    PROVE  /\ s.visited \subseteq Id \cup {Missing}
           /\ Len(s.path) = Len(s.left) /\ IsInjective(s.path)
BY DEF SearchType, Node, IsInjective

LEMMA SpecsInductive ==
    /\ SpecsInit => SpecsInv
    /\ SpecsInv /\ [SpecsNext]_specsVars => SpecsInv'
<1>. USE SpecsAssumption
<1>1. SpecsInit => SpecsInv
  <2>. SUFFICES ASSUME SpecsInit
                PROVE  SpecsInv
    OBVIOUS
  <2>1. Searching(search, DependsOn)
    BY EmptySearch DEF SpecsInit
  <2>2. NoText \in TextRecord
    BY DEF NoText, TextRecord
  <2>3. SpecsTypeOK
    BY <2>1, <2>2, SearchIsTyped DEF SpecsInit, SpecsTypeOK, Searching
  <2>. QED
    BY <2>1, <2>3 DEF SpecsInit, SpecsInv, AcceptedWasSearched, MeaningIsKept, WrittenOrderIsKept
<1>2. ASSUME SpecsInv, [SpecsNext]_specsVars
      PROVE  SpecsInv'
  <2>0. text \in TextRecord /\ meant \in TextRecord /\ retries \in 0..MaxRetries /\ done \subseteq Id
    BY <1>2 DEF SpecsInv, SpecsTypeOK
  <2>2. CASE LeaveTask \/ (\E t \in Id : VisitRoot(t)) \/ \E d \in Node : VisitDependency(d)
    <3>1. Searching(search', DependsOn)
      BY <1>2, <2>0, <2>2, SearchGoesOn DEF SpecsInv
    <3>2. stage \in {"structure", "coordinate"} /\ UNCHANGED <<stage, text, meant, retries, done>>
      BY <2>2 DEF LeaveTask, VisitRoot, VisitDependency, Validating
    <3>3. SpecsTypeOK'
      BY <2>0, <3>1, <3>2, SearchIsTyped DEF SpecsTypeOK, Searching
    <3>4. DependsOn' = DependsOn
      BY <3>2 DEF DependsOn
    <3>. QED
      BY <1>2, <3>1, <3>2, <3>3, <3>4
         DEF SpecsInv, AcceptedWasSearched, MeaningIsKept, WrittenOrderIsKept
  <2>3. ASSUME search' = NoSearch, stage' \in {"structure", "saved", "coordinate"}, done = {},
               done' = {}, retries' \in 0..MaxRetries, text' \in TextRecord, meant' \in TextRecord,
               MeaningIsKept'
        PROVE  SpecsInv'
    <3>1. Searching(search', DependsOn')
      BY <2>3, EmptySearch
    <3>2. SpecsTypeOK'
      BY <2>3, <3>1, SearchIsTyped DEF SpecsTypeOK, Searching
    <3>. QED
      BY <2>3, <3>1, <3>2 DEF SpecsInv, AcceptedWasSearched, WrittenOrderIsKept
  <2>4. CASE Write \/ WriteAgain
    <3>1. search' = NoSearch /\ stage' = "structure" /\ done = {} /\ done' = {}
      BY <1>2, <2>4 DEF Write, WriteAgain, SpecsInv
    <3>2. retries' \in 0..MaxRetries
      BY <2>0, <2>4 DEF Write, WriteAgain
    <3>3. text' \in TextRecord /\ meant' = text'
      BY <2>4 DEF Write, WriteAgain
    <3>. QED
      BY <2>3, <3>1, <3>2, <3>3 DEF MeaningIsKept
  <2>5. CASE Save
    <3>1. search' = NoSearch /\ stage' = "saved" /\ done = {} /\ done' = {} /\ meant' = meant
      BY <1>2, <2>5 DEF Save, SpecsInv
    <3>2. DependsOn \in [Id -> SUBSET (Id \cup {Missing, Malformed})]
      BY <2>0 DEF DependsOn, TextRecord
    <3>3. text' = [deps |-> DependsOn, bold |-> FALSE, sub |-> text.sub]
      BY <2>0, <2>5 DEF Save, Serialized, TextRecord
    <3>4. text' \in TextRecord
      BY <2>0, <3>2, <3>3 DEF TextRecord
    <3>5. MeaningIsKept'
      <4>1. ASSUME ~text.bold, NEW t \in Id
            PROVE  DependsOn[t] \cap Id = text.deps[t] \cap Id
        BY <4>1 DEF DependsOn
      <4>. QED
        BY <1>2, <3>1, <3>3, <4>1 DEF SpecsInv, MeaningIsKept
    <3>. QED
      BY <2>0, <2>3, <2>5, <3>1, <3>4, <3>5 DEF Save
  <2>6. CASE Coordinate
    <3>1. search' = NoSearch /\ stage' = "coordinate" /\ done = {} /\ done' = {} /\ retries' = retries
      BY <1>2, <2>6 DEF Coordinate, SpecsInv
    <3>2. text' \in TextRecord /\ meant' \in TextRecord /\ MeaningIsKept'
      BY <1>2, <2>0, <2>6 DEF Coordinate, SpecsInv, MeaningIsKept
    <3>. QED
      BY <2>0, <2>3, <3>1, <3>2
  <2>7. CASE Refuse \/ Accept \/ UNCHANGED specsVars
    <3>1. /\ search' = search /\ text' = text /\ meant' = meant /\ retries' = retries
          /\ done' = done /\ DependsOn' = DependsOn
      BY <2>7 DEF Refuse, Accept, specsVars, DependsOn
    <3>2. stage' = stage \/ (stage = "coordinate" /\ stage' \in {"refused", "running"})
      BY <2>7 DEF Refuse, Accept, specsVars
    <3>3. SpecsTypeOK'
      BY <1>2, <3>1, <3>2 DEF SpecsInv, SpecsTypeOK
    <3>4. AcceptedWasSearched'
      <4>1. CASE Accept
        <5>1. Id \subseteq Finished(search)
          BY <1>2, <4>1 DEF Accept, Searched, Finished, OnPath, SpecsInv, Searching, SearchType
        <5>. QED
          BY <3>1, <4>1, <5>1 DEF Accept, Valid, AcceptedWasSearched
      <4>2. CASE ~Accept
        BY <1>2, <2>7, <3>1, <4>2 DEF Refuse, specsVars, SpecsInv, AcceptedWasSearched
      <4>. QED
        BY <4>1, <4>2
    <3>. QED
      BY <1>2, <3>1, <3>2, <3>3, <3>4 DEF SpecsInv, MeaningIsKept, WrittenOrderIsKept
  <2>8. ASSUME NEW t \in Id, DoTask(t)
        PROVE  SpecsInv'
    <3>1. /\ search' = search /\ text' = text /\ meant' = meant /\ retries' = retries
          /\ stage' = stage /\ stage = "running" /\ done' = done \cup {t} /\ DependsOn' = DependsOn
      BY <2>8 DEF DoTask, DependsOn
    <3>2. WrittenOrderIsKept'
      <4>1. ~meant.bold => meant.deps[t] \cap Id \subseteq DependsOn[t]
        BY <1>2 DEF SpecsInv, MeaningIsKept, DependsOn
      <4>. QED
        BY <1>2, <2>8, <3>1, <4>1 DEF DoTask, Ready, SpecsInv, WrittenOrderIsKept
    <3>3. SpecsTypeOK'
      BY <1>2, <3>1 DEF SpecsInv, SpecsTypeOK
    <3>. QED
      BY <1>2, <3>1, <3>2, <3>3 DEF SpecsInv, AcceptedWasSearched, MeaningIsKept
  <2>. QED
    BY <1>2, <2>2, <2>4, <2>5, <2>6, <2>7, <2>8 DEF SpecsNext, Node
<1>. QED
  BY <1>1, <1>2

(* What is accepted can be finished: take what is left of the tasks.        *)
LEMMA AcceptedWorks ==
    SpecsInv => AcceptedIsWorkedOff
<1>. SUFFICES ASSUME SpecsInv
              PROVE  AcceptedIsWorkedOff
  OBVIOUS
<1>1. ASSUME stage = "running", done # Id, text.sub = {}
      PROVE  Ready # {}
  <2>1. Id \ done \in SUBSET Finished(search) /\ Id \ done # {}
    BY <1>1 DEF SpecsInv, SpecsTypeOK, AcceptedWasSearched
  <2>2. PICK m \in Id \ done : Edges(DependsOn, m) \cap (Id \ done) = {}
    BY <1>1, <2>1 DEF SpecsInv, Searching, FinishedHaveSinks, AcceptedWasSearched
  <2>3. m \in Ready
    BY <1>1, <2>2 DEF Ready, Edges, SpecsInv, AcceptedWasSearched
  <2>. QED
    BY <2>3
<1>. QED
  BY <1>1 DEF AcceptedIsWorkedOff, AcceptedCanFinish, SpecsInv

-----------------------------------------------------------------------------
(* Reservations                                                             *)

(* It can still be handed over for a logical name.                          *)
Current(r) == \E l \in Logical : r.id = preAssignments[l]

(* It is nobody's, and will be nobody's again.                              *)
Lost(r) == ~Current(r) /\ r.agent \in ended \cup Logical

Both(r, s, f) == Holds(r, f) /\ Holds(s, f)

(* Of two that cover a file, one exclusively, one is lost if they are not   *)
(* the same worker's; and whosever they are, only one can be handed over.   *)
Apart ==
    /\ \A r, s \in reserved, f \in File :
          r.agent # s.agent /\ r.exclusive /\ Both(r, s, f) => Lost(r) \/ Lost(s)
    /\ \A r, s \in reserved, f \in File :
          r # s /\ Current(r) /\ Current(s) => ~Both(r, s, f)

(* Ids are given in turn; what is assigned to a name is its own, exclusively,*)
(* until it is handed over.                                                 *)
IdsInTurn ==
    /\ \A r \in reserved : r.id <= made
    /\ \A a \in Agent : \A r \in edit[a].known : r.id <= made
    /\ \A l \in Logical : preAssignments[l] <= made
    /\ \A r \in reserved : \A l \in Logical : r.id = preAssignments[l] => r.agent \in Agent \cup {l}
    /\ \A r \in reserved : r.agent \in Logical => r.exclusive

EditType == [file : File \cup {<< >>}, known : SUBSET Reservation]

FilesInv ==
    /\ FilesTypeOK /\ edit \in [Agent -> EditType]
    /\ IdsInTurn /\ Apart /\ EditsAreChecked

(* What patterns and paths are written of.                                  *)
Name == STRING \cup {"**", "*", "*.ts"}

LEMMA SeqMonotone ==
    ASSUME NEW S, NEW T, S \subseteq T, NEW s \in Seq(S)
    PROVE  s \in Seq(T)
OBVIOUS

LEMMA FilesAreNamed ==
    /\ File \subseteq Seq(Name)
    /\ \A p \in Pattern : p.base \in Seq(Name) /\ p.kind \in {"path", "tree", "level", "glob"}
BY SeqMonotone, ReservationsAssumption DEF Name

LEMMA PrefixIs ==
    ASSUME NEW s \in Seq(Name), NEW t \in Seq(Name)
    PROVE  IsPrefix(s, t) <=> Len(s) <= Len(t) /\ \A i \in 1..Len(s) : s[i] = t[i]
<1>1. SubSeq(s, 1, Len(s)) = s
  BY SubSeqFull
<1>2. ASSUME Len(s) <= Len(t)
      PROVE  s = SubSeq(t, 1, Len(s)) <=> \A i \in 1..Len(s) : s[i] = t[i]
  <2> DEFINE n == Len(s)
             u == SubSeq(t, 1, n)
  <2>1. n \in Nat /\ n \in Int /\ \A i \in 1..n : t[i] \in Name
    BY <1>2
  <2>2. /\ u \in Seq(Name) /\ Len(u) = IF 1 <= n THEN n - 1 + 1 ELSE 0
        /\ \A i \in 1..(n - 1 + 1) : u[i] = t[1 + i - 1]
    <3>. HIDE DEF n
    <3>. QED
      BY <2>1, SubSeqProperties
  <2>. HIDE DEF u
  <2>3. Len(u) = n /\ \A i \in 1..n : u[i] = t[i]
    BY <2>1, <2>2
  <2>4. (\A i \in 1..n : s[i] = t[i]) => s = u
    BY <2>2, <2>3, SeqEqual
  <2>. QED
    BY <2>3, <2>4 DEF u
<1>. QED
  BY <1>1, <1>2 DEF IsPrefix

LEMMA WrittenIs ==
    ASSUME NEW p \in Pattern
    PROVE  /\ p.base \in Seq(Name) /\ p.kind \in {"path", "tree", "level", "glob"}
           /\ Written(p) \in Seq(Name) /\ IsPrefix(p.base, Written(p))
           /\ p.kind = "path" => Written(p) = p.base
           /\ p.kind # "path" => Len(Written(p)) = Len(p.base) + 1
<1>1. p.base \in Seq(Name) /\ p.kind \in {"path", "tree", "level", "glob"}
  BY FilesAreNamed
<1> DEFINE tail == CASE p.kind = "path"  -> << >>
                     [] p.kind = "tree"  -> <<"**">>
                     [] p.kind = "level" -> <<"*">>
                     [] p.kind = "glob"  -> <<"*.ts">>
<1>2. tail \in Seq(Name) /\ (p.kind = "path" => tail = << >>)
      /\ (p.kind # "path" => Len(tail) = 1)
  <2>1. /\ << >> \in Seq(Name) /\ <<"**">> \in Seq(Name) /\ <<"*">> \in Seq(Name)
        /\ <<"*.ts">> \in Seq(Name)
    BY DEF Name
  <2>2. /\ Len(<<"**">>) = 1 /\ Len(<<"*">>) = 1 /\ Len(<<"*.ts">>) = 1
    OBVIOUS
  <2>3. /\ p.kind = "path" => tail = << >>
        /\ p.kind = "tree" => tail = <<"**">>
        /\ p.kind = "level" => tail = <<"*">>
        /\ p.kind = "glob" => tail = <<"*.ts">>
    BY <1>1
  <2>. HIDE DEF tail
  <2>. QED
    BY <1>1, <2>1, <2>2, <2>3
<1>3. Written(p) = p.base \o tail
  BY DEF Written
<1>. HIDE DEF tail
<1>4. /\ Written(p) \in Seq(Name) /\ Len(Written(p)) = Len(p.base) + Len(tail)
      /\ \A i \in 1..Len(p.base) : Written(p)[i] = p.base[i]
  BY <1>1, <1>2, <1>3, ConcatProperties
<1>5. IsPrefix(p.base, Written(p))
  BY <1>1, <1>2, <1>4, PrefixIs
<1>6. p.kind = "path" => Written(p) = p.base
  BY <1>1, <1>2, <1>3
<1>. QED
  BY <1>1, <1>2, <1>4, <1>5, <1>6

LEMMA PrefixTransitive ==
    ASSUME NEW s \in Seq(Name), NEW t \in Seq(Name), NEW u \in Seq(Name),
           IsPrefix(s, t), IsPrefix(t, u)
    PROVE  IsPrefix(s, u)
BY PrefixIs

(* What a pattern covers is what the matcher finds it to match.             *)
LEMMA MatchedIsCovered ==
    ASSUME NEW f \in File, NEW p \in Pattern
    PROVE  SimpleMatch(f, p) <=> Covers(p, f)
<1>1. f \in Seq(Name)
  BY FilesAreNamed
<1>2. IsPrefix(f, p.base) => p.base = f /\ p.kind = "path"
  BY FilesAreFiles
<1>3. p.kind = "glob" => f # Written(p)
  BY FilesAreFiles
<1>. QED
  BY <1>1, <1>2, <1>3, WrittenIs, PrefixIs DEF SimpleMatch, Covers

(* Patterns that cover a file overlap, whichever way they are written: the  *)
(* shorter base first.                                                      *)
LEMMA CoversNested ==
    ASSUME NEW f \in File, NEW p \in Pattern, NEW q \in Pattern,
           Covers(p, f), Covers(q, f), Len(p.base) <= Len(q.base)
    PROVE  p = q \/ SimpleMatch(Written(p), q) \/ SimpleMatch(Written(q), p)
<1>1. /\ f \in Seq(Name) /\ p.base \in Seq(Name) /\ q.base \in Seq(Name)
      /\ Written(p) \in Seq(Name) /\ Written(q) \in Seq(Name)
  BY FilesAreNamed, WrittenIs
<1>2. IsPrefix(p.base, f) /\ IsPrefix(q.base, f)
  BY DEF Covers
<1>3. IsPrefix(p.base, q.base)
  BY <1>1, <1>2, PrefixIs
<1>4. IsPrefix(p.base, Written(q))
  BY <1>1, <1>3, WrittenIs, PrefixTransitive
<1>5. CASE p.kind \in {"path", "tree"}
  BY <1>4, <1>5 DEF SimpleMatch
<1>6. CASE p.kind = "level" /\ Len(q.base) = Len(f)
  <2>1. q.base = f
    BY <1>1, <1>2, <1>6, PrefixIs, SeqEqual
  <2>2. q.kind = "path" /\ Written(q) = f
    BY <1>1, <2>1, PrefixIs, FilesAreFiles, WrittenIs
  <2>. QED
    BY <1>6, <2>2 DEF SimpleMatch, Covers
<1>7. CASE p.kind = "level" /\ Len(q.base) # Len(f)
  <2>1. q.base = p.base
    <3>1. Len(q.base) = Len(p.base)
      BY <1>1, <1>2, <1>7, PrefixIs DEF Covers
    <3>. QED
      BY <1>1, <1>3, <3>1, PrefixIs, SeqEqual
  <2>2. CASE q.kind \in {"path", "tree"}
    BY <2>1, <2>2, WrittenIs DEF SimpleMatch
  <2>3. CASE q.kind = "level"
    BY <1>7, <2>1, <2>3, ReservationsAssumption
  <2>. QED
    BY <2>2, <2>3 DEF Covers
<1>. QED
  BY <1>5, <1>6, <1>7 DEF Covers

(* Hence what is asked for a file that is reserved meets a conflict.        *)
LEMMA BothOverlap ==
    ASSUME NEW f \in File, NEW ps \in SUBSET Pattern, NEW qs \in SUBSET Pattern,
           \E p \in ps : Covers(p, f), \E q \in qs : Covers(q, f)
    PROVE  PatternsOverlap(ps, qs)
<1>1. PICK p \in ps : Covers(p, f)
  OBVIOUS
<1>2. PICK q \in qs : Covers(q, f)
  OBVIOUS
<1>3. Len(p.base) \in Nat /\ Len(q.base) \in Nat
  BY WrittenIs
<1>4. CASE Len(p.base) <= Len(q.base)
  BY <1>1, <1>2, <1>4, CoversNested DEF PatternsOverlap
<1>5. CASE Len(q.base) <= Len(p.base)
  BY <1>1, <1>2, <1>5, CoversNested DEF PatternsOverlap
<1>. QED
  BY <1>3, <1>4, <1>5

(* What one step leaves as it was: of reservations and names, of the ended. *)
LEMMA LostStaysLost ==
    ASSUME NEW r, r.id \in Nat, made \in Nat, r.id <= made, ended \subseteq ended',
           preAssignments \in [Logical -> Nat],
           \/ preAssignments' = preAssignments
           \/ \E l \in Logical : preAssignments' = [preAssignments EXCEPT ![l] = made + 1]
    PROVE  /\ Current(r)' => Current(r)
           /\ Lost(r) => Lost(r)'
           /\ Abandoned(r) => Abandoned(r)'
<1>1. \A l \in Logical : r.id = preAssignments'[l] => r.id = preAssignments[l]
  OBVIOUS
<1>2. Current(r)' => Current(r)
  BY <1>1 DEF Current
<1>. QED
  BY <1>1, <1>2 DEF Lost, Abandoned

LEMMA LostIsAbandoned ==
    ASSUME NEW r, Lost(r)
    PROVE  Abandoned(r)
BY DEF Lost, Abandoned, Current

(* A new reservation, exclusive if it is for a logical name.                *)
LEMMA ReserveKeeps ==
    ASSUME FilesInv, NEW owner \in Owner, NEW p \in Pattern, NEW exclusive \in BOOLEAN,
           ReserveFiles(owner, {p}, exclusive), owner \in Logical => exclusive,
           UNCHANGED <<edit, ended>>,
           IF owner \in Logical
           THEN preAssignments' = [preAssignments EXCEPT ![owner] = made + 1]
           ELSE preAssignments' = preAssignments
    PROVE  FilesInv'
<1>. USE ReservationsAssumption
<1> DEFINE n == [id |-> made + 1, agent |-> owner, patterns |-> {p}, exclusive |-> exclusive]
<1>1. /\ reserved \subseteq Reservation /\ made \in 0..MaxReserved /\ MaxReserved \in Nat
      /\ preAssignments \in [Logical -> 0..MaxReserved] /\ ended \subseteq Agent
      /\ edit \in [Agent -> EditType] /\ IdsInTurn /\ Apart /\ EditsAreChecked
  BY DEF FilesInv, FilesTypeOK
<1>2. made' = made + 1 /\ made' \in 0..MaxReserved /\ reserved' = reserved \cup {n}
      /\ made' \in 1..MaxReserved
  BY <1>1 DEF ReserveFiles
<1>3. n \in Reservation
  BY <1>1, <1>2 DEF Reservation
<1>4. /\ n.id = made + 1 /\ n.agent = owner /\ n.exclusive = exclusive /\ n.patterns = {p}
  OBVIOUS
<1>. HIDE DEF n
<1>5. /\ preAssignments' \in [Logical -> 0..MaxReserved] /\ ended' = ended /\ edit' = edit
      /\ \A l \in Logical : preAssignments'[l] = IF l = owner THEN made + 1 ELSE preAssignments[l]
  BY <1>1, <1>2
<1>6. \A r \in Reservation : r.id \in Nat /\ r.patterns \in SUBSET Pattern
  BY DEF Reservation
<1>7. FilesTypeOK' /\ edit' \in [Agent -> EditType]
  BY <1>1, <1>2, <1>3, <1>5 DEF FilesInv, FilesTypeOK
<1>8. IdsInTurn'
  <2>1. \A r \in reserved' : r.id <= made' /\ (r.agent \in Logical => r.exclusive)
    BY <1>1, <1>2, <1>4, <1>6 DEF IdsInTurn
  <2>2. \A a \in Agent : \A r \in edit[a].known : r.id <= made + 1
    <3>1. \A a \in Agent : \A r \in edit[a].known : r.id \in Nat
      BY <1>1, <1>6 DEF EditType
    <3>. QED
      BY <1>1, <3>1 DEF IdsInTurn
  <2>3. \A l \in Logical : preAssignments'[l] <= made'
    BY <1>1, <1>2, <1>5 DEF IdsInTurn
  <2>4. ASSUME NEW r \in reserved', NEW l \in Logical, r.id = preAssignments'[l]
        PROVE  r.agent \in Agent \cup {l}
    <3>1. CASE r = n
      <4>1. preAssignments[l] <= made /\ preAssignments[l] \in Nat
        BY <1>1 DEF IdsInTurn
      <4>2. l = owner
        BY <1>1, <1>4, <1>5, <2>4, <3>1, <4>1
      <4>. QED
        BY <1>4, <3>1, <4>2
    <3>2. CASE r \in reserved
      <4>1. r.id <= made /\ r.id \in Nat
        BY <1>1, <1>6, <3>2 DEF IdsInTurn
      <4>2. r.id = preAssignments[l]
        BY <1>1, <1>5, <2>4, <4>1
      <4>. QED
        BY <1>1, <3>2, <4>2 DEF IdsInTurn
    <3>. QED
      BY <1>2, <3>1, <3>2
  <2>. QED
    BY <1>2, <1>5, <2>1, <2>2, <2>3, <2>4 DEF IdsInTurn
<1>9. \A r : r.id \in Nat /\ r.id <= made =>
          (Current(r)' => Current(r)) /\ (Lost(r) => Lost(r)') /\ (Abandoned(r) => Abandoned(r)')
  <2>1. preAssignments \in [Logical -> Nat] /\ made \in Nat /\ ended \subseteq ended'
    BY <1>1, <1>5
  <2>2. \/ preAssignments' = preAssignments
        \/ \E l \in Logical : preAssignments' = [preAssignments EXCEPT ![l] = made + 1]
    OBVIOUS
  <2>. QED
    BY <2>1, <2>2, LostStaysLost
<1>10. ASSUME NEW r \in reserved, NEW f \in File, r.agent # owner, r.exclusive \/ exclusive,
              Both(r, n, f)
       PROVE  FALSE
  <2>1. PatternsOverlap(r.patterns, {p})
    <3>1. r.patterns \in SUBSET Pattern /\ {p} \in SUBSET Pattern
      BY <1>1, <1>6
    <3>2. (\E x \in r.patterns : Covers(x, f)) /\ (\E x \in {p} : Covers(x, f))
      BY <1>4, <1>10 DEF Both, Holds
    <3>. QED
      BY <3>1, <3>2, BothOverlap
  <2>. QED
    BY <1>10, <2>1 DEF ReserveFiles, Conflict
<1>11. Apart'
  <2>1. ASSUME NEW r \in reserved', NEW s \in reserved', NEW f \in File,
               r.agent # s.agent, r.exclusive, Both(r, s, f)
        PROVE  Lost(r)' \/ Lost(s)'
    <3>1. r \in reserved \/ r = n
      BY <1>2
    <3>2. s \in reserved \/ s = n
      BY <1>2
    <3>3. CASE r \in reserved /\ s \in reserved
      <4>1. Lost(r) \/ Lost(s)
        BY <1>1, <2>1, <3>3 DEF Apart
      <4>2. r.id \in Nat /\ r.id <= made /\ s.id \in Nat /\ s.id <= made
        BY <1>1, <1>6, <3>3 DEF IdsInTurn
      <4>. QED
        BY <1>9, <4>1, <4>2
    <3>4. CASE r = n /\ s \in reserved
      BY <1>4, <1>10, <2>1, <3>4 DEF Both
    <3>5. CASE r \in reserved /\ s = n
      BY <1>4, <1>10, <2>1, <3>5 DEF Both
    <3>. QED
      BY <2>1, <3>1, <3>2, <3>3, <3>4, <3>5
  <2>2. ASSUME NEW r \in reserved, NEW s, s = n, NEW f \in File,
               Current(r)', Current(s)', Both(r, s, f)
        PROVE  FALSE
    <3>1. PICK k \in Logical : s.id = preAssignments'[k]
      BY <2>2 DEF Current
    <3>2. k = owner
      <4>1. preAssignments[k] <= made /\ preAssignments[k] \in Nat
        BY <1>1 DEF IdsInTurn
      <4>. QED
        BY <1>1, <1>4, <1>5, <2>2, <3>1, <4>1
    <3>3. r.id \in Nat /\ r.id <= made
      BY <1>1, <1>6 DEF IdsInTurn
    <3>4. PICK l \in Logical : r.id = preAssignments'[l]
      BY <2>2 DEF Current
    <3>5. l # owner /\ r.id = preAssignments[l]
      BY <1>1, <1>5, <3>3, <3>4
    <3>6. r.agent \in Agent \cup {l}
      BY <1>1, <3>5 DEF IdsInTurn
    <3>7. r.agent # owner /\ exclusive
      BY <3>2, <3>5, <3>6
    <3>. QED
      BY <1>10, <2>2, <3>7
  <2>3. ASSUME NEW r \in reserved', NEW s \in reserved', NEW f \in File,
               r # s, Current(r)', Current(s)', Both(r, s, f)
        PROVE  FALSE
    <3>1. CASE r \in reserved /\ s \in reserved
      <4>1. r.id \in Nat /\ r.id <= made /\ s.id \in Nat /\ s.id <= made
        BY <1>1, <1>6, <3>1 DEF IdsInTurn
      <4>. QED
        BY <1>1, <1>9, <2>3, <3>1, <4>1 DEF Apart
    <3>2. CASE r = n /\ s \in reserved
      BY <2>2, <2>3, <3>2 DEF Both
    <3>3. CASE r \in reserved /\ s = n
      BY <2>2, <2>3, <3>3
    <3>. QED
      BY <1>2, <2>3, <3>1, <3>2, <3>3
  <2>. QED
    BY <2>1, <2>3 DEF Apart, Both, Holds
<1>12. EditsAreChecked'
  <2>. SUFFICES ASSUME NEW a \in Agent, NEW r \in Trespasses(a)'
                PROVE  \E s \in edit[a].known : /\ s.agent = r.agent \/ s.agent \in ended
                                                /\ ~s.exclusive /\ Holds(s, edit[a].file)
    BY <1>5 DEF EditsAreChecked, Holds
  <2>1. r \in edit[a].known /\ r.agent # a /\ r.exclusive /\ Holds(r, edit[a].file) /\ ~Abandoned(r)'
    BY <1>5 DEF Trespasses, Holds
  <2>2. r.id \in Nat /\ r.id <= made
    BY <1>1, <1>6, <2>1 DEF IdsInTurn, EditType
  <2>3. ~Abandoned(r)
    BY <1>9, <2>1, <2>2
  <2>. QED
    BY <1>1, <2>1, <2>3 DEF EditsAreChecked, Trespasses
<1>. QED
  BY <1>7, <1>8, <1>11, <1>12 DEF FilesInv

(* A step that makes no reservation and hands none over.                    *)
LEMMA DropKeeps ==
    ASSUME FilesInv, reserved' \subseteq reserved, made' = made,
           preAssignments' = preAssignments,
           ended \subseteq ended', ended' \subseteq Agent,
           edit' \in [Agent -> EditType],
           \A a \in Agent : \/ edit'[a] = edit[a]
                            \/ edit'[a] = NoEdit
                            \/ /\ a \notin ended /\ edit'[a].known = reserved
                               /\ edit'[a].file \in File /\ Allows(a, edit'[a].file)
    PROVE  FilesInv'
<1>. USE ReservationsAssumption
<1>1. /\ reserved \subseteq Reservation /\ made \in 0..MaxReserved /\ MaxReserved \in Nat
      /\ preAssignments \in [Logical -> 0..MaxReserved] /\ ended \subseteq Agent
      /\ edit \in [Agent -> EditType] /\ IdsInTurn /\ Apart /\ EditsAreChecked
  BY DEF FilesInv, FilesTypeOK
<1>2. \A r \in Reservation : r.id \in Nat /\ r.patterns \in SUBSET Pattern
  BY DEF Reservation
<1>3. FilesTypeOK'
  BY <1>1 DEF FilesTypeOK, EditType
<1>4. NoEdit.known = {}
  BY DEF NoEdit
<1>5. IdsInTurn'
  <2>1. ASSUME NEW a \in Agent, NEW r \in edit'[a].known
        PROVE  r.id <= made
    BY <1>1, <1>4, <2>1 DEF IdsInTurn
  <2>. QED
    BY <1>1, <2>1 DEF IdsInTurn
<1>6. \A r : r.id \in Nat /\ r.id <= made =>
          (Current(r)' => Current(r)) /\ (Lost(r) => Lost(r)') /\ (Abandoned(r) => Abandoned(r)')
  BY DEF Lost, Abandoned, Current
<1>7. Apart'
  <2>1. \A r \in reserved : r.id \in Nat /\ r.id <= made
    BY <1>1, <1>2 DEF IdsInTurn
  <2>. QED
    BY <1>1, <1>6, <2>1 DEF Apart, Both, Holds
<1>8. EditsAreChecked'
  <2>. SUFFICES ASSUME NEW a \in Agent, NEW r \in Trespasses(a)'
                PROVE  \E s \in edit'[a].known : /\ s.agent = r.agent \/ s.agent \in ended'
                                                 /\ ~s.exclusive /\ Holds(s, edit'[a].file)
    BY DEF EditsAreChecked, Holds
  <2>1. /\ r \in edit'[a].known /\ r.agent # a /\ r.exclusive /\ Holds(r, edit'[a].file)
        /\ ~Abandoned(r)'
    BY DEF Trespasses, Holds
  <2>2. r.id \in Nat /\ r.id <= made
    <3>1. r \in Reservation
      BY <2>1 DEF EditType
    <3>. QED
      BY <1>2, <1>5, <2>1, <3>1 DEF IdsInTurn
  <2>3. ~Abandoned(r) /\ ~Lost(r)
    BY <1>6, <2>1, <2>2, LostIsAbandoned
  <2>4. CASE edit'[a] = edit[a]
    BY <1>1, <2>1, <2>3, <2>4 DEF EditsAreChecked, Trespasses
  <2>5. CASE a \notin ended /\ edit'[a].known = reserved /\ edit'[a].file \in File
             /\ Allows(a, edit'[a].file)
    <3> DEFINE f == edit'[a].file
    <3>0. f \in File
      BY <2>5
    <3>1. \A s \in reserved : s \in Checked(f) <=> Holds(s, f)
      <4>1. \A s \in reserved : s.patterns \subseteq Pattern
        BY <1>1, <1>2
      <4>. QED
        BY <3>0, <4>1, MatchedIsCovered DEF Checked, MatchesPatterns, Holds
    <3>2. r \in reserved /\ Holds(r, f)
      BY <2>1, <2>5
    <3>3. PICK s \in reserved : Holds(s, f) /\ (s.agent = a \/ ~s.exclusive)
      <4>1. r \in Checked(f)
        BY <3>1, <3>2
      <4>2. PICK s \in Checked(f) : s.agent = a \/ ~s.exclusive
        BY <2>5, <4>1 DEF Allows
      <4>3. s \in reserved
        BY DEF Checked
      <4>. QED
        BY <3>1, <4>2, <4>3
    <3>4. s.agent = r.agent \/ Lost(s)
      BY <1>1, <2>1, <2>3, <3>0, <3>2, <3>3 DEF Apart, Both
    <3>5. s.agent # a
      <4>1. a \notin Logical
        OBVIOUS
      <4>. QED
        BY <2>1, <2>5, <3>4, <4>1 DEF Lost
    <3>6. s.agent = r.agent \/ s.agent \in ended
      BY <1>1, <3>3, <3>4, <3>5 DEF Lost, IdsInTurn
    <3>. QED
      BY <2>5, <3>3, <3>5, <3>6
  <2>. QED
    BY <1>4, <2>1, <2>4, <2>5
<1>. QED
  BY <1>3, <1>5, <1>7, <1>8 DEF FilesInv

(* What a name stands for goes to the worker that takes it.                 *)
LEMMA TransferKeeps ==
    ASSUME FilesInv, NEW l \in Logical, NEW a \in Agent, a \notin ended,
           TransferReservation(l, a)
    PROVE  FilesInv'
<1>. USE ReservationsAssumption
<1>1. /\ reserved \subseteq Reservation /\ made \in 0..MaxReserved /\ MaxReserved \in Nat
      /\ preAssignments \in [Logical -> 0..MaxReserved] /\ ended \subseteq Agent
      /\ edit \in [Agent -> EditType] /\ IdsInTurn /\ Apart /\ EditsAreChecked
  BY DEF FilesInv, FilesTypeOK
<1>2. PICK r \in reserved : /\ r.id = preAssignments[l] /\ r.agent \in ended \cup Logical
                            /\ reserved' = (reserved \ {r}) \cup {[r EXCEPT !.agent = a]}
  BY DEF TransferReservation
<1>3. PICK n \in Reservation : /\ n.id = r.id /\ n.agent = a /\ n.patterns = r.patterns
                               /\ n.exclusive = r.exclusive
                               /\ reserved' = (reserved \ {r}) \cup {n}
  <2>1. r \in Reservation
    BY <1>1
  <2>2. [r EXCEPT !.agent = a] \in Reservation
    BY <2>1 DEF Reservation, Owner
  <2>. QED
    BY <1>2, <2>1, <2>2 DEF Reservation
<1>4. UNCHANGED <<made, preAssignments, edit, ended>>
  BY DEF TransferReservation
<1>5. FilesTypeOK' /\ edit' \in [Agent -> EditType]
  BY <1>1, <1>3, <1>4 DEF FilesInv, FilesTypeOK
<1>6. IdsInTurn'
  <2>1. r.id <= made /\ a \notin Logical
    BY <1>1, <1>2 DEF IdsInTurn
  <2>. QED
    BY <1>1, <1>3, <1>4, <2>1 DEF IdsInTurn
<1>7. /\ \A s : (Current(s)' <=> Current(s)) /\ (Lost(s)' <=> Lost(s))
      /\ \A s, f : Holds(s, f)' <=> Holds(s, f)
      /\ Current(r) /\ \A f : Holds(n, f) <=> Holds(r, f)
  BY <1>2, <1>3, <1>4 DEF Current, Lost, Holds
<1>8. ASSUME NEW s \in reserved, s # r, NEW f \in File, n.exclusive \/ s.exclusive,
             s.agent # a, Both(n, s, f)
      PROVE  Lost(s)
  <2>1. Both(r, s, f) /\ Both(s, r, f) /\ (r.exclusive \/ s.exclusive)
    BY <1>3, <1>7, <1>8 DEF Both
  <2>2. ~Lost(r) /\ ~Current(s)
    BY <1>1, <1>7, <1>8, <2>1 DEF Apart, Lost
  <2>3. CASE s.agent = r.agent
    BY <1>2, <2>2, <2>3 DEF Lost
  <2>4. CASE s.agent # r.agent
    BY <1>1, <2>1, <2>2, <2>4 DEF Apart
  <2>. QED
    BY <2>3, <2>4
<1>9. Apart'
  <2>1. ASSUME NEW s \in reserved', NEW t \in reserved', NEW f \in File,
               s.agent # t.agent, s.exclusive, Both(s, t, f)
        PROVE  Lost(s) \/ Lost(t)
    <3>1. CASE s = n /\ t \in reserved /\ t # r
      BY <1>3, <1>8, <2>1, <3>1
    <3>2. CASE s \in reserved /\ s # r /\ t = n
      BY <1>3, <1>8, <2>1, <3>2 DEF Both
    <3>3. CASE s \in reserved /\ t \in reserved
      BY <1>1, <2>1, <3>3 DEF Apart
    <3>. QED
      BY <1>3, <2>1, <3>1, <3>2, <3>3
  <2>2. ASSUME NEW s \in reserved', NEW t \in reserved', NEW f \in File,
               s # t, Current(s), Current(t), Both(s, t, f)
        PROVE  FALSE
    <3>1. CASE s = n /\ t \in reserved /\ t # r
      BY <1>1, <1>7, <2>2, <3>1 DEF Apart, Both
    <3>2. CASE s \in reserved /\ s # r /\ t = n
      BY <1>1, <1>7, <2>2, <3>2 DEF Apart, Both
    <3>3. CASE s \in reserved /\ t \in reserved
      BY <1>1, <2>2, <3>3 DEF Apart
    <3>. QED
      BY <1>3, <2>2, <3>1, <3>2, <3>3
  <2>. QED
    BY <1>7, <2>1, <2>2 DEF Apart, Both
<1>10. EditsAreChecked'
  BY <1>1, <1>4 DEF EditsAreChecked, Trespasses, Abandoned, Holds
<1>. QED
  BY <1>5, <1>6, <1>9, <1>10 DEF FilesInv

LEMMA FilesInductive ==
    /\ FilesInit => FilesInv
    /\ FilesInv /\ [FilesNext]_filesVars => FilesInv'
<1>. USE ReservationsAssumption
<1>1. FilesInit => FilesInv
  <2>. SUFFICES ASSUME FilesInit
                PROVE  FilesInv
    OBVIOUS
  <2>. USE DEF FilesInit
  <2>1. NoEdit \in EditType /\ NoEdit.known = {}
    BY DEF NoEdit, EditType
  <2>2. FilesTypeOK /\ edit \in [Agent -> EditType]
    BY <2>1 DEF FilesTypeOK, EditType
  <2>3. IdsInTurn /\ Apart /\ EditsAreChecked
    BY <2>1 DEF IdsInTurn, Apart, EditsAreChecked, Trespasses
  <2>. QED
    BY <2>2, <2>3 DEF FilesInv
<1>2. ASSUME FilesInv, [FilesNext]_filesVars
      PROVE  FilesInv'
  <2>1. /\ reserved \subseteq Reservation /\ ended \subseteq Agent
        /\ edit \in [Agent -> EditType] /\ NoEdit \in EditType
    BY <1>2 DEF FilesInv, FilesTypeOK, NoEdit, EditType
  <2>2. CASE Expire
    BY <1>2, <2>1, <2>2, DropKeeps DEF Expire
  <2>3. ASSUME NEW l \in Logical, AssignFiles(l)
        PROVE  FilesInv'
    <3>1. PICK p \in Pattern : ReserveFiles(l, {p}, TRUE)
      BY <2>3 DEF AssignFiles
    <3>. QED
      BY <1>2, <2>3, <3>1, ReserveKeeps DEF AssignFiles, Owner
  <2>4. ASSUME NEW a \in Agent \ ended, Acquire(a)
        PROVE  FilesInv'
    <3>1. PICK p \in Pattern, exclusive \in BOOLEAN : ReserveFiles(a, {p}, exclusive)
      BY <2>4 DEF Acquire
    <3>2. a \notin Logical /\ a \in Owner
      BY DEF Owner
    <3>. QED
      BY <1>2, <2>4, <3>1, <3>2, ReserveKeeps DEF Acquire
  <2>5. ASSUME NEW a \in Agent \ ended, Release(a)
        PROVE  FilesInv'
    BY <1>2, <2>1, <2>5, DropKeeps DEF Release
  <2>6. ASSUME NEW a \in Agent \ ended, StartEdit(a)
        PROVE  FilesInv'
    <3>1. PICK f \in File : /\ Allows(a, f)
                            /\ edit' = [edit EXCEPT ![a] = [file |-> f, known |-> reserved]]
      BY <2>6 DEF StartEdit
    <3>2. [file |-> f, known |-> reserved] \in EditType
      BY <2>1 DEF EditType
    <3>3. edit' \in [Agent -> EditType]
      BY <2>1, <3>1, <3>2
    <3>4. \A b \in Agent : edit'[b] = edit[b] \/ (b = a /\ edit'[b].known = reserved /\ edit'[b].file = f)
      BY <2>1, <3>1
    <3>. QED
      BY <1>2, <2>1, <2>6, <3>1, <3>3, <3>4, DropKeeps DEF StartEdit
  <2>7. ASSUME NEW a \in Agent \ ended, EndEdit(a) \/ End(a)
        PROVE  FilesInv'
    <3>1. edit' = [edit EXCEPT ![a] = NoEdit]
      BY <2>7 DEF EndEdit, End
    <3>2. edit' \in [Agent -> EditType] /\ \A b \in Agent : edit'[b] \in {edit[b], NoEdit}
      BY <2>1, <3>1
    <3>. QED
      BY <1>2, <2>1, <2>7, <3>2, DropKeeps DEF EndEdit, End
  <2>8. ASSUME NEW a \in Agent \ ended, NEW l \in Logical, TransferReservation(l, a)
        PROVE  FilesInv'
    BY <1>2, <2>8, TransferKeeps
  <2>9. CASE UNCHANGED filesVars
    BY <1>2, <2>1, <2>9, DropKeeps DEF filesVars
  <2>. QED
    BY <1>2, <2>2, <2>3, <2>4, <2>5, <2>6, <2>7, <2>8, <2>9 DEF FilesNext
<1>. QED
  BY <1>1, <1>2

LEMMA FilesInvExclusive ==
    FilesInv => ExclusiveMeansAlone
BY LostIsAbandoned DEF FilesInv, Apart, Both, ExclusiveMeansAlone

-----------------------------------------------------------------------------
(* The theorems                                                             *)

(* Every variable of every part stays within its type: in particular no     *)
(* pool runs more sub-agents than its limit, counters keep to their bounds, *)
(* and nobody but the process that asked is told of a detached run's result.*)
THEOREM PartsTypeCorrect == Spec => []TypeOK
<1>1. Spec => []FilesTypeOK
  <2>1. FilesInv => FilesTypeOK
    BY DEF FilesInv
  <2>. QED
    BY <2>1, PartsAlone, FilesInductive, PTL
<1>2. Spec => []MailTypeOK
  <2>1. MailInv => MailTypeOK
    BY DEF MailInv
  <2>. QED
    BY <2>1, PartsAlone, MailInductive, PTL
<1>3. Spec => []QuestionsTypeOK
  <2>1. QuestionsInv => QuestionsTypeOK
    BY DEF QuestionsInv
  <2>. QED
    BY <2>1, PartsAlone, QuestionsInductive, PTL
<1>4. Spec => []ReviewTypeOK
  <2>1. ReviewInv => ReviewTypeOK
    BY DEF ReviewInv
  <2>. QED
    BY <2>1, PartsAlone, ReviewInductive, PTL
<1>5. Spec => []SpecsTypeOK
  <2>1. SpecsInv => SpecsTypeOK
    BY DEF SpecsInv
  <2>. QED
    BY <2>1, PartsAlone, SpecsInductive, PTL
<1>6. Spec => []AgentTypeOK
  <2>1. AgentInv => AgentTypeOK
    BY DEF AgentInv
  <2>. QED
    BY <2>1, PartsAlone, AgentInductive, PTL
<1>7. Spec => []ContractsTypeOK
  BY PartsAlone, ContractsInductive, PTL
<1>8. Spec => []DetachedTypeOK
  BY PartsAlone, DetachedInductive, PTL
<1>9. Spec => [](part \in Parts)
  <2>1. part \in Parts /\ [part' = part]_vars => (part \in Parts)'
    BY DEF vars
  <2>. QED
    BY <2>1, PartsAlone, PTL
<1>10. FilesTypeOK /\ MailTypeOK /\ QuestionsTypeOK /\ ReviewTypeOK /\ SpecsTypeOK /\ AgentTypeOK
      /\ ContractsTypeOK /\ DetachedTypeOK /\ part \in Parts => TypeOK
  BY DEF TypeOK
<1>. QED
  BY <1>1, <1>2, <1>3, <1>4, <1>5, <1>6, <1>7, <1>8, <1>9, <1>10, PTL

(* An answer that the user gave is the one the agent goes on with           *)
(* (escalateToUser, the dashboard's and the TUI's answers).                  *)
THEOREM AnswersStand == Spec => []AnswerStands
<1>1. QuestionsInv => AnswerStands
  BY DEF QuestionsInv
<1>. QED
  BY <1>1, PartsAlone, QuestionsInductive, PTL

(* A worker completes its task only after the reviews of its work, but for  *)
(* an SDK worker for which no changed file was found when it tried.         *)
THEOREM CompletionsAreReviewed == Spec => []CompletionIsReviewed
<1>1. ReviewInv => CompletionIsReviewed
  BY DEF ReviewInv, PassedHadReviews, CompletionIsReviewed
<1>. QED
  BY <1>1, PartsAlone, ReviewInductive, PTL

(* Messages are passed over only when they were on their way while the      *)
(* inbox was read, or when the agent had asked for later ones only.         *)
THEOREM InboxesLoseOnlyRaces == Spec => []InboxLosesOnlyRaces
<1>1. MailInv => InboxLosesOnlyRaces
  BY DEF MailInv, NothingPassedOver, InboxLosesOnlyRaces
<1>. QED
  BY <1>1, PartsAlone, MailInductive, PTL

(* Once provided a contract stays provided, whoever writes it back from     *)
(* what it read earlier.                                                    *)
THEOREM ReadyStays == Spec => ReadyIsKept
<1>1. ContractsTypeOK /\ [ContractsNext]_contractsVars
      => [\A i \in Item : contract[i].ready /\ contract'[i].made = contract[i].made
                         => contract'[i].ready]_contractsVars
  BY ReadyKeptByStep
<1>. QED
  BY <1>1, PartsAlone, ContractsInductive, PTL DEF ReadyIsKept

(* What coordinate accepts has no cycle and can be worked off, whatever the *)
(* order its tasks are visited and done in, and in the order it was written *)
(* to be done in.                                                           *)
THEOREM AcceptedSpecsWork == Spec => []AcceptedIsWorkedOff
BY AcceptedWorks, PartsAlone, SpecsInductive, PTL

(* However patterns are written, handed over and left behind, a file that   *)
(* is reserved exclusively is reserved by nobody else.                      *)
THEOREM ExclusiveIsAlone == Spec => []ExclusiveMeansAlone
BY FilesInvExclusive, PartsAlone, FilesInductive, PTL

(* Nobody edits a file that was another's exclusively when the edit was     *)
(* checked, but for a shared reservation of it that the check may have met. *)
THEOREM EditsWereChecked == Spec => []EditsAreChecked
<1>1. FilesInv => EditsAreChecked
  BY DEF FilesInv
<1>. QED
  BY <1>1, PartsAlone, FilesInductive, PTL
=============================================================================
