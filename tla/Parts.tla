------------------------------- MODULE Parts -------------------------------
(***************************************************************************)
(* The parts of a coordination that keep state of their own and meet only    *)
(* in the agents that use them: file reservations, contracts, messages,       *)
(* questions to the user, the worker's review of its own work, the writing of *)
(* a spec, the pool of sub-agents, and detached runs.  A behaviour is one of  *)
(* one part, which is chosen in the initial state: no state that a step of    *)
(* one of these modules reads is written by another of them.                  *)
(***************************************************************************)
EXTENDS Reservations, Contracts, Mailbox, Questions, SelfReview, Specs, SubAgent, Detached

CONSTANT Parts  \* the parts a run is about

ASSUME PartsAssumption ==
    Parts \subseteq {"files", "contracts", "mail", "questions", "review", "specs", "agents",
                "detached"}

VARIABLE part

vars == <<part, filesVars, contractsVars, mailVars, questionsVars, reviewVars, specsVars, agentVars, detachedVars>>

Init ==
    /\ part \in Parts
    /\ FilesInit /\ ContractsInit /\ MailInit /\ QuestionsInit /\ SpecsInit /\ AgentInit
    /\ ReviewInit /\ DetachedInit
    /\ part # "review" => author = [kind |-> "process", on |-> TRUE, fresh |-> FALSE]

Next ==
    \/ /\ part = "files" /\ FilesNext
       /\ UNCHANGED <<part, contractsVars, mailVars, questionsVars, reviewVars, specsVars, agentVars, detachedVars>>
    \/ /\ part = "contracts" /\ ContractsNext
       /\ UNCHANGED <<part, filesVars, mailVars, questionsVars, reviewVars, specsVars, agentVars, detachedVars>>
    \/ /\ part = "mail" /\ MailNext
       /\ UNCHANGED <<part, filesVars, contractsVars, questionsVars, reviewVars, specsVars, agentVars, detachedVars>>
    \/ /\ part = "questions" /\ QuestionsNext
       /\ UNCHANGED <<part, filesVars, contractsVars, mailVars, reviewVars, specsVars, agentVars, detachedVars>>
    \/ /\ part = "review" /\ ReviewNext
       /\ UNCHANGED <<part, filesVars, contractsVars, mailVars, questionsVars, specsVars, agentVars, detachedVars>>
    \/ /\ part = "specs" /\ SpecsNext
       /\ UNCHANGED <<part, filesVars, contractsVars, mailVars, questionsVars, reviewVars, agentVars, detachedVars>>
    \/ /\ part = "agents" /\ AgentNext
       /\ UNCHANGED <<part, filesVars, contractsVars, mailVars, questionsVars, reviewVars, specsVars, detachedVars>>
    \/ /\ part = "detached" /\ DetachedNext
       /\ UNCHANGED <<part, filesVars, contractsVars, mailVars, questionsVars, reviewVars, specsVars,
                      agentVars>>

(* In a behaviour of another part nothing that is asked for here is enabled. *)
Spec == Init /\ [][Next]_vars /\ AgentFair /\ DetachedFair

TypeOK ==
    /\ part \in Parts
    /\ FilesTypeOK /\ ContractsTypeOK /\ MailTypeOK /\ QuestionsTypeOK
    /\ ReviewTypeOK /\ SpecsTypeOK /\ AgentTypeOK /\ DetachedTypeOK
=============================================================================
