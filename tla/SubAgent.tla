------------------------------ MODULE SubAgent ------------------------------
(***************************************************************************)
(* Sub-agents: runParallelAgents and runSingleAgent of subagent/runner.ts,   *)
(* and runAgentSDK with runWithFailover of subagent/sdk-runner.ts.  A pool   *)
(* runs jobs in order, Limit at a time, as processes or, when the SDK is     *)
(* there, in-process.  A process has a timeout by role and an idle timeout;  *)
(* an SDK session has neither: it ends when the provider answers.            *)
(*                                                                          *)
(* Timers that send SIGKILL five seconds after SIGTERM ask for ~proc.killed, *)
(* which the first signal has made false: they send nothing, and a process   *)
(* that ignores SIGTERM (stubborn) runs on until it ends by itself.          *)
(***************************************************************************)
EXTENDS Naturals, FiniteSets

CONSTANTS
    Jobs,    \* number of jobs of the pool
    Limit,   \* maxConcurrency
    Models   \* the first model and the cascade behind it

ASSUME SubAgentAssumption == Jobs \in Nat /\ Limit \in Nat \ {0} /\ Models \in Nat \ {0}

VARIABLES
    path,      \* "process" or "sdk"
    stubborn,  \* processes that ignore SIGTERM
    aborted,   \* the caller's abort signal
    agent      \* each job: where it is, whether it is silent, attempts, result

agentVars == <<path, stubborn, aborted, agent>>

Job == 1..Jobs

AgentInit ==
    /\ path = "process" /\ stubborn = {} /\ aborted = FALSE
    /\ agent = [j \in Job |-> [at |-> "none", silent |-> FALSE, attempt |-> 0, exit |-> 0, stop |-> "none"]]

(* runParallelAgents is called; a process is what it is.                     *)
CallPool ==
    /\ \A j \in Job : agent[j].at = "none"
    /\ agent' = [j \in Job |-> [agent[j] EXCEPT !.at = "todo"]]
    /\ path' \in {"process", "sdk"}
    /\ stubborn' \in IF path' = "process" THEN SUBSET Job ELSE {{}}
    /\ UNCHANGED aborted

-----------------------------------------------------------------------------
(* nextIndex and the limit of the pool.                                      *)
Busy(j) == agent[j].at \in {"running", "signalled", "waiting"}

NextJob(j) ==
    /\ agent[j].at = "todo"
    /\ \A k \in 1..(j - 1) : agent[k].at # "todo"
    /\ Cardinality({k \in Job : Busy(k)}) < Limit

Set(j, r) == agent' = [agent EXCEPT ![j] = r]

(* A session for the next attempt: it refuses when the signal is there.      *)
Attempt(j) ==
    IF aborted THEN [agent[j] EXCEPT !.at = "returned", !.exit = 1, !.stop = "aborted"]
    ELSE [agent[j] EXCEPT !.at = "running", !.attempt = @ + 1]

(* A job that starts after the abort is signalled at once.                   *)
StartAgent(j) ==
    /\ NextJob(j)
    /\ Set(j, IF path = "sdk" THEN Attempt(j)
              ELSE IF aborted THEN [agent[j] EXCEPT !.at = "signalled", !.stop = "aborted"]
              ELSE [agent[j] EXCEPT !.at = "running"])
    /\ UNCHANGED <<path, stubborn, aborted>>

(* Output arms the idle timer again.                                         *)
Talk(j) ==
    /\ path = "process" /\ agent[j].at = "running"
    /\ Set(j, [agent[j] EXCEPT !.silent = ~@])
    /\ UNCHANGED <<path, stubborn, aborted>>

TimedOut(j) == Set(j, [agent[j] EXCEPT !.at = "signalled", !.stop = "timeout"])

(* Bug: output arms the timer of the role again, too.                        *)
RoleTimeoutIfSilent(j) ==
    /\ path = "process" /\ agent[j].at = "running" /\ agent[j].silent
    /\ TimedOut(j)
    /\ UNCHANGED <<path, stubborn, aborted>>

RoleTimeout(j) ==
    /\ path = "process" /\ agent[j].at = "running"
    /\ TimedOut(j)
    /\ UNCHANGED <<path, stubborn, aborted>>

IdleTimeout(j) ==
    /\ path = "process" /\ agent[j].at = "running" /\ agent[j].silent
    /\ TimedOut(j)
    /\ UNCHANGED <<path, stubborn, aborted>>

(* The abort reaches every process that runs.  Of a process that has also   *)
(* timed out, "timeout" is what the result says.                             *)
Abort ==
    /\ ~aborted
    /\ aborted' = TRUE
    /\ agent' = IF path = "sdk" THEN agent
                ELSE [j \in Job |->
                        IF agent[j].at = "running"
                        THEN [agent[j] EXCEPT !.at = "signalled", !.stop = "aborted"]
                        ELSE agent[j]]
    /\ UNCHANGED <<path, stubborn>>

(* "close": a process that a signal has ended has no code, and code ?? 0 is *)
(* a success.                                                                *)
Close(j) ==
    /\ path = "process" /\ agent[j].at \in {"running", "signalled"}
    /\ \E code \in {0, 1} : Set(j, [agent[j] EXCEPT !.at = "returned", !.exit = code])
    /\ UNCHANGED <<path, stubborn, aborted>>

DieOfSignal(j) == agent[j].at = "signalled" /\ j \notin stubborn /\ Close(j)

-----------------------------------------------------------------------------
(* Bug: the attempts are counted from nought.                                *)
PromptOnceMore(j) ==
    /\ path = "sdk" /\ agent[j].at = "running" /\ agent[j].attempt <= 2 * Models
    /\ Set(j, [agent[j] EXCEPT !.at = "waiting"])
    /\ UNCHANGED <<path, stubborn, aborted>>

(* session.prompt comes back: with an answer (an aborted session has one,   *)
(* too), with an error that is tried again, twice a model, or another.       *)
PromptEnds(j) ==
    /\ path = "sdk" /\ agent[j].at = "running"
    /\ \/ Set(j, [agent[j] EXCEPT !.at = "returned", !.exit = 0])
       \/ Set(j, [agent[j] EXCEPT !.at = "returned", !.exit = 1])
       \/ /\ agent[j].attempt < 2 * Models
          /\ Set(j, [agent[j] EXCEPT !.at = "waiting"])
    /\ UNCHANGED <<path, stubborn, aborted>>

TryAgain(j) ==
    /\ path = "sdk" /\ agent[j].at = "waiting"
    /\ Set(j, Attempt(j))
    /\ UNCHANGED <<path, stubborn, aborted>>

AgentNext ==
    \/ CallPool \/ Abort
    \/ \E j \in Job : \/ StartAgent(j) \/ Talk(j) \/ RoleTimeout(j) \/ IdleTimeout(j)
                      \/ Close(j) \/ PromptEnds(j) \/ TryAgain(j)

(* The event loop runs what is due, timers fire, a process that does not    *)
(* ignore the signal dies of it, and a provider answers in the end.  A job   *)
(* takes finitely many of these steps, so that none can starve another.      *)
AgentFair ==
    WF_agentVars(\E j \in Job : \/ StartAgent(j) \/ RoleTimeout(j) \/ DieOfSignal(j)
                               \/ PromptEnds(j) \/ TryAgain(j))

-----------------------------------------------------------------------------
AgentTypeOK ==
    /\ path \in {"process", "sdk"} /\ stubborn \subseteq Job /\ aborted \in BOOLEAN
    /\ agent \in [Job -> [at : {"none", "todo", "running", "signalled", "waiting", "returned"},
                          silent : BOOLEAN, attempt : 0..(2 * Models), exit : {0, 1},
                          stop : {"none", "timeout", "aborted"}]]

Hung == {j \in Job : agent[j].at = "signalled" /\ j \in stubborn}

(* Every job of a pool comes back with a result, however much its agent     *)
(* talks, whatever fails and whenever the caller aborts, unless it ignores   *)
(* SIGTERM itself, or as many jobs do as the pool runs at a time.            *)
Answered ==
    (\E j \in Job : agent[j].at = "todo") ~>
        \/ \A j \in Job : agent[j].at = "returned" \/ j \in Hung
        \/ Cardinality(Hung) >= Limit
=============================================================================
