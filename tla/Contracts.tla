----------------------------- MODULE Contracts -----------------------------
(***************************************************************************)
(* Contracts between workers: create_contract of the coordinator, agent_sync *)
(* of the workers ("provide", "need") and updateContract in state.ts, which  *)
(* reads and writes state.json under the lock "state" (module FileLock): one *)
(* step each.  "need" reads the contract, registers as a waiter and then     *)
(* polls until its deadline, in steps of their own.                          *)
(*                                                                          *)
(* The tools that spawn workers block the coordinator until all of them have *)
(* ended, so it makes contracts only while no worker runs.                   *)
(***************************************************************************)
EXTENDS Naturals

CONSTANTS
    Peer,       \* workers
    Item,       \* names of contracts
    MaxCreated  \* bound: times that one name is given a contract

ASSUME ContractsAssumption == Item # {} /\ MaxCreated \in Nat

VARIABLES
    contract,   \* state.json: by name; made = 0 when there is none
    call,       \* the call of agent_sync that a worker is in
    status      \* status in the worker's state file

contractsVars == <<contract, call, status>>

Contract == [made : 0..MaxCreated, ready : BOOLEAN, waiters : SUBSET Peer]

NoContract == [made |-> 0, ready |-> FALSE, waiters |-> {}]

(* at: "off" no worker, "working", "register" and "wait" in "need", "tell"  *)
(* in "provide", with the waiters still to be sent a message.               *)
Calls == [at : {"off", "working", "register", "wait", "tell"}, item : Item, todo : SUBSET Peer]

AnyItem == CHOOSE i \in Item : TRUE
Off     == [at |-> "off", item |-> AnyItem, todo |-> {}]
Working == [Off EXCEPT !.at = "working"]

ContractsInit ==
    /\ contract = [i \in Item |-> NoContract]
    /\ call = [w \in Peer |-> Off]
    /\ status = [w \in Peer |-> "working"]

-----------------------------------------------------------------------------
(* create_contract: an earlier contract of that name is replaced.           *)
CreateContract(i) ==
    /\ \A w \in Peer : call[w].at = "off"
    /\ contract[i].made < MaxCreated
    /\ \E ws \in SUBSET Peer :
          contract' = [contract EXCEPT ![i] = [made |-> @.made + 1, ready |-> FALSE, waiters |-> ws]]
    /\ UNCHANGED <<call, status>>

SpawnAll ==
    /\ \A w \in Peer : call[w].at = "off"
    /\ call' = [w \in Peer |-> Working]
    /\ status' = [w \in Peer |-> "working"]
    /\ UNCHANGED contract

(* A worker ends or is killed, whatever call it is in.                      *)
Leave(w) ==
    /\ call[w].at # "off"
    /\ call' = [call EXCEPT ![w] = Off]
    /\ UNCHANGED <<contract, status>>

(* Any worker may provide, more than once; a name without a contract is an  *)
(* error that changes nothing.                                              *)
Provide(w, i) ==
    /\ call[w].at = "working" /\ contract[i].made > 0
    /\ contract' = [contract EXCEPT ![i].ready = TRUE]
    /\ call' = [call EXCEPT ![w] = [at |-> "tell", item |-> i, todo |-> contract[i].waiters]]
    /\ UNCHANGED status

(* One message (module Mailbox) to each of the waiters found by the update. *)
Tell(w) ==
    /\ call[w].at = "tell"
    /\ IF call[w].todo = {}
       THEN call' = [call EXCEPT ![w] = Working]
       ELSE \E v \in call[w].todo : call' = [call EXCEPT ![w].todo = @ \ {v}]
    /\ UNCHANGED <<contract, status>>

(* A contract that is ready is returned at once.                            *)
Need(w, i) ==
    /\ call[w].at = "working" /\ contract[i].made > 0 /\ ~contract[i].ready
    /\ call' = [call EXCEPT ![w] = [Working EXCEPT !.at = "register", !.item = i]]
    /\ UNCHANGED <<contract, status>>

(* Bug: writes back the contract that was read before, which was not ready. *)
RegisterAsRead(w) ==
    /\ call[w].at = "register"
    /\ contract' = [contract EXCEPT ![call[w].item].waiters = @ \cup {w},
                                    ![call[w].item].ready = FALSE]
    /\ call' = [call EXCEPT ![w].at = "wait"]
    /\ status' = [status EXCEPT ![w] = "waiting"]

RegisterWaiter(w) ==
    /\ call[w].at = "register"
    /\ contract' = [contract EXCEPT ![call[w].item].waiters = @ \cup {w}]
    /\ call' = [call EXCEPT ![w].at = "wait"]
    /\ status' = [status EXCEPT ![w] = "waiting"]

SeeReady(w) ==
    /\ call[w].at = "wait" /\ contract[call[w].item].ready
    /\ call' = [call EXCEPT ![w] = Working]
    /\ status' = [status EXCEPT ![w] = "working"]
    /\ UNCHANGED contract

(* The deadline passes at any time, also between the last poll and the      *)
(* moment the contract is ready.                                            *)
GiveUp(w) ==
    /\ call[w].at = "wait"
    /\ call' = [call EXCEPT ![w] = Working]
    /\ status' = [status EXCEPT ![w] = "blocked"]
    /\ UNCHANGED contract

ContractsNext ==
    \/ SpawnAll
    \/ \E i \in Item : CreateContract(i)
    \/ \E w \in Peer :
          \/ Leave(w) \/ Tell(w) \/ RegisterWaiter(w) \/ SeeReady(w) \/ GiveUp(w)
          \/ \E i \in Item : Provide(w, i) \/ Need(w, i)

-----------------------------------------------------------------------------
ContractsTypeOK ==
    /\ contract \in [Item -> Contract]
    /\ call \in [Peer -> Calls]
    /\ status \in [Peer -> {"working", "waiting", "blocked"}]

(* What has been provided stays provided until the coordinator makes a new  *)
(* contract of that name, whoever registers, waits or dies meanwhile.       *)
ReadyIsKept ==
    [][\A i \in Item : contract[i].ready /\ contract'[i].made = contract[i].made
                       => contract'[i].ready]_contractsVars
=============================================================================
