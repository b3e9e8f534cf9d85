--------------------------- MODULE FileLockProofs ---------------------------
(***************************************************************************)
(* Proofs about withLock for any number of callers and retries: as long as  *)
(* no live holder is taken for dead, every call is one atomic update.       *)
(*                                                                          *)
(* That the file holds exactly the updates that were made is not inductive: *)
(* the call between its read and its rename must know that what it has read *)
(* is still what the file holds, and that the shared temporary file is its  *)
(* own.  Both rest on exclusion, and exclusion rests on the lock file being *)
(* the holder's own.                                                        *)
(***************************************************************************)
EXTENDS FileLock, TLAPS

(* A call inside withLock owns the lock file.                               *)
HoldersOwnLock == \A c \in Caller : pc[c] \in Holding => lock = c

(* What a call works on is up to date.                                      *)
CopiesFresh ==
    /\ \A c \in Caller : pc[c] = "write" => copy[c] = file
    /\ \A c \in Caller : pc[c] = "rename" => tmp = file \cup {c}

LockInv ==
    ~stolen => /\ HoldersOwnLock
               /\ file = applied
               /\ CopiesFresh

-----------------------------------------------------------------------------
(* One more attempt than n, when n is not yet the last of m.                *)
LEMMA OneMore ==
    ASSUME NEW m \in Nat, NEW n \in 0..m, n # m
    PROVE  n + 1 \in 0..m
OBVIOUS

(* Nothing withLock does leaves the ranges its variables are declared with, *)
(* and a call never makes more than MaxRetries attempts.                    *)
LEMMA TypeStep == ASSUME TypeOK, [Next]_vars PROVE TypeOK'
<1> USE LockAssumption DEF TypeOK, Label, Holding
<1>1. CASE UNCHANGED vars
  BY <1>1 DEF vars
<1>2. CASE Age
  BY <1>2 DEF Age
<1>3. ASSUME NEW c \in Caller, Acquire(c) PROVE TypeOK'
  BY <1>3 DEF Acquire, Goto
<1>4. ASSUME NEW c \in Caller, FindBusy(c) PROVE TypeOK'
  BY <1>4 DEF FindBusy, Goto
<1>5. ASSUME NEW c \in Caller, RemoveStale(c) PROVE TypeOK'
  <2>1. stolen' \in BOOLEAN
    BY <1>5 DEF RemoveStale
  <2> QED BY <1>5, <2>1 DEF RemoveStale, Goto
<1>6. ASSUME NEW c \in Caller, Retry(c) PROVE TypeOK'
  <2>1. tries[c] \in 0..MaxRetries /\ tries[c] # MaxRetries /\ MaxRetries \in Nat
    BY <1>6 DEF Retry
  <2>2. tries[c] + 1 \in 0..MaxRetries
    BY <2>1, OneMore
  <2>3. tries' \in [Caller -> 0..MaxRetries]
    BY <1>6, <2>2 DEF Retry
  <2>4. pc' \in [Caller -> Label]
    BY <1>6 DEF Retry, Goto
  <2>5. ASSUME NEW d \in Caller, tries'[d] = MaxRetries
        PROVE  pc'[d] \in {"gave up", "crashed"}
    <3>1. CASE d = c
      BY <1>6, <2>5, <3>1 DEF Retry, Goto
    <3>2. CASE d # c
      BY <1>6, <2>5, <3>2 DEF Retry, Goto
    <3> QED BY <3>1, <3>2
  <2> QED BY <1>6, <2>3, <2>4, <2>5 DEF Retry
<1>7. ASSUME NEW c \in Caller, Read(c) PROVE TypeOK'
  BY <1>7 DEF Read, Goto
<1>8. ASSUME NEW c \in Caller, Leave(c) PROVE TypeOK'
  BY <1>8 DEF Leave, Goto
<1>9. ASSUME NEW c \in Caller, Write(c) PROVE TypeOK'
  BY <1>9 DEF Write, Goto
<1>10. ASSUME NEW c \in Caller, Rename(c) PROVE TypeOK'
  BY <1>10 DEF Rename, Goto
<1>11. ASSUME NEW c \in Caller, Unlock(c) PROVE TypeOK'
  BY <1>11 DEF Unlock, Goto
<1>12. ASSUME NEW c \in Caller, Crash(c) PROVE TypeOK'
  BY <1>12 DEF Crash, Goto
<1> QED
  BY <1>1, <1>2, <1>3, <1>4, <1>5, <1>6, <1>7, <1>8, <1>9, <1>10, <1>11, <1>12 DEF Next

(* The variables of withLock keep their declared ranges, and no call goes   *)
(* beyond its last retry.                                                   *)
THEOREM LockTypeCorrect == Spec => []TypeOK
<1>1. Init => TypeOK
  <2> SUFFICES ASSUME Init PROVE TypeOK
    OBVIOUS
  <2>1. MaxRetries \in Nat \ {0} /\ 0 \in 0..MaxRetries
    BY LockAssumption
  <2>2. tries \in [Caller -> 0..MaxRetries]
    BY <2>1 DEF Init
  <2>3. \A c \in Caller : tries[c] # MaxRetries
    BY <2>1 DEF Init
  <2> QED BY <2>2, <2>3 DEF Init, TypeOK, Label, Holding
<1>2. TypeOK /\ [Next]_vars => TypeOK'
  BY TypeStep
<1> QED BY <1>1, <1>2, PTL DEF Spec

-----------------------------------------------------------------------------
(* Each step keeps the holder's lock its own and its copies up to date,     *)
(* unless it is the one that removes the lock of a live holder.             *)
LEMMA LockStep == ASSUME TypeOK, LockInv, [Next]_vars PROVE LockInv'
<1> SUFFICES ASSUME ~stolen' PROVE (HoldersOwnLock /\ file = applied /\ CopiesFresh)'
  BY DEF LockInv
<1> USE LockAssumption DEF TypeOK, LockInv, HoldersOwnLock, CopiesFresh, Holding
<1>1. CASE UNCHANGED vars
  BY <1>1 DEF vars
<1>2. CASE Age
  BY <1>2 DEF Age
<1>3. ASSUME NEW c \in Caller, Acquire(c) PROVE (HoldersOwnLock /\ file = applied /\ CopiesFresh)'
  <2>1. \A d \in Caller : pc[d] \notin Holding
    BY <1>3 DEF Acquire
  <2> QED BY <1>3, <2>1 DEF Acquire, Goto
<1>4. ASSUME NEW c \in Caller, FindBusy(c) PROVE (HoldersOwnLock /\ file = applied /\ CopiesFresh)'
  BY <1>4 DEF FindBusy, Goto
<1>5. ASSUME NEW c \in Caller, RemoveStale(c) PROVE (HoldersOwnLock /\ file = applied /\ CopiesFresh)'
  <2>1. \A d \in Caller : pc[d] \notin Holding
    BY <1>5 DEF RemoveStale, Holders
  <2> QED BY <1>5, <2>1 DEF RemoveStale, Goto
<1>6. ASSUME NEW c \in Caller, Retry(c) PROVE (HoldersOwnLock /\ file = applied /\ CopiesFresh)'
  BY <1>6 DEF Retry, Goto
<1>7. ASSUME NEW c \in Caller, Read(c) PROVE (HoldersOwnLock /\ file = applied /\ CopiesFresh)'
  BY <1>7 DEF Read, Goto
<1>8. ASSUME NEW c \in Caller, Leave(c) PROVE (HoldersOwnLock /\ file = applied /\ CopiesFresh)'
  BY <1>8 DEF Leave, Goto
<1>9. ASSUME NEW c \in Caller, Write(c) PROVE (HoldersOwnLock /\ file = applied /\ CopiesFresh)'
  <2>1. \A d \in Caller : pc[d] \in Holding => d = c
    BY <1>9 DEF Write
  <2>2. copy[c] = file
    BY <1>9 DEF Write
  <2> QED BY <1>9, <2>1, <2>2 DEF Write, Goto
<1>10. ASSUME NEW c \in Caller, Rename(c) PROVE (HoldersOwnLock /\ file = applied /\ CopiesFresh)'
  <2>1. \A d \in Caller : pc[d] \in Holding => d = c
    BY <1>10 DEF Rename
  <2>2. file' = applied'
    BY <1>10 DEF Rename
  <2> QED BY <1>10, <2>1, <2>2 DEF Rename, Goto
<1>11. ASSUME NEW c \in Caller, Unlock(c) PROVE (HoldersOwnLock /\ file = applied /\ CopiesFresh)'
  <2>1. \A d \in Caller : pc[d] \in Holding => d = c
    BY <1>11 DEF Unlock
  <2> QED BY <1>11, <2>1 DEF Unlock, Goto
<1>12. ASSUME NEW c \in Caller, Crash(c) PROVE (HoldersOwnLock /\ file = applied /\ CopiesFresh)'
  BY <1>12 DEF Crash, Goto
<1> QED
  BY <1>1, <1>2, <1>3, <1>4, <1>5, <1>6, <1>7, <1>8, <1>9, <1>10, <1>11, <1>12 DEF Next

(* The invariant holds throughout.                                          *)
LEMMA LockInvariant == Spec => []LockInv
<1>1. Init => LockInv
  BY DEF Init, LockInv, HoldersOwnLock, CopiesFresh, Holding
<1>2. TypeOK /\ LockInv /\ [Next]_vars => LockInv'
  BY LockStep
<1> QED BY <1>1, <1>2, LockTypeCorrect, PTL DEF Spec

(* Mutual exclusion of withLock: two calls are inside at once only if the   *)
(* lock of a live holder was taken for a dead one's.                        *)
THEOREM LockIsExclusive == Spec => []ExclusiveUnlessStolen
<1>1. LockInv => ExclusiveUnlessStolen
  BY DEF LockInv, HoldersOwnLock, ExclusiveUnlessStolen, Overlap, Holders
<1> QED BY <1>1, LockInvariant, PTL

(* Atomicity of withLock: under the same condition no update is lost or     *)
(* half done, whatever crashes there are.                                   *)
THEOREM UpdatesAreAtomic == Spec => []AtomicUnlessStolen
<1>1. LockInv => AtomicUnlessStolen
  BY DEF LockInv, AtomicUnlessStolen
<1> QED BY <1>1, LockInvariant, PTL
=============================================================================
