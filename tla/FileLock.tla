------------------------------ MODULE FileLock ------------------------------
(***************************************************************************)
(* withLock of task-queue.ts: a lock file created with O_EXCL around one    *)
(* read-modify-write of tasks.json, retried with back-off, removed by       *)
(* whoever finds it more than 30 s old, and removed by its holder at the    *)
(* end without a look at whose it is by then.  state.ts, nudge.ts and       *)
(* a2a.ts repeat the same code for their files.                             *)
(*                                                                          *)
(* A caller is one call of withLock by some process; a process may crash    *)
(* between any two of its system calls.  The file holds the set of calls    *)
(* whose update it contains, so that a lost update shows.                   *)
(***************************************************************************)
EXTENDS Integers, FiniteSets

CONSTANTS
    Caller,     \* the calls of withLock
    Nobody,
    MaxRetries  \* maxRetries (50)

ASSUME LockAssumption ==
    /\ Nobody \notin Caller
    /\ MaxRetries \in Nat \ {0}

VARIABLES
    pc,       \* where each call is
    tries,    \* its loop counter i
    lock,     \* who created the lock file that exists, or Nobody
    aged,     \* the lock file is more than 30 s old
    file,     \* the updates in tasks.json
    tmp,      \* the updates in tasks.json.tmp
    copy,     \* what each call has read
    applied,  \* the calls that have renamed their file (not in the code)
    stolen    \* a live holder's lock has been removed (not in the code)

vars == <<pc, tries, lock, aged, file, tmp, copy, applied, stolen>>

Holding == {"read", "write", "rename", "unlock"}

Holders == {c \in Caller : pc[c] \in Holding}

Init ==
    /\ pc = [c \in Caller |-> "open"]
    /\ tries = [c \in Caller |-> 0]
    /\ lock = Nobody
    /\ aged = FALSE
    /\ file = {} /\ tmp = {}
    /\ copy = [c \in Caller |-> {}]
    /\ applied = {}
    /\ stolen = FALSE

Goto(c, label) == pc' = [pc EXCEPT ![c] = label]

(* Time passes: the lock file reaches its 31st second.                      *)
Age ==
    /\ lock # Nobody
    /\ aged' = TRUE
    /\ UNCHANGED <<pc, tries, lock, file, tmp, copy, applied, stolen>>

(* open(O_CREAT | O_EXCL), and on EEXIST the look at the lock's age.        *)
Acquire(c) ==
    /\ pc[c] = "open"
    /\ lock = Nobody
    /\ lock' = c
    /\ aged' = FALSE
    /\ Goto(c, "read")
    /\ UNCHANGED <<tries, file, tmp, copy, applied, stolen>>

FindBusy(c) ==
    /\ pc[c] = "open"
    /\ lock # Nobody
    /\ Goto(c, IF aged THEN "remove" ELSE "wait")
    /\ UNCHANGED <<tries, lock, aged, file, tmp, copy, applied, stolen>>

(* unlink of a lock judged stale: it removes the lock that is there now.    *)
RemoveStale(c) ==
    /\ pc[c] = "remove"
    /\ lock' = Nobody
    /\ aged' = FALSE
    /\ stolen' = (stolen \/ lock \in Holders)
    /\ Goto(c, "wait")
    /\ UNCHANGED <<tries, file, tmp, copy, applied>>

(* Bug: one attempt too many.                                               *)
RetryOnceMore(c) ==
    /\ pc[c] = "wait"
    /\ tries' = [tries EXCEPT ![c] = @ + 1]
    /\ Goto(c, IF tries[c] = MaxRetries THEN "gave up" ELSE "open")
    /\ UNCHANGED <<lock, aged, file, tmp, copy, applied, stolen>>

(* Bug: the loop ends without an exception, and the update runs anyway.     *)
RetryFallsThrough(c) ==
    /\ pc[c] = "wait"
    /\ tries' = [tries EXCEPT ![c] = @ + 1]
    /\ Goto(c, IF tries[c] + 1 = MaxRetries THEN "read" ELSE "open")
    /\ UNCHANGED <<lock, aged, file, tmp, copy, applied, stolen>>

Retry(c) ==
    /\ pc[c] = "wait"
    /\ tries' = [tries EXCEPT ![c] = @ + 1]
    /\ Goto(c, IF tries[c] + 1 = MaxRetries THEN "gave up" ELSE "open")
    /\ UNCHANGED <<lock, aged, file, tmp, copy, applied, stolen>>

Read(c) ==
    /\ pc[c] = "read"
    /\ copy' = [copy EXCEPT ![c] = file]
    /\ Goto(c, "write")
    /\ UNCHANGED <<tries, lock, aged, file, tmp, applied, stolen>>

(* An operation that has nothing to change, or throws, writes nothing.      *)
Leave(c) ==
    /\ pc[c] = "write"
    /\ Goto(c, "unlock")
    /\ UNCHANGED <<tries, lock, aged, file, tmp, copy, applied, stolen>>

(* Bug: the file itself is written, and a crash leaves half of an update.   *)
WriteInPlace(c) ==
    /\ pc[c] = "write"
    /\ tmp' = copy[c] \cup {c}
    /\ file' = tmp'
    /\ Goto(c, "rename")
    /\ UNCHANGED <<tries, lock, aged, copy, applied, stolen>>

(* atomicWriteJson writes a temporary file, whose name all callers share,   *)
(* and renames it.                                                          *)
Write(c) ==
    /\ pc[c] = "write"
    /\ tmp' = copy[c] \cup {c}
    /\ Goto(c, "rename")
    /\ UNCHANGED <<tries, lock, aged, file, copy, applied, stolen>>

Rename(c) ==
    /\ pc[c] = "rename"
    /\ file' = tmp
    /\ applied' = applied \cup {c}
    /\ Goto(c, "unlock")
    /\ UNCHANGED <<tries, lock, aged, tmp, copy, stolen>>

Unlock(c) ==
    /\ pc[c] = "unlock"
    /\ lock' = Nobody
    /\ aged' = FALSE
    /\ Goto(c, "done")
    /\ UNCHANGED <<tries, file, tmp, copy, applied, stolen>>

Crash(c) ==
    /\ pc[c] \notin {"done", "gave up", "crashed"}
    /\ Goto(c, "crashed")
    /\ UNCHANGED <<tries, lock, aged, file, tmp, copy, applied, stolen>>

Next ==
    \/ Age
    \/ \E c \in Caller :
          \/ Acquire(c) \/ FindBusy(c) \/ RemoveStale(c) \/ Retry(c)
          \/ Read(c) \/ Leave(c) \/ Write(c) \/ Rename(c) \/ Unlock(c) \/ Crash(c)

Spec == Init /\ [][Next]_vars

-----------------------------------------------------------------------------
Label == Holding \cup {"open", "remove", "wait", "done", "gave up", "crashed"}

(* The variables hold what they are declared to hold, and a call gives up   *)
(* after MaxRetries attempts.                                               *)
TypeOK ==
    /\ pc \in [Caller -> Label]
    /\ tries \in [Caller -> 0..MaxRetries]
    /\ \A c \in Caller : tries[c] = MaxRetries => pc[c] \in {"gave up", "crashed"}
    /\ lock \in Caller \cup {Nobody}
    /\ aged \in BOOLEAN
    /\ file \subseteq Caller /\ tmp \subseteq Caller /\ applied \subseteq Caller
    /\ copy \in [Caller -> SUBSET Caller]
    /\ stolen \in BOOLEAN

(* Two calls are inside withLock at the same time.                          *)
Overlap == \E c, d \in Holders : c # d

(* As long as no lock of a live holder has been removed, at most one call   *)
(* is inside: crashes, retries and the removal of a dead holder's lock do   *)
(* no harm.                                                                 *)
ExclusiveUnlessStolen == ~stolen => ~Overlap

(* ... and each call is one atomic update: tasks.json holds exactly the     *)
(* updates that were made, none lost, none half done.                       *)
AtomicUnlessStolen == ~stolen => file = applied
=============================================================================
