------------------------------ MODULE Detached ------------------------------
(***************************************************************************)
(* Coordinations in a process of their own, so that the one that asked may   *)
(* go: background runs (background-runner.ts, background-run-child.ts), which *)
(* leave a status.json that parent and child both write in place, and         *)
(* asynchronous runs (async-runner.ts), whose result is a file, renamed into  *)
(* a directory that the asking process watches (ensureAsyncWatcher).          *)
(*                                                                          *)
(* The asking process may die and come back with another pid.                *)
(***************************************************************************)
EXTENDS Naturals

CONSTANTS
    Detach,     \* detached runs
    Dir,        \* working directories that coordinate is called in
    Nowhere,    \* no directory: nothing is watched yet
    MaxPids,    \* bound: asking processes, one after the other
    MaxEvents   \* bound: rename events the system reports of one file

ASSUME DetachedAssumption == Nowhere \notin Dir /\ {MaxPids, MaxEvents} \subseteq Nat \ {0}

VARIABLES
    pid,      \* the asking process
    watcher,  \* the directory its watcher was made for, or Nowhere
    detached  \* each run: see DetachedRun

detachedVars == <<pid, watcher, detached>>

Status == {"none", "torn", "running", "complete", "failed"}

DetachedRun ==
    [mode   : {"none", "background", "async"},
     asked  : {"none", "call", "spawned", "opened", "done"},  \* the caller's progress
     owner  : 0..MaxPids,                                     \* parentPid
     cwd    : Dir \cup {Nowhere},
     child  : {"none", "running", "read", "opened", "ended", "killed"},
     final  : {"none", "complete", "failed"},                 \* what the child reports
     status : Status,                                         \* status.json of a background run
     result : BOOLEAN,                                        \* result file of an asynchronous one
     events : 0..MaxEvents,                                   \* timers of the watcher
     told   : SUBSET (1..MaxPids),                            \* processes that were told
     raced  : BOOLEAN]  \* the child reported before its parent had written (not in the code)

NotAsked == [mode |-> "none", asked |-> "none", owner |-> 0, cwd |-> Nowhere, child |-> "none",
             final |-> "none", status |-> "none", result |-> FALSE, events |-> 0, told |-> {},
             raced |-> FALSE]

DetachedInit ==
    /\ pid = 1 /\ watcher = Nowhere
    /\ detached = [r \in Detach |-> NotAsked]

Becomes(r, run) == detached' = [detached EXCEPT ![r] = run]

-----------------------------------------------------------------------------
(* coordinate with background: "running" is on file before the child is.     *)
AskBackground(r) ==
    /\ detached[r].mode = "none"
    /\ Becomes(r, [NotAsked EXCEPT !.mode = "background", !.asked = "call", !.owner = pid,
                                   !.status = "running"])
    /\ UNCHANGED <<pid, watcher>>

(* coordinate with async: the first call makes the watcher, for its own      *)
(* directory, and looks through the results there are: old ones go, those of *)
(* other processes stay.                                                     *)
AskAsync(r, cwd) ==
    /\ detached[r].mode = "none"
    /\ \E stale \in SUBSET {s \in Detach : detached[s].result /\ watcher = Nowhere} :
          detached' = [s \in Detach |->
              IF s = r THEN [NotAsked EXCEPT !.mode = "async", !.asked = "call", !.owner = pid,
                                             !.cwd = cwd]
              ELSE [detached[s] EXCEPT !.result = @ /\ s \notin stale]]
    /\ watcher' = IF watcher = Nowhere THEN cwd ELSE watcher
    /\ UNCHANGED pid

Mine(r) == detached[r].owner = pid

SpawnChild(r) ==
    /\ Mine(r) /\ detached[r].asked = "call"
    /\ Becomes(r, [detached[r] EXCEPT !.child = "running",
                       !.asked = IF detached[r].mode = "async" THEN "done" ELSE "spawned"])
    /\ UNCHANGED <<pid, watcher>>

(* Only now is the child's pid known, and the file is written once more.     *)
OpenStatus(r) ==
    /\ Mine(r) /\ detached[r].asked = "spawned"
    /\ Becomes(r, [detached[r] EXCEPT !.asked = "opened", !.status = "torn"])
    /\ UNCHANGED <<pid, watcher>>

WritePid(r) ==
    /\ Mine(r) /\ detached[r].asked = "opened"
    /\ Becomes(r, [detached[r] EXCEPT !.asked = "done", !.status = "running"])
    /\ UNCHANGED <<pid, watcher>>

-----------------------------------------------------------------------------
(* The run of a background child ends, well or not (an exception, too), and  *)
(* markRunComplete or markRunFailed reads the file; one that cannot be parsed *)
(* is left as it is.                                                         *)
ReadStatus(r) ==
    /\ detached[r].mode = "background" /\ detached[r].child = "running"
    /\ \E how \in {"complete", "failed"} :
          Becomes(r, [detached[r] EXCEPT !.final = how, !.raced = detached[r].asked # "done",
                          !.child = IF detached[r].status = "torn" THEN "ended" ELSE "read"])
    /\ UNCHANGED <<pid, watcher>>

OpenFinal(r) ==
    /\ detached[r].child = "read"
    /\ Becomes(r, [detached[r] EXCEPT !.child = "opened", !.status = "torn"])
    /\ UNCHANGED <<pid, watcher>>

WriteFinal(r) ==
    /\ detached[r].child = "opened"
    /\ Becomes(r, [detached[r] EXCEPT !.child = "ended", !.status = detached[r].final])
    /\ UNCHANGED <<pid, watcher>>

(* Who watches the directory hears of the new name, perhaps more than once.  *)
Reported(r, how, file) ==
    [detached[r] EXCEPT !.child = "ended", !.final = how, !.result = file,
                        !.events = IF file /\ watcher # Nowhere THEN MaxEvents ELSE 0]

(* Bug: an exception ends the child before it has written its result.        *)
ReportSuccess(r) ==
    /\ detached[r].mode = "async" /\ detached[r].child = "running"
    /\ \E how \in {"complete", "failed"} : Becomes(r, Reported(r, how, how = "complete"))
    /\ UNCHANGED <<pid, watcher>>

Report(r) ==
    /\ detached[r].mode = "async" /\ detached[r].child = "running"
    /\ \E how \in {"complete", "failed"} : Becomes(r, Reported(r, how, TRUE))
    /\ UNCHANGED <<pid, watcher>>

-----------------------------------------------------------------------------
(* handleResult, 50 ms after an event: what is another process's, or was     *)
(* asked in another directory, stays; the rest is told and removed.          *)
ForMe(r) == Mine(r) /\ detached[r].cwd = watcher

HandleResult(r) ==
    /\ detached[r].events > 0
    /\ Becomes(r, IF detached[r].result /\ ForMe(r)
                  THEN [detached[r] EXCEPT !.events = @ - 1, !.result = FALSE, !.told = @ \cup {pid}]
                  ELSE [detached[r] EXCEPT !.events = @ - 1])
    /\ UNCHANGED <<pid, watcher>>

-----------------------------------------------------------------------------
KillChild(r) ==
    /\ detached[r].child \in {"running", "read", "opened"}
    /\ Becomes(r, [detached[r] EXCEPT !.child = "killed"])
    /\ UNCHANGED <<pid, watcher>>

(* The asking process dies; the children do not.                             *)
Restart ==
    /\ pid < MaxPids
    /\ pid' = pid + 1 /\ watcher' = Nowhere
    /\ detached' = [r \in Detach |-> [detached[r] EXCEPT !.events = 0]]

CallerStep(r) == SpawnChild(r) \/ OpenStatus(r) \/ WritePid(r) \/ HandleResult(r)
ChildStep(r) == ReadStatus(r) \/ OpenFinal(r) \/ WriteFinal(r) \/ Report(r)

DetachedNext ==
    \/ Restart
    \/ \E r \in Detach : \/ AskBackground(r) \/ \E cwd \in Dir : AskAsync(r, cwd)
                         \/ CallerStep(r) \/ ChildStep(r) \/ KillChild(r)

(* Both event loops go on; a run comes to its end (Session's Returns).  A    *)
(* detached run takes finitely many of these steps.                          *)
DetachedFair == WF_detachedVars(\E r \in Detach : CallerStep(r) \/ ChildStep(r))

-----------------------------------------------------------------------------
(* Nobody but the process that asked is told of a result.                    *)
DetachedTypeOK ==
    /\ pid \in 1..MaxPids /\ watcher \in Dir \cup {Nowhere}
    /\ detached \in [Detach -> DetachedRun]
    /\ \A r \in Detach : detached[r].told \subseteq {detached[r].owner}

Shown(r) == detached[r].status \in {"complete", "failed"}

(* A background run shows its end if it was started, though its caller may  *)
(* be gone, and its child did not meet the parent's second write; an         *)
(* asynchronous one tells the process that asked, unless that is gone or has *)
(* made its watcher for another directory.                                   *)
Known(r) ==
    \/ detached[r].child = "killed"
    \/ /\ detached[r].mode = "background"
       /\ \/ detached[r].child = "none" /\ ~Mine(r)
          \/ detached[r].child = "ended" /\ (Shown(r) \/ detached[r].raced)
    \/ /\ detached[r].mode = "async"
       /\ \/ ~Mine(r)
          \/ detached[r].child = "ended" /\ (pid \in detached[r].told \/ detached[r].cwd # watcher)

Asked == {r \in Detach : detached[r].mode # "none"}

(* No run that has been asked for ends unnoticed, unless its child is killed.*)
EndIsKnown == Asked # {} ~> \A r \in Asked : Known(r)
=============================================================================
