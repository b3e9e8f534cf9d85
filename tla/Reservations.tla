---------------------------- MODULE Reservations ----------------------------
(***************************************************************************)
(* File reservations: state.ts (reserveFiles, checkReservation,             *)
(* releaseFiles, transferReservation), the file_reservations tool and the   *)
(* tool_call handler of the workers, and the coordinator's assign_files and *)
(* spawn_workers.  Every write holds the lock "reservations" (module        *)
(* FileLock), so an operation on the directory is one step; a worker's edit *)
(* is two, the check and the edit.                                          *)
(*                                                                          *)
(* A path is a sequence of names.  A pattern is a base path and a kind:     *)
(* "path" for base itself, "tree" for base/**, "level" for base/*, "glob"   *)
(* for base/*.ts and the like.                                              *)
(***************************************************************************)
EXTENDS Naturals, FiniteSets, Sequences, SequencesExt

CONSTANTS
    Agent,        \* identities of workers
    Logical,      \* logical names of workers to be
    File,         \* paths that are edited
    Pattern,      \* patterns that are asked for
    MaxReserved   \* bound: reservations made in one run

ASSUME ReservationsAssumption ==
    /\ File \subseteq Seq(STRING)
    /\ Pattern \subseteq [base : Seq(STRING), kind : {"path", "tree", "level", "glob"}]
    /\ Agent \cap Logical = {}
    /\ MaxReserved \in Nat

VARIABLES
    reserved,       \* active reservations: neither released nor expired
    made,           \* number of reservations ever made, and the last one's id
    preAssignments, \* in state.json: the reservation made for a logical name, or 0
    edit,           \* what each worker is editing: see NoEdit
    ended           \* workers that have ended, complete or not

filesVars == <<reserved, made, preAssignments, edit, ended>>

Owner == Agent \cup Logical   \* "pre:<logical name>" is an owner too

Reservation == [id : 1..MaxReserved, agent : Owner, patterns : SUBSET Pattern,
                exclusive : BOOLEAN]

NoEdit == [file |-> << >>, known |-> {}]

FilesInit ==
    /\ reserved = {}
    /\ made = 0
    /\ preAssignments = [l \in Logical |-> 0]
    /\ edit = [a \in Agent |-> NoEdit]
    /\ ended = {}

-----------------------------------------------------------------------------
Written(p) == p.base \o CASE p.kind = "path"  -> << >>
                       [] p.kind = "tree"  -> <<"**">>
                       [] p.kind = "level" -> <<"*">>
                       [] p.kind = "glob"  -> <<"*.ts">>

(* The regular expression made of a glob leaves its star unescaped: it      *)
(* matches no path.                                                         *)
SimpleMatch(s, p) ==
    \/ s = Written(p)
    \/ p.kind = "tree"  /\ IsPrefix(p.base, s)
    \/ p.kind = "level" /\ IsPrefix(p.base, s) /\ Len(s) = Len(p.base) + 1
    \/ p.kind = "path"  /\ (IsPrefix(p.base, s) \/ IsPrefix(s, p.base))

(* Bug: only the new patterns are matched against the old ones.             *)
OneWayOverlap(ps, qs) ==
    \E p \in ps, q \in qs : p = q \/ SimpleMatch(Written(q), p)

PatternsOverlap(ps, qs) ==
    \E p \in ps, q \in qs : p = q \/ SimpleMatch(Written(p), q) \/ SimpleMatch(Written(q), p)

MatchesPatterns(f, ps) == \E p \in ps : SimpleMatch(f, p)

(* What a pattern of the kinds the tools name stands for.                   *)
Covers(p, f) ==
    \/ p.kind \in {"path", "tree"} /\ IsPrefix(p.base, f)
    \/ p.kind = "level" /\ IsPrefix(p.base, f) /\ Len(f) = Len(p.base) + 1

Holds(r, f) == \E p \in r.patterns : Covers(p, f)

(* What is edited is a file, and nothing is asked for below a file; nor is  *)
(* one named as a glob is written.                                          *)
ASSUME FilesAreFiles ==
    \A f \in File, p \in Pattern :
        /\ IsPrefix(f, p.base) => p.base = f /\ p.kind = "path"
        /\ p.kind = "glob" => f # Written(p)

-----------------------------------------------------------------------------
Conflict(agent, ps, exclusive) ==
    \E r \in reserved : /\ r.agent # agent
                        /\ r.exclusive \/ exclusive
                        /\ PatternsOverlap(r.patterns, ps)

ReserveFiles(agent, ps, exclusive) ==
    /\ made < MaxReserved
    /\ ~Conflict(agent, ps, exclusive)
    /\ made' = made + 1
    /\ reserved' = reserved \cup {[id |-> made + 1, agent |-> agent, patterns |-> ps,
                                   exclusive |-> exclusive]}

Acquire(a) ==
    /\ \E p \in Pattern, exclusive \in BOOLEAN : ReserveFiles(a, {p}, exclusive)
    /\ UNCHANGED <<preAssignments, edit, ended>>

(* Whatever patterns it is given, releaseFiles releases all that the agent  *)
(* holds; agent_work complete calls it too.                                 *)
Release(a) ==
    /\ \E r \in reserved : r.agent = a
    /\ reserved' = {r \in reserved : r.agent # a}
    /\ UNCHANGED <<made, preAssignments, edit, ended>>

Expire ==
    /\ \E r \in reserved : reserved' = reserved \ {r}
    /\ UNCHANGED <<made, preAssignments, edit, ended>>

(* assign_files: a later assignment of the same name replaces the entry,    *)
(* not the reservation.                                                     *)
AssignFiles(l) ==
    /\ \E p \in Pattern : ReserveFiles(l, {p}, TRUE)
    /\ preAssignments' = [preAssignments EXCEPT ![l] = made + 1]
    /\ UNCHANGED <<edit, ended>>

(* spawn_workers gives the worker it starts the reservation of its logical  *)
(* name, if it is still there; the entry stays, for another worker once     *)
(* this one has ended.                                                      *)
TransferReservation(l, a) ==
    /\ \E r \in reserved :
          /\ r.id = preAssignments[l]
          /\ r.agent \in ended \cup Logical
          /\ reserved' = (reserved \ {r}) \cup {[r EXCEPT !.agent = a]}
    /\ UNCHANGED <<made, preAssignments, edit, ended>>

-----------------------------------------------------------------------------
(* The reservations that checkReservation may return: the first that        *)
(* matches, in the directory's order, which is any; none if none does.      *)
Checked(f) == {r \in reserved : MatchesPatterns(f, r.patterns)}

(* Bug: only a reservation of just this path is looked at.                  *)
AllowsNamed(a, f) ==
    \A r \in reserved : [base |-> f, kind |-> "path"] \in r.patterns /\ r.exclusive => r.agent = a

(* The handler blocks an edit for a reservation that is exclusive and       *)
(* another agent's.                                                         *)
Allows(a, f) == Checked(f) = {} \/ \E r \in Checked(f) : r.agent = a \/ ~r.exclusive

StartEdit(a) ==
    /\ edit[a] = NoEdit
    /\ \E f \in File :
          /\ Allows(a, f)
          /\ edit' = [edit EXCEPT ![a] = [file |-> f, known |-> reserved]]
    /\ UNCHANGED <<reserved, made, preAssignments, ended>>

EndEdit(a) ==
    /\ edit[a] # NoEdit
    /\ edit' = [edit EXCEPT ![a] = NoEdit]
    /\ UNCHANGED <<reserved, made, preAssignments, ended>>

(* Only agent_work complete releases what a worker holds: a worker that     *)
(* crashes keeps it until it expires.                                       *)
End(a) ==
    /\ ended' = ended \cup {a}
    /\ edit' = [edit EXCEPT ![a] = NoEdit]
    /\ UNCHANGED <<reserved, made, preAssignments>>

FilesNext ==
    \/ Expire
    \/ \E l \in Logical : AssignFiles(l)
    \/ \E a \in Agent \ ended :
          \/ Acquire(a) \/ Release(a) \/ StartEdit(a) \/ EndEdit(a) \/ End(a)
          \/ \E l \in Logical : TransferReservation(l, a)

-----------------------------------------------------------------------------
FilesTypeOK ==
    /\ reserved \subseteq Reservation
    /\ made \in 0..MaxReserved
    /\ preAssignments \in [Logical -> 0..MaxReserved]
    /\ ended \subseteq Agent
    /\ \A a \in Agent : edit[a].file \in File \cup {<< >>} /\ edit[a].known \subseteq Reservation

(* What nobody will release: a pre-assignment that was replaced before it   *)
(* was handed over, a reservation of a worker that has ended.               *)
Abandoned(r) ==
    \/ r.agent \in Logical /\ r.id # preAssignments[r.agent]
    \/ r.agent \in ended

(* While a file is reserved exclusively nobody else has a reservation of    *)
(* it, however the patterns of the two are written (globs apart), and       *)
(* whoever was given whose reservation meanwhile (abandoned ones apart).     *)
ExclusiveMeansAlone ==
    \A r, s \in {r \in reserved : ~Abandoned(r)}, f \in File :
        r.agent # s.agent /\ r.exclusive => ~(Holds(r, f) /\ Holds(s, f))

(* Another's exclusive reservation, known when the edit was checked.         *)
Trespasses(a) ==
    {r \in edit[a].known : /\ r.agent # a /\ r.exclusive
                          /\ Holds(r, edit[a].file) /\ ~Abandoned(r)}

(* Nobody edits a file that was another's exclusively when the edit was     *)
(* checked: unless a shared reservation of it was found first, a second one *)
(* of that other or what an ended worker has left behind.                    *)
EditsAreChecked ==
    \A a \in Agent : \A r \in Trespasses(a) :
        \E s \in edit[a].known : /\ s.agent = r.agent \/ s.agent \in ended
                                 /\ ~s.exclusive /\ Holds(s, edit[a].file)
=============================================================================
