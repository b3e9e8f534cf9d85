------------------------------- MODULE Specs -------------------------------
(***************************************************************************)
(* From a text to a queue: the plan tool (plan/index.ts, structure.ts,       *)
(* handoff.ts), which has a spec written and saves it, and coordinate, which *)
(* reads a spec, validates it and hands its tasks to workers.  Both parse    *)
(* with spec-parser.ts and validate with spec-validator.ts, whose search for *)
(* cycles is modelled visit by visit.                                        *)
(*                                                                          *)
(* A text is what the properties tell apart: the ids on each task's "Depends *)
(* on" line, whether its labels are set in bold (as the README's are), and   *)
(* which tasks have a subtask's id.  What a planner or a person writes is    *)
(* any of Text.                                                              *)
(***************************************************************************)
EXTENDS Naturals, Sequences, SequencesExt

CONSTANTS
    Id,         \* ids of the spec's tasks
    Missing,    \* a well-formed id that no task has
    Malformed,  \* a word that is no id, such as TASK-1
    Text,       \* the texts there may be
    MaxRetries  \* maxRetries of structureTasks

TextRecord == [deps : [Id -> SUBSET (Id \cup {Missing, Malformed})], bold : BOOLEAN,
               sub : SUBSET Id]

ASSUME SpecsAssumption ==
    /\ Missing \notin Id /\ Malformed \notin Id
    /\ Text \subseteq TextRecord
    /\ MaxRetries \in Nat

VARIABLES
    stage,    \* "idle", "structure", "saved", "coordinate", "running", "refused"
    text,     \* the text at hand
    retries,  \* of structureTasks
    search,   \* state of detectCircularDependencies
    done,     \* tasks that workers have done
    meant     \* the text as it was written (not in the code)

specsVars == <<stage, text, retries, search, done, meant>>

NoText   == [deps |-> [t \in Id |-> {}], bold |-> FALSE, sub |-> {}]
NoSearch == [visited |-> {}, path |-> << >>, left |-> << >>, cyclic |-> FALSE]

SpecsInit ==
    /\ stage = "idle" /\ text = NoText /\ retries = 0
    /\ search = NoSearch /\ done = {} /\ meant = NoText

-----------------------------------------------------------------------------
(* parseSpec: a label in bold is not recognised, and its line becomes part  *)
(* of the description; a word that is no id is dropped.                      *)
DependsOn == [t \in Id |-> IF text.bold THEN {} ELSE text.deps[t] \ {Malformed}]

(* What parseSpec reads and serializeSpec writes.                           *)
Serialized == [text EXCEPT !.deps = DependsOn, !.bold = FALSE]

-----------------------------------------------------------------------------
Validating == stage \in {"structure", "coordinate"}

VisitRoot(t) ==
    /\ Validating /\ search.path = << >> /\ t \notin search.visited
    /\ search' = [search EXCEPT !.visited = @ \cup {t}, !.path = <<t>>,
                                !.left = <<DependsOn[t]>>]
    /\ UNCHANGED <<stage, text, retries, done, meant>>

Passed(d) == [search EXCEPT !.left[Len(search.left)] = @ \ {d}]

Pushed(d) == [search EXCEPT !.visited = @ \cup {d}, !.path = Append(@, d),
                            !.left = Append(Passed(d).left,
                                            IF d \in Id THEN DependsOn[d] ELSE {})]

(* Bug: what has been visited is looked at no more, though it may be on the *)
(* path.                                                                    *)
VisitUnlessVisited(d) ==
    /\ Validating /\ search.path # << >> /\ d \in Last(search.left)
    /\ search' = IF d \in search.visited THEN Passed(d) ELSE Pushed(d)
    /\ UNCHANGED <<stage, text, retries, done, meant>>

VisitDependency(d) ==
    /\ Validating /\ search.path # << >> /\ d \in Last(search.left)
    /\ search' = IF d \in ToSet(search.path) THEN [Passed(d) EXCEPT !.cyclic = TRUE]
                 ELSE IF d \in search.visited THEN Passed(d) ELSE Pushed(d)
    /\ UNCHANGED <<stage, text, retries, done, meant>>

LeaveTask ==
    /\ Validating /\ search.path # << >> /\ Last(search.left) = {}
    /\ search' = [search EXCEPT !.path = Front(@), !.left = Front(@)]
    /\ UNCHANGED <<stage, text, retries, done, meant>>

Searched == Validating /\ search.path = << >> /\ Id \subseteq search.visited

TopLevel == Id \ text.sub

Valid ==
    /\ \A t \in Id : DependsOn[t] \subseteq Id
    /\ ~search.cyclic
    /\ TopLevel = {} \/ \E t \in TopLevel : DependsOn[t] = {}

-----------------------------------------------------------------------------
(* structureTasks: the planner writes a spec, again when it is not valid,   *)
(* until its retries are used up; the last one is saved whether valid or    *)
(* not.  The human's choice at the end starts nothing.                       *)
Write ==
    /\ stage = "idle"
    /\ stage' = "structure" /\ text' \in Text /\ meant' = text'
    /\ UNCHANGED <<retries, search, done>>

WriteAgain ==
    /\ stage = "structure" /\ Searched /\ ~Valid /\ retries < MaxRetries
    /\ retries' = retries + 1 /\ text' \in Text /\ meant' = text' /\ search' = NoSearch
    /\ UNCHANGED <<stage, done>>

Save ==
    /\ stage = "structure" /\ Searched /\ (Valid \/ retries = MaxRetries)
    /\ stage' = "saved" /\ text' = Serialized /\ search' = NoSearch
    /\ UNCHANGED <<retries, done, meant>>

(* coordinate is called with what the plan tool saved, or with any file.    *)
Coordinate ==
    /\ \/ stage = "saved" /\ UNCHANGED <<text, meant>>
       \/ stage = "idle" /\ text' \in Text /\ meant' = text'
    /\ stage' = "coordinate"
    /\ UNCHANGED <<retries, search, done>>

Refuse ==
    /\ stage = "coordinate" /\ Searched /\ ~Valid
    /\ stage' = "refused"
    /\ UNCHANGED <<text, retries, search, done, meant>>

Accept ==
    /\ stage = "coordinate" /\ Searched /\ Valid
    /\ stage' = "running"
    /\ UNCHANGED <<text, retries, search, done, meant>>

-----------------------------------------------------------------------------
(* getNextTask: a subtask waits until its parent is blocked, which it is    *)
(* only while it waits for subtasks that its own worker has asked for.       *)
Ready == {t \in Id \ done : DependsOn[t] \subseteq done /\ t \notin text.sub}

DoTask(t) ==
    /\ stage = "running" /\ t \in Ready
    /\ done' = done \cup {t}
    /\ UNCHANGED <<stage, text, retries, search, meant>>

SpecsNext ==
    \/ Write \/ WriteAgain \/ Save \/ Coordinate \/ Refuse \/ Accept \/ LeaveTask
    \/ \E t \in Id : VisitRoot(t) \/ DoTask(t)
    \/ \E d \in Id \cup {Missing} : VisitDependency(d)

-----------------------------------------------------------------------------
SpecsTypeOK ==
    /\ stage \in {"idle", "structure", "saved", "coordinate", "running", "refused"}
    /\ text \in TextRecord /\ meant \in TextRecord
    /\ retries \in 0..MaxRetries
    /\ search.visited \subseteq Id \cup {Missing}
    /\ Len(search.path) = Len(search.left) /\ IsInjective(search.path)
    /\ done \subseteq Id

(* If it has no subtasks it can be worked to its end: whatever has been     *)
(* done, as long as something is left some task can be handed out.           *)
AcceptedCanFinish ==
    stage = "running" /\ done # Id /\ text.sub = {} => Ready # {}

(* A task is handed out only after those that its spec was written to wait   *)
(* for ("Depends on: Task IDs or none", README.md).  With the labels in bold, *)
(* as the README's own example has them, every one of them is lost.          *)
WrittenOrderIsKept ==
    ~meant.bold => \A t \in done : meant.deps[t] \cap Id \subseteq done

(* Through retries, the saved file, a second reading and the validation:     *)
(* what coordinate accepts can be worked off, in the order it was written in.*)
AcceptedIsWorkedOff == AcceptedCanFinish /\ WrittenOrderIsKept
=============================================================================
