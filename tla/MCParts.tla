------------------------------ MODULE MCParts ------------------------------
(* TLC's instance of Parts.                                                  *)
EXTENDS Parts, TLC

CONSTANTS a, b, c

(* A file, and patterns of every kind that covers it: a glob covers none.    *)
P(path_, kind) == [base |-> path_, kind |-> kind]
MCFile == {<<"src", "a">>}
MCPattern == {P(<<"src", "a">>, "path"), P(<<"src">>, "path"), P(<<"src">>, "tree"),
              P(<<"src">>, "level")}

(* Every graph of dependencies of three tasks, and a text with a subtask,   *)
(* one with an id that nobody has, one with a malformed one, one in bold.    *)
MCId == {a, b, c}
Plain(d, s) == [deps |-> d, bold |-> FALSE, sub |-> s]
MCText ==
    {Plain(d, {}) : d \in [MCId -> SUBSET MCId]}
    \cup {Plain([t \in MCId |-> IF t = b THEN {a} ELSE {}], {c})}
    \cup {Plain([t \in MCId |-> IF t = a THEN {} ELSE {x}], {}) : x \in {Missing, Malformed}}
    \cup {[deps |-> [t \in MCId |-> IF t = a THEN {} ELSE {a}], bold |-> TRUE, sub |-> {}]}
=============================================================================
