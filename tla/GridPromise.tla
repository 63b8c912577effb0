----------------------------- MODULE GridPromise -----------------------------
(***************************************************************************)
(* What the computing grid promises to those who hold its futures: the     *)
(* cells of a column are decided one after the other, each once and for    *)
(* all; after a failure there are only failures; and the end is declared   *)
(* when everything is decided.                                             *)
(***************************************************************************)
EXTENDS Integers

CONSTANTS PartyCount, PhaseCount

VARIABLES
    cell,           \* the outcome of each cell
    over            \* the owner has been told that all parties finished

promiseVars == <<cell, over>>

Columns == 0 .. PartyCount - 1
Phases == 0 .. PhaseCount - 1

Init ==
    /\ cell = [c \in Phases \X Columns |-> "pending"]
    /\ over = FALSE

\* Decide the first open cell of a column.
Decide(r, p, outcome) ==
    /\ cell[<<r, p>>] = "pending"
    /\ \A q \in Phases : q < r => cell[<<q, p>>] # "pending"
    /\ outcome = "ok" => \A q \in Phases : cell[<<q, p>>] # "failed"
    /\ cell' = [cell EXCEPT ![<<r, p>>] = outcome]
    /\ UNCHANGED over

DeclareOver ==
    /\ \A c \in Phases \X Columns : cell[c] # "pending"
    /\ over' = TRUE
    /\ UNCHANGED cell

Next ==
    \/ \E r \in Phases, p \in Columns, outcome \in {"ok", "failed"} : Decide(r, p, outcome)
    \/ DeclareOver

Spec == Init /\ [][Next]_promiseVars
=============================================================================
