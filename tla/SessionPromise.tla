--------------------------- MODULE SessionPromise ---------------------------
(***************************************************************************)
(* What the session of a party promises to those who drive and judge it:   *)
(* GridBuilder, which runs the phases' definitions in it until one does    *)
(* not go well, Stats, which asks for its last result when it is over, and *)
(* the deployment, whose failure it undoes.  A result that is not ok is    *)
(* there to stay; a run that returns one has left it behind, and one that  *)
(* is ok has none behind it, unless it was forgiven; and no definition but *)
(* the failed one is undone.                                               *)
(***************************************************************************)
EXTENDS Integers, Sequences

CONSTANTS
    Defs,       \* task definitions
    Rollback,   \* per definition: its rollback or NoDef
    NoDef,
    PhaseCount

VARIABLES
    begun,      \* number of phases begun
    outcome,    \* of the last phase: open, ok, failed, or thrown for a Throwable
    lastOk,     \* the last result is ok
    undone,     \* the definitions whose rollback has been run
    forgiven    \* a callable went on after a run of its own had not gone well

promiseVars == <<begun, outcome, lastOk, undone, forgiven>>

Init ==
    /\ begun = 0
    /\ outcome = "ok"
    /\ lastOk = TRUE
    /\ undone = <<>>
    /\ forgiven = FALSE

\* Only a phase that went well is followed by another.
Begin ==
    /\ outcome = "ok" /\ begun < PhaseCount
    /\ begun' = begun + 1
    /\ outcome' = "open"
    /\ UNCHANGED <<lastOk, undone, forgiven>>

\* The first failure, or one after a failure that was forgiven.
Fail(d) ==
    /\ outcome = "open" /\ (lastOk \/ forgiven)
    /\ lastOk' = FALSE
    /\ undone' = IF Rollback[d] = NoDef THEN undone ELSE Append(undone, d)
    /\ UNCHANGED <<begun, outcome, forgiven>>

Forgive ==
    /\ outcome = "open"
    /\ forgiven' = TRUE
    /\ UNCHANGED <<begun, outcome, lastOk, undone>>

End ==
    /\ outcome = "open"
    /\ \/ outcome' = "ok" /\ (lastOk \/ forgiven)
       \/ outcome' = "failed" /\ ~lastOk
       \/ outcome' = "thrown"
    /\ UNCHANGED <<begun, lastOk, undone, forgiven>>

Next == Begin \/ (\E d \in Defs : Fail(d)) \/ Forgive \/ End

Spec == Init /\ [][Next]_promiseVars
=============================================================================
