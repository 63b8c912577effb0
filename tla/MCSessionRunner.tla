--------------------------- MODULE MCSessionRunner ---------------------------
(* A deployment in two phases: "checkout" and "start" share a dependency and *)
(* a rollback, "setup" runs "plugin" itself, "legacy" is for other hosts.    *)
EXTENDS SessionRunner

MCDefs == {"setup", "plugin", "legacy", "checkout", "find", "notify", "start", "undo"}

None == [d \in MCDefs |-> <<>>]

MCTasks ==
    [depends |-> [None EXCEPT !["checkout"] = <<"setup">>, !["start"] = <<"legacy", "find">>],
     before  |-> [None EXCEPT !["checkout"] = <<"find">>, !["undo"] = <<"find">>],
     after   |-> [None EXCEPT !["checkout"] = <<"legacy", "notify">>]]

MCCallables == [d \in MCDefs |-> IF d = "start" THEN 2 ELSE 1]

MCInner == [d \in MCDefs |-> IF d = "setup" THEN {"plugin"} ELSE {}]

MCRollback ==
    [d \in MCDefs |-> IF d \in {"checkout", "start", "notify", "plugin"} THEN "undo" ELSE NoDef]

MCHere == MCDefs \ {"legacy"}

MCScript == <<"checkout", "start">>

(* The refinement mapping onto SessionPromise: a phase is open while calls   *)
(* are on the stack, and then ended as the first of them did.                *)
Outcome ==
    CASE stack # <<>> -> "open"
      [] stack = <<>> /\ returned \in {"none", "ok"} -> "ok"
      [] stack = <<>> /\ returned = "error" -> "failed"
      [] stack = <<>> /\ returned \in {"BearException", "Error"} -> "thrown"

Promise == INSTANCE SessionPromise WITH
    begun <- phase,
    outcome <- Outcome,
    lastOk <- (myLastResult = "ok"),
    PhaseCount <- Len(Script)

\* A session implements the promise: of all the results and rollbacks of the
\* calls that runWithDependencies nests, the first failure is what remains, is
\* what the phase ends with and what is undone, and it ends the session; a
\* failure that a callable has forgiven is never taken back.
ImplementsPromise == Promise!Spec
=============================================================================
