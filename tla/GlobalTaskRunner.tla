-------------------------- MODULE GlobalTaskRunner --------------------------
(***************************************************************************)
(* One run of a script: bear.core.GlobalTaskRunner on top of the grid, the *)
(* callables GridBuilder puts in the cells, and the thread that started    *)
(* the run (BearMain.run, or FXConf.interpret when the run is interactive).*)
(*                                                                         *)
(* The bodies of the grid's listeners are filled in: whenAllFinished calls *)
(* the registered callbacks and opens finishedLatch; partyFinishListener   *)
(* is SessionContext.whenSessionComplete, which counts the party in Stats  *)
(* (atomic integers and plain fields) and in arrivedCount.  The listeners  *)
(* of the pool threads run concurrently with each other and with the       *)
(* starting thread.                                                        *)
(***************************************************************************)
EXTENDS ComputingGrid

VARIABLES
    lastOk,         \* per party: SessionRunner.myLastResult.ok()
    lpc,            \* where each party stands in the body of a listener
    reg,            \* per party: the value being computed in Stats.addArrival
    statArrived,    \* Stats.partiesArrived
    statOk,         \* Stats.partiesOk
    statPending,    \* Stats.partiesPending, a plain field
    statFailed,     \* Stats.partiesFailed, a plain field
    arrivedCount,   \* GlobalTaskRunner.arrivedCount
    listening,      \* the listener of arrivedCount has been added
    callbacks,      \* length of whenAllFinishedList
    cleanups,       \* how often the registered callback has run
    latchOpen,      \* finishedLatch has been counted down
    inScope,        \* global.currentGlobalRunner is this run
    main,           \* where the starting thread stands
    verdict         \* what throwIfAnyFailed told it: none, clean or failed

statVars == <<statArrived, statOk, statPending, statFailed>>
scopeVars == <<arrivedCount, listening, inScope>>
latchVars == <<callbacks, cleanups, latchOpen>>
mainVars == <<main, verdict>>
runVars == <<lastOk, lpc, reg, statVars, scopeVars, latchVars, mainVars>>
vars == <<gridVars, runVars>>

RunInit ==
    /\ Init
    /\ lastOk = [p \in Parties |-> TRUE]
    /\ lpc = [p \in Parties |-> "none"]
    /\ reg = [p \in Parties |-> 0]
    /\ statArrived = 0
    /\ statOk = 0
    /\ statPending = PartyCount
    /\ statFailed = 0
    /\ arrivedCount = 0
    /\ listening = FALSE
    /\ callbacks = 0
    /\ cleanups = 0
    /\ latchOpen = FALSE
    /\ inScope = TRUE
    /\ main = "starting"
    /\ verdict = "none"

In(p, listener, from, to) ==
    /\ pc[p] = listener
    /\ lpc[p] = from
    /\ lpc' = [lpc EXCEPT ![p] = to]

-----------------------------------------------------------------------------
(* The callable of a cell (GridBuilder) *)

\* myLastResult is not ok any more, or stays what it was: SessionRunner says
\* which, and why a task that fails always changes it.
MayLoseLastOk(p) == lastOk' \in {lastOk, [lastOk EXCEPT ![p] = FALSE]}

\* $.run(def) returned an ok result.  A task of the setup that failed on the way
\* may have left its own result as the last one.
TaskOk(p) ==
    /\ CallReturns(p)
    /\ MayLoseLastOk(p)
    /\ UNCHANGED <<lpc, reg, statVars, scopeVars, latchVars, mainVars>>

\* A result that is not ok: SessionRunner has kept it as myLastResult, and it
\* is thrown as a PartyResultException.
TaskFails(p) ==
    /\ CallThrows(p)
    /\ lastOk' = [lastOk EXCEPT ![p] = FALSE]
    /\ UNCHANGED <<lpc, reg, statVars, scopeVars, latchVars, mainVars>>

\* A Throwable that SessionRunner does not turn into a result, an
\* AssertionError of the task for one: unless a task had failed before it,
\* myLastResult stays what it was.
TaskThrows(p) ==
    /\ CallThrows(p)
    /\ MayLoseLastOk(p)
    /\ UNCHANGED <<lpc, reg, statVars, scopeVars, latchVars, mainVars>>

-----------------------------------------------------------------------------
(* whenAllFinished *)

\* The for loop over whenAllFinishedList begins: reg holds the list's size.
BeginCallbacks(p) ==
    /\ In(p, "notifying", "none", "looping")
    /\ reg' = [reg EXCEPT ![p] = callbacks]
    /\ UNCHANGED <<gridVars, lastOk, statVars, scopeVars, latchVars, mainVars>>

\* Faulty: the latch is opened by the loop, once per callback.
OpenLatchInLoop(p) ==
    /\ \/ In(p, "notifying", "looped", "none") /\ AllFinishedReturns(p)
       \/ In(p, "notifying", "thrown", "none") /\ AllFinishedThrows(p)
    /\ latchOpen' = (callbacks > 0)
    /\ UNCHANGED <<lastOk, reg, statVars, scopeVars, callbacks, cleanups, mainVars>>

\* Every registered callback runs; a list that grew since the loop began ends
\* it with a ConcurrentModificationException.
RunCallbacks(p) ==
    /\ IF callbacks = reg[p]
         THEN /\ cleanups' = cleanups + callbacks
              /\ In(p, "notifying", "looping", "looped")
         ELSE /\ cleanups' = cleanups
              /\ In(p, "notifying", "looping", "thrown")
    /\ UNCHANGED <<gridVars, lastOk, reg, statVars, scopeVars, callbacks, latchOpen, mainVars>>

\* A registered callback throws.
CallbackThrows(p) ==
    /\ callbacks = reg[p] /\ callbacks > 0
    /\ In(p, "notifying", "looping", "thrown")
    /\ UNCHANGED <<gridVars, lastOk, reg, statVars, scopeVars, latchVars, mainVars>>

\* finally: finishedLatch.countDown(); then the callback's exception, if there
\* was one, leaves the grid's task.
OpenLatch(p) ==
    /\ \/ In(p, "notifying", "looped", "none") /\ AllFinishedReturns(p)
       \/ In(p, "notifying", "thrown", "none") /\ AllFinishedThrows(p)
    /\ latchOpen' = TRUE
    /\ UNCHANGED <<lastOk, reg, statVars, scopeVars, callbacks, cleanups, mainVars>>

-----------------------------------------------------------------------------
(* partyFinishListener: whenSessionComplete and Stats.addArrival *)

StatArrive(p) ==
    /\ In(p, "finishing", "none", "arrived")
    /\ statArrived' = statArrived + 1
    /\ UNCHANGED <<gridVars, lastOk, reg, statOk, statPending, statFailed,
                   scopeVars, latchVars, mainVars>>

ReadPending(p) ==
    /\ In(p, "finishing", "arrived", "pending")
    /\ reg' = [reg EXCEPT ![p] = PartyCount - statArrived]
    /\ UNCHANGED <<gridVars, lastOk, statVars, scopeVars, latchVars, mainVars>>

WritePending(p) ==
    /\ In(p, "finishing", "pending", "result")
    /\ statPending' = reg[p]
    /\ UNCHANGED <<gridVars, lastOk, reg, statArrived, statOk, statFailed,
                   scopeVars, latchVars, mainVars>>

\* Faulty: isOk is ignored.
StatResultAlwaysOk(p) ==
    /\ In(p, "finishing", "result", "minuend")
    /\ statOk' = statOk + 1
    /\ UNCHANGED <<gridVars, lastOk, reg, statArrived, statPending, statFailed,
                   scopeVars, latchVars, mainVars>>

StatResult(p) ==
    /\ In(p, "finishing", "result", "minuend")
    /\ statOk' = IF lastOk[p] THEN statOk + 1 ELSE statOk
    /\ UNCHANGED <<gridVars, lastOk, reg, statArrived, statPending, statFailed,
                   scopeVars, latchVars, mainVars>>

\* partiesFailed = partiesArrived.get() - partiesOk.get(): two reads, one write.
ReadArrived(p) ==
    /\ In(p, "finishing", "minuend", "subtrahend")
    /\ reg' = [reg EXCEPT ![p] = statArrived]
    /\ UNCHANGED <<gridVars, lastOk, statVars, scopeVars, latchVars, mainVars>>

ReadOk(p) ==
    /\ In(p, "finishing", "subtrahend", "failed")
    /\ reg' = [reg EXCEPT ![p] = @ - statOk]
    /\ UNCHANGED <<gridVars, lastOk, statVars, scopeVars, latchVars, mainVars>>

WriteFailed(p) ==
    /\ In(p, "finishing", "failed", "counted")
    /\ statFailed' = reg[p]
    /\ UNCHANGED <<gridVars, lastOk, reg, statArrived, statOk, statPending,
                   scopeVars, latchVars, mainVars>>

CountArrival(p) ==
    /\ In(p, "finishing", "counted", "firing")
    /\ arrivedCount' = arrivedCount + 1
    /\ UNCHANGED <<gridVars, lastOk, reg, statVars, listening, inScope, latchVars, mainVars>>

\* Faulty: the first arrival takes the run out of the scope.
FireFirstArrival(p) ==
    /\ In(p, "finishing", "firing", "none")
    /\ inScope' = (inScope /\ ~listening)
    /\ FinishListenerReturns(p)
    /\ UNCHANGED <<lastOk, reg, statVars, arrivedCount, listening, latchVars, mainVars>>

\* arrivedCount.fireExternalModification(): the listener, if it is there by
\* now, compares the current count and takes the run out of the global scope.
\* What whenSessionComplete still does after that is an event to the UI; that it
\* throws for a party that has run no task changes nothing here.
FireArrival(p) ==
    /\ In(p, "finishing", "firing", "none")
    /\ inScope' = (inScope /\ ~(listening /\ arrivedCount = PartyCount))
    /\ FinishListenerReturns(p)
    /\ UNCHANGED <<lastOk, reg, statVars, arrivedCount, listening, latchVars, mainVars>>

-----------------------------------------------------------------------------
(* The thread that starts the run *)

StartParties ==
    /\ Submit \/ Reject
    /\ UNCHANGED runVars

\* After grid.startParties: arrivedCount.addListener.  The caller is a script
\* that waits for the run, or the UI, which does not.
AddListener ==
    /\ main = "starting" /\ starter = "started"
    /\ main' \in {"waiting", "interactive"}
    /\ listening' = TRUE
    /\ UNCHANGED <<gridVars, lastOk, lpc, reg, statVars, arrivedCount, inScope,
                   latchVars, verdict>>

\* getFinishedLatch().await()
AwaitLatch ==
    /\ main = "waiting" /\ latchOpen
    /\ main' = "returned"
    /\ UNCHANGED <<gridVars, lastOk, lpc, reg, statVars, scopeVars, latchVars, verdict>>

\* runner.throwIfAnyFailed(), as the projects' scripts do with a run's result.
ThrowIfAnyFailed ==
    /\ main = "returned"
    /\ main' = "judged"
    /\ verdict' = IF statFailed > 0 THEN "failed" ELSE "clean"
    /\ UNCHANGED <<gridVars, lastOk, lpc, reg, statVars, scopeVars, latchVars>>

\* runner.whenAllFinished(...), when the asynchronous run is on its way.
RegisterCallback ==
    /\ main = "interactive"
    /\ main' = "registered"
    /\ callbacks' = callbacks + 1
    /\ UNCHANGED <<gridVars, lastOk, lpc, reg, statVars, scopeVars, cleanups, latchOpen, verdict>>

MainStep == AddListener \/ AwaitLatch \/ ThrowIfAnyFailed \/ RegisterCallback

-----------------------------------------------------------------------------
\* The grid's own steps; phaseEnterListener only sends events to the UI here,
\* it does not throw.
GridStep(p) == OwnStep(p) /\ UNCHANGED runVars

CallableStep(p) == TaskOk(p) \/ TaskFails(p) \/ TaskThrows(p)

CallbackStep(p) == BeginCallbacks(p) \/ RunCallbacks(p) \/ CallbackThrows(p) \/ OpenLatch(p)

CompletionStep(p) ==
    \/ StatArrive(p) \/ ReadPending(p) \/ WritePending(p) \/ StatResult(p)
    \/ ReadArrived(p) \/ ReadOk(p) \/ WriteFailed(p)
    \/ CountArrival(p) \/ FireArrival(p)

RunStep(p) == GridStep(p) \/ CallableStep(p) \/ CallbackStep(p) \/ CompletionStep(p)

RunNext == StartParties \/ MainStep \/ \E p \in Parties : RunStep(p)

\* As in the grid: no timeout is obliged to end a wait.
RunFairness ==
    /\ WF_vars(StartParties)
    /\ WF_vars(MainStep)
    /\ \A p \in Parties :
         /\ WF_vars(GridStep(p) \/ CallbackStep(p) \/ CompletionStep(p))
         /\ WF_vars(MayEnd(p) /\ CallableStep(p))

RunSpec == RunInit /\ [][RunNext]_vars

FairRunSpec == RunSpec /\ RunFairness

-----------------------------------------------------------------------------
RunTypeOK ==
    /\ lastOk \in [Parties -> BOOLEAN]
    /\ lpc \in [Parties -> {"none", "looping", "looped", "thrown", "arrived", "pending",
                            "result", "minuend", "subtrahend", "failed", "counted", "firing"}]
    /\ reg \in [Parties -> Int]
    /\ {statArrived, statOk, arrivedCount, callbacks, cleanups} \subseteq Nat
    /\ statPending \in 0 .. PartyCount
    /\ statFailed \in Int
    /\ {listening, latchOpen, inScope} \subseteq BOOLEAN
    /\ main \in {"starting", "waiting", "interactive", "returned", "judged", "registered"}
    /\ verdict \in {"none", "clean", "failed"}

Broken == {p \in Parties : partyState[p] = "BROKEN"}

AllDone == \A p \in Parties : pc[p] = "done"

\* When the starting thread is past the latch, every future of the run can be
\* read without waiting: runner.result() and runner.future().get() do not block.
LatchMeansSettled ==
    latchOpen => \A c \in Cells : fut[c] # "pending"

\* The counters of Stats that are atomic are right in the end, whatever the
\* interleaving: each party whose listener ran is counted once, and as ok when
\* its last result was.  A party misses its listener only if a callback, or the
\* loop over the callbacks, threw.
CountersExact ==
    AllDone =>
        /\ statArrived = Cardinality(reported)
        /\ statOk = Cardinality({p \in reported : lastOk[p]})
        /\ arrivedCount = Cardinality(reported)
        /\ callbacks = 0 => reported = Parties

\* The run leaves the global scope (after which cancelAll answers "not running")
\* only when all parties are past their last cell and counted in Stats.
ScopeKeptWhileRunning ==
    ~inScope => /\ \A p \in Parties : Arrived(p)
                /\ statArrived = PartyCount

\* A script that waits for its run gets it back and the UI's call returns,
\* unless the executor rejects a party.
RunReturns ==
    <>(starter = "rejected" \/ main \in {"judged", "registered"})

\* throwIfAnyFailed throws when a party failed: what the scripts that call it
\* on the result of a run rely on (DeploymentProjectsTests.groovy:38-45).
FailuresAreReported ==
    main = "judged" /\ Broken # {} => verdict = "failed"

\* In the end Stats has counted no broken party as ok, when no callback has kept
\* a party from being counted.
StatsCountBroken ==
    AllDone /\ callbacks = 0 => statOk <= PartyCount - Cardinality(Broken)

\* When all parties have arrived and the listener has been added, the run is out
\* of the global scope ("finally home. removing interactive run from global
\* scope", GlobalTaskRunner.java:156).
FinallyHome ==
    AllDone /\ reported = Parties /\ listening => ~inScope
=============================================================================
