---------------------------- MODULE ComputingGrid ----------------------------
(***************************************************************************)
(* bear.main.phaser.ComputingGrid: a table of phases (rows) and parties    *)
(* (columns).  Every party runs on a pool thread of its own through the    *)
(* phases in order; the outcome of each cell is a future that any other    *)
(* cell may wait for.  A party whose callable throws is broken and takes   *)
(* all its later cells down with it.  The last party to arrive notifies    *)
(* the owner of the grid.                                                  *)
(*                                                                         *)
(* One action per step that another thread can observe: the unsynchronised *)
(* and the synchronised look at phaseEntered, each future that is          *)
(* completed, each access to a counter, each listener.  The bodies of the  *)
(* callables and of the listeners are the environment here; modules that   *)
(* extend this one fill them in.                                           *)
(***************************************************************************)
EXTENDS Integers, Sequences, FiniteSets

CONSTANTS
    PartyCount,     \* columns of the table
    PhaseCount,     \* rows of the table
    PoolSizes,      \* numbers of threads the executor may have for this grid
    Awaits,         \* the cells whose futures each cell's callable waits for
    Errors,         \* BOOLEAN: a callable may throw an Error, not an Exception
    ListenersThrow  \* BOOLEAN: a listener may throw

Parties == 0 .. PartyCount - 1
Rows == 0 .. PhaseCount - 1
Cells == Rows \X Parties

\* ArrayTable takes no empty key list.
ASSUME SizeAssumption ==
    /\ PartyCount \in Nat \ {0}
    /\ PhaseCount \in Nat \ {0}
    /\ PoolSizes \subseteq Nat

ASSUME SwitchAssumption ==
    /\ Errors \in BOOLEAN
    /\ ListenersThrow \in BOOLEAN

\* A callable may only look back, at cells of earlier phases.
ASSUME AwaitsAssumption ==
    /\ Awaits \in [Cells -> SUBSET Cells]
    /\ \A c \in Cells : \A d \in Awaits[c] : d[1] < c[1]

VARIABLES
    poolSize,       \* the threads that other users of the pool leave to this grid
    starter,        \* the thread in startParties: submitting, started, rejected
    submitted,      \* number of parties submitted to the executor
    pc,             \* where each party's thread stands
    row,            \* party.currentPhaseIndex
    failRow,        \* the loop variable of PhaseParty.setException
    partyState,     \* party.state, WAITING or BROKEN
    escaped,        \* history: parties that left by an uncaught Throwable
    fut,            \* the future of each cell
    phaseEntered,   \* the array phaseEntered
    announced,      \* how often phaseEnterListener.handle ended, per phase
    partiesArrived,
    partiesFailed,
    allFinished,    \* failedParties argument of each call of whenAllFinished
    reported        \* parties whose partyFinishListener has returned

startVars == <<poolSize, starter, submitted>>
partyVars == <<row, failRow, partyState, escaped, fut>>
enterVars == <<phaseEntered, announced>>
finishVars == <<partiesArrived, partiesFailed, allFinished, reported>>
gridVars == <<startVars, pc, partyVars, enterVars, finishVars>>

Init ==
    /\ poolSize \in PoolSizes
    /\ starter = "submitting"
    /\ submitted = 0
    /\ pc = [p \in Parties |-> "idle"]
    /\ row = [p \in Parties |-> 0]
    /\ failRow = [p \in Parties |-> 0]
    /\ partyState = [p \in Parties |-> "WAITING"]
    /\ escaped = {}
    /\ fut = [c \in Cells |-> "pending"]
    /\ phaseEntered = [r \in Rows |-> FALSE]
    /\ announced = [r \in Rows |-> 0]
    /\ partiesArrived = 0
    /\ partiesFailed = 0
    /\ allFinished = <<>>
    /\ reported = {}

Goto(p, from, to) ==
    /\ pc[p] = from
    /\ pc' = [pc EXCEPT ![p] = to]

-----------------------------------------------------------------------------
(* startParties, in the calling thread *)

Active == {p \in Parties : pc[p] \notin {"idle", "done"}}

\* service.submit for the next party: a thread is idle or can be created.
Submit ==
    /\ starter = "submitting"
    /\ submitted < PartyCount
    /\ Cardinality(Active) < poolSize
    /\ pc' = [pc EXCEPT ![submitted] = "next"]
    /\ submitted' = submitted + 1
    /\ starter' = IF submitted' = PartyCount THEN "started" ELSE starter
    /\ UNCHANGED <<poolSize, partyVars, enterVars, finishVars>>

\* The SynchronousQueue takes no task when every thread of the pool exists and
\* none is back at the queue: RejectedExecutionException leaves startParties.
Reject ==
    /\ starter = "submitting"
    /\ poolSize <= submitted
    /\ submitted < PartyCount
    /\ starter' = "rejected"
    /\ UNCHANGED <<poolSize, submitted, pc, partyVars, enterVars, finishVars>>

-----------------------------------------------------------------------------
(* The task of one party *)

\* The loop enters the next phase and checkPhaseEntered looks at the array
\* outside the lock: the race allows it to miss a TRUE another thread wrote.
BeginPhase(p) ==
    /\ row[p] < PhaseCount
    /\ \/ Goto(p, "next", "entering")
       \/ phaseEntered[row[p]] /\ Goto(p, "next", "call")
    /\ UNCHANGED <<startVars, partyVars, enterVars, finishVars>>

\* Faulty: no second look under the lock.
EnterUnchecked(p) ==
    /\ Goto(p, "entering", "announcing")
    /\ phaseEntered' = [phaseEntered EXCEPT ![row[p]] = TRUE]
    /\ UNCHANGED <<startVars, partyVars, announced, finishVars>>

\* synchronized (phaseEntered): the second look, and the mark.
EnterPhase(p) ==
    /\ Goto(p, "entering", IF phaseEntered[row[p]] THEN "call" ELSE "announcing")
    /\ phaseEntered' = [phaseEntered EXCEPT ![row[p]] = TRUE]
    /\ UNCHANGED <<startVars, partyVars, announced, finishVars>>

\* phaseEnterListener.handle, outside the lock.
AnnouncePhase(p) ==
    /\ Goto(p, "announcing", "call")
    /\ announced' = [announced EXCEPT ![row[p]] = @ + 1]
    /\ UNCHANGED <<startVars, partyVars, phaseEntered, finishVars>>

\* The listener throws before the inner try: only the outer finally remains.
AnnounceThrows(p) ==
    /\ ListenersThrow
    /\ Goto(p, "announcing", "arriving")
    /\ escaped' = escaped \cup {p}
    /\ UNCHANGED <<startVars, row, failRow, partyState, fut, enterVars, finishVars>>

MyCell(p) == <<row[p], p>>

AwaitedAreDone(p) == \A c \in Awaits[MyCell(p)] : fut[c] # "pending"

\* future.set and future.setException: only the first completion counts.
Complete(c, outcome) ==
    fut' = [fut EXCEPT ![c] = IF @ = "pending" THEN outcome ELSE @]

\* Faulty: the row is advanced before the result is set.
CallReturnsLate(p) ==
    /\ Goto(p, "call", "next")
    /\ AwaitedAreDone(p)
    /\ row' = [row EXCEPT ![p] = @ + 1]
    /\ fut' = [c \in Cells |-> IF c = <<row'[p], p>> THEN "ok" ELSE fut[c]]
    /\ UNCHANGED <<startVars, failRow, partyState, escaped, enterVars, finishVars>>

\* cell.callable.call returns; its result goes to the cell's future.
CallReturns(p) ==
    /\ Goto(p, "call", "next")
    /\ AwaitedAreDone(p)
    /\ Complete(MyCell(p), "ok")
    /\ row' = [row EXCEPT ![p] = @ + 1]
    /\ UNCHANGED <<startVars, failRow, partyState, escaped, enterVars, finishVars>>

\* Faulty: the futures fail, the party does not.
CallThrowsUnmarked(p) ==
    /\ Goto(p, "call", "failing")
    /\ failRow' = [failRow EXCEPT ![p] = row[p]]
    /\ UNCHANGED <<startVars, row, partyState, escaped, fut, enterVars, finishVars>>

\* It throws an Exception, at any time: before its wait, because the wait times
\* out or is interrupted, or after it;
\* party.setException breaks the party and starts on the row of the failure.
CallThrows(p) ==
    /\ Goto(p, "call", "failing")
    /\ partyState' = [partyState EXCEPT ![p] = "BROKEN"]
    /\ failRow' = [failRow EXCEPT ![p] = row[p]]
    /\ UNCHANGED <<startVars, row, escaped, fut, enterVars, finishVars>>

\* It throws an Error, at any time: no catch, but both finally blocks.
CallThrowsError(p) ==
    /\ Errors
    /\ Goto(p, "call", "arriving")
    /\ escaped' = escaped \cup {p}
    /\ row' = [row EXCEPT ![p] = @ + 1]
    /\ UNCHANGED <<startVars, failRow, partyState, fut, enterVars, finishVars>>

\* Faulty: only the cell that threw fails.
FailThisCellOnly(p) ==
    /\ pc[p] = "failing"
    /\ failRow[p] < PhaseCount
    /\ Complete(MyCell(p), "failed")
    /\ failRow' = [failRow EXCEPT ![p] = @ + 1]
    /\ UNCHANGED <<startVars, pc, row, partyState, escaped, enterVars, finishVars>>

\* setException fails one more future of the party.
FailCell(p) ==
    /\ pc[p] = "failing"
    /\ failRow[p] < PhaseCount
    /\ Complete(<<failRow[p], p>>, "failed")
    /\ failRow' = [failRow EXCEPT ![p] = @ + 1]
    /\ UNCHANGED <<startVars, pc, row, partyState, escaped, enterVars, finishVars>>

\* partiesFailed.incrementAndGet(), break, and the inner finally.
CountFailure(p) ==
    /\ Goto(p, "failing", "arriving")
    /\ failRow[p] = PhaseCount
    /\ partiesFailed' = partiesFailed + 1
    /\ row' = [row EXCEPT ![p] = @ + 1]
    /\ UNCHANGED <<startVars, failRow, partyState, escaped, fut, enterVars,
                   partiesArrived, allFinished, reported>>

\* Faulty: a broken party does not count as arrived.
ArriveUnbroken(p) ==
    /\ \/ Goto(p, "arriving", "arrived")
       \/ row[p] = PhaseCount /\ Goto(p, "next", "arrived")
    /\ partiesArrived' = IF partyState[p] = "BROKEN" THEN partiesArrived ELSE partiesArrived + 1
    /\ UNCHANGED <<startVars, partyVars, enterVars, partiesFailed, allFinished, reported>>

\* The loop is over, or was left: partiesArrived.incrementAndGet().
Arrive(p) ==
    /\ \/ Goto(p, "arriving", "arrived")
       \/ row[p] = PhaseCount /\ Goto(p, "next", "arrived")
    /\ partiesArrived' = partiesArrived + 1
    /\ UNCHANGED <<startVars, partyVars, enterVars, partiesFailed, allFinished, reported>>

\* Faulty: one party too early.
NotifyTooEarly(p) ==
    /\ Goto(p, "arrived", "notifying")
    /\ partiesArrived >= PartyCount - 1
    /\ allFinished' = Append(allFinished, partiesFailed)
    /\ UNCHANGED <<startVars, partyVars, enterVars, partiesArrived, partiesFailed, reported>>

\* partiesArrived.get() == partiesCount, a step after the increment: call
\* whenAllFinished with the number of failures.
NotifyAllFinished(p) ==
    /\ Goto(p, "arrived", "notifying")
    /\ partiesArrived = PartyCount
    /\ allFinished' = Append(allFinished, partiesFailed)
    /\ UNCHANGED <<startVars, partyVars, enterVars, partiesArrived, partiesFailed, reported>>

NotLast(p) ==
    /\ Goto(p, "arrived", "finishing")
    /\ partiesArrived # PartyCount
    /\ UNCHANGED <<startVars, partyVars, enterVars, finishVars>>

AllFinishedReturns(p) ==
    /\ Goto(p, "notifying", "finishing")
    /\ UNCHANGED <<startVars, partyVars, enterVars, finishVars>>

\* An exception of whenAllFinished skips the listener below.
AllFinishedThrows(p) ==
    /\ ListenersThrow
    /\ Goto(p, "notifying", "done")
    /\ UNCHANGED <<startVars, partyVars, enterVars, finishVars>>

FinishListenerReturns(p) ==
    /\ Goto(p, "finishing", "done")
    /\ reported' = reported \cup {p}
    /\ UNCHANGED <<startVars, partyVars, enterVars, partiesArrived, partiesFailed, allFinished>>

FinishListenerThrows(p) ==
    /\ ListenersThrow
    /\ Goto(p, "finishing", "done")
    /\ UNCHANGED <<startVars, partyVars, enterVars, finishVars>>

\* The steps of a party outside its callable and its closing listeners.
OwnStep(p) ==
    \/ BeginPhase(p) \/ EnterPhase(p) \/ AnnouncePhase(p)
    \/ FailCell(p) \/ CountFailure(p)
    \/ Arrive(p) \/ NotifyAllFinished(p) \/ NotLast(p)

CallStep(p) == CallReturns(p) \/ CallThrows(p) \/ CallThrowsError(p)

ListenerStep(p) ==
    \/ AnnounceThrows(p)
    \/ AllFinishedReturns(p) \/ AllFinishedThrows(p)
    \/ FinishListenerReturns(p) \/ FinishListenerThrows(p)

\* The callable is not waiting.
MayEnd(p) == pc[p] = "call" /\ AwaitedAreDone(p)

PartyStep(p) == OwnStep(p) \/ CallStep(p) \/ ListenerStep(p)

Next == Submit \/ Reject \/ \E p \in Parties : PartyStep(p)

\* The pool runs every thread it has, and the starter's loop goes on; a
\* callable ends unless it waits for a future that is not completed.  No
\* timeout is obliged to come to its help.
Fairness ==
    /\ WF_gridVars(Submit \/ Reject)
    /\ \A p \in Parties :
         WF_gridVars(OwnStep(p) \/ ListenerStep(p) \/ (MayEnd(p) /\ CallStep(p)))

Spec == Init /\ [][Next]_gridVars

FairSpec == Spec /\ Fairness

-----------------------------------------------------------------------------
ArrivedStates == {"arrived", "notifying", "finishing", "done"}

Arrived(p) == pc[p] \in ArrivedStates

TypeOK ==
    /\ poolSize \in PoolSizes
    /\ starter \in {"submitting", "started", "rejected"}
    /\ submitted \in 0 .. PartyCount
    /\ pc \in [Parties -> ArrivedStates \cup
                 {"idle", "next", "entering", "announcing", "call", "failing", "arriving"}]
    /\ row \in [Parties -> 0 .. PhaseCount]
    /\ failRow \in [Parties -> 0 .. PhaseCount]
    /\ partyState \in [Parties -> {"WAITING", "BROKEN"}]
    /\ escaped \in SUBSET Parties
    /\ fut \in [Cells -> {"pending", "ok", "failed"}]
    /\ phaseEntered \in [Rows -> BOOLEAN]
    /\ announced \in [Rows -> Nat]
    /\ partiesArrived \in Nat
    /\ partiesFailed \in Nat
    /\ allFinished \in Seq(Nat)
    /\ reported \in SUBSET Parties

\* A party that has arrived leaves no future behind that somebody could wait
\* for in vain: breaking in one phase completes the cells of all later phases
\* (PhaseParty.setException).  A party that left by an Error or by a listener's
\* exception does leave such futures, and is the only one that does.
NobodyLeftWaiting ==
    \A p \in Parties \ escaped :
        Arrived(p) => \A r \in Rows : fut[<<r, p>>] # "pending"

\* The cells of a party settle in the order of the phases, and nothing succeeds
\* after a failure: at any time they are a run of successes, then a run of
\* failures, then the ones that are still open.
CellsSettleInOrder ==
    \A p \in Parties, r, s \in Rows :
        r < s => /\ fut[<<s, p>>] = "ok" => fut[<<r, p>>] = "ok"
                 /\ fut[<<s, p>>] = "failed" => fut[<<r, p>>] # "pending"

\* exceptionsTest (ComputingGridTest.java:368-373), for every interleaving: a
\* cell without a result belongs to a broken party, and a party that broke
\* shows it in its cells, the last one first of all, once it arrives.
FailedMeansBroken ==
    \A p \in Parties :
        /\ \A r \in Rows : fut[<<r, p>>] = "failed" => partyState[p] = "BROKEN"
        /\ partyState[p] = "BROKEN" /\ Arrived(p) => fut[<<PhaseCount - 1, p>>] = "failed"

\* whenAllFinished comes after every party's last step in the grid, nobody is
\* missing (submitted late or still failing its cells), and is told the number
\* of broken parties; if it is called twice, twice the same.
AllFinishedIsLast ==
    allFinished # <<>> =>
        /\ \A p \in Parties : Arrived(p)
        /\ \A i \in 1 .. Len(allFinished) :
             allFinished[i] = Cardinality({p \in Parties : partyState[p] = "BROKEN"})

\* A callable runs only in a phase that is marked, and each phase is announced
\* to the UI once at most in spite of the unsynchronised look.
PhaseAnnouncedOnce ==
    /\ \A r \in Rows : announced[r] <= 1
    /\ \A p \in Parties : pc[p] = "call" => phaseEntered[row[p]]

\* Whatever the cells wait for, and without the help of timeouts, all parties
\* get through and the owner is notified, unless the executor rejects one or a
\* Throwable escapes.
AllPartiesFinish ==
    \/ <>(starter = "rejected" \/ escaped # {})
    \/ <>[](\A p \in Parties : pc[p] = "done" /\ allFinished # <<>>)
=============================================================================
