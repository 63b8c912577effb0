---------------------- MODULE GlobalTaskRunner_proofs ----------------------
(***************************************************************************)
(* GlobalTaskRunner for any number of parties and phases, any pool and any *)
(* dependencies between the cells.  A run refines its grid, whose          *)
(* invariant therefore holds in it; on top of that each counter is tied to *)
(* the set of parties whose listener is past it.                           *)
(***************************************************************************)
EXTENDS GlobalTaskRunner, ComputingGrid_proofs

Looping == {"looping", "looped", "thrown"}

Completing == {"arrived", "pending", "result", "minuend", "subtrahend", "failed", "counted",
               "firing"}

PastResult == {"minuend", "subtrahend", "failed", "counted", "firing"}

\* The parties that each of the counters has counted.
ArrivedInStats == {p \in Parties : lpc[p] \in Completing \/ p \in reported}
JudgedInStats == {p \in Parties : lpc[p] \in PastResult \/ p \in reported}
CountedArrivals == {p \in Parties : lpc[p] = "firing" \/ p \in reported}
OkInStats == {p \in JudgedInStats : lastOk[p]}

\* Where a party can stand in a listener, and what that says of the callbacks.
PlaceInv ==
    /\ escaped = {}
    /\ \A p \in Parties :
         /\ lpc[p] \in Looping => pc[p] = "notifying"
         /\ lpc[p] \in Completing => pc[p] = "finishing"
         /\ p \in reported => pc[p] = "done"
         /\ pc[p] = "notifying" => allFinished # <<>>
         /\ lpc[p] = "looping" => 0 <= reg[p] /\ reg[p] <= callbacks
         /\ lpc[p] = "thrown" => callbacks > 0
         /\ pc[p] = "done" /\ callbacks = 0 => p \in reported
         /\ lpc[p] = "pending" => reg[p] \in 0 .. PartyCount
    /\ latchOpen => allFinished # <<>>

TallyInv ==
    /\ statArrived = Cardinality(ArrivedInStats)
    /\ statOk = Cardinality(OkInStats)
    /\ arrivedCount = Cardinality(CountedArrivals)

HomeInv == ~inScope => CountedArrivals = Parties

RunInv == RunTypeOK /\ PlaceInv /\ TallyInv /\ HomeInv

-----------------------------------------------------------------------------
(* A run is a run of its grid *)

LEMMA StepOfGrid == RunNext => [Next]_gridVars
<1>1. SUFFICES ASSUME RunNext PROVE Next \/ UNCHANGED gridVars
  OBVIOUS
<1>2. CASE StartParties
  BY <1>2 DEF StartParties, Next
<1>3. CASE MainStep
  BY <1>3 DEF MainStep, AddListener, AwaitLatch, ThrowIfAnyFailed, RegisterCallback
<1>4. ASSUME NEW p \in Parties, GridStep(p) PROVE Next
  BY <1>4 DEF GridStep, Next, PartyStep
<1>5. ASSUME NEW p \in Parties, CallableStep(p) PROVE Next
  BY <1>5 DEF CallableStep, TaskOk, TaskFails, TaskThrows, MayLoseLastOk, Next, PartyStep, CallStep
<1>6. ASSUME NEW p \in Parties, CallbackStep(p) PROVE Next \/ UNCHANGED gridVars
  BY <1>6 DEF CallbackStep, BeginCallbacks, RunCallbacks, CallbackThrows, OpenLatch,
     Next, PartyStep, ListenerStep
<1>7. ASSUME NEW p \in Parties, CompletionStep(p) PROVE Next \/ UNCHANGED gridVars
  BY <1>7 DEF CompletionStep, StatArrive, ReadPending, WritePending, StatResult, ReadArrived,
     ReadOk, WriteFailed, CountArrival, FireArrival, Next, PartyStep, ListenerStep
<1>8. QED
  BY <1>1, <1>2, <1>3, <1>4, <1>5, <1>6, <1>7 DEF RunNext, RunStep

\* The run on top of the grid does nothing to the grid that it could not do
\* alone, so that what is proved of the grid holds in every run.
LEMMA RunRefinesGrid == RunSpec => Spec
<1>1. RunInit => Init
  BY DEF RunInit
<1>2. [RunNext]_vars => [Next]_gridVars
  BY StepOfGrid DEF vars
<1>3. QED
  BY <1>1, <1>2, PTL DEF RunSpec, Spec

\* What the holders of the grid's futures rely on, they have in every run: the
\* listeners of GlobalTaskRunner take nothing of it back.
THEOREM RunKeepsPromise == RunSpec => ImplementsPromise
BY RunRefinesGrid, Implementation, PTL

-----------------------------------------------------------------------------
(* The steps in which no party goes into or out of a listener's body *)

LEMMA OwnMoves ==
    ASSUME IInv, NEW p \in Parties, OwnStep(p) \/ CallReturns(p) \/ CallThrows(p)
    PROVE  /\ pc[p] \notin {"notifying", "finishing", "done"} /\ pc'[p] # "done"
           /\ \A q \in Parties : q # p => pc'[q] = pc[q]
           /\ pc'[p] = "notifying" => allFinished' # <<>>
           /\ allFinished # <<>> => allFinished' # <<>>
           /\ UNCHANGED <<reported, escaped>>
<1>. USE DEF Goto, startVars, partyVars, enterVars, finishVars
<1>a. pc \in [Parties -> ArrivedStates \cup
                {"idle", "next", "entering", "announcing", "call", "failing", "arriving"}]
  BY DEF IInv, TypeOK
<1>1. CASE BeginPhase(p)
  BY <1>1, <1>a DEF BeginPhase
<1>2. CASE EnterPhase(p)
  BY <1>2, <1>a DEF EnterPhase
<1>3. CASE AnnouncePhase(p)
  BY <1>3, <1>a DEF AnnouncePhase
<1>4. CASE FailCell(p)
  BY <1>4, <1>a DEF FailCell
<1>5. CASE CountFailure(p)
  BY <1>5, <1>a DEF CountFailure
<1>6. CASE Arrive(p)
  BY <1>6, <1>a DEF Arrive
<1>7. CASE NotifyAllFinished(p)
  <2>1. allFinished \in Seq(Nat) /\ partiesFailed \in Nat
    BY DEF IInv, TypeOK
  <2>2. Append(allFinished, partiesFailed) # <<>>
    BY <2>1
  <2>3. QED
    BY <1>7, <1>a, <2>2 DEF NotifyAllFinished
<1>8. CASE NotLast(p)
  BY <1>8, <1>a DEF NotLast
<1>9. CASE CallReturns(p)
  BY <1>9, <1>a DEF CallReturns
<1>10. CASE CallThrows(p)
  BY <1>10, <1>a DEF CallThrows
<1>11. QED
  BY <1>1, <1>2, <1>3, <1>4, <1>5, <1>6, <1>7, <1>8, <1>9, <1>10 DEF OwnStep

LEMMA QuietStep ==
    ASSUME RunInv, NEW p \in Parties,
           pc[p] \notin {"notifying", "finishing", "done"}, pc'[p] # "done",
           \A q \in Parties : q # p => pc'[q] = pc[q],
           pc'[p] = "notifying" => allFinished' # <<>>,
           allFinished # <<>> => allFinished' # <<>>,
           UNCHANGED <<reported, escaped, lpc, reg, statVars, scopeVars, latchVars, mainVars>>,
           lastOk' \in [Parties -> BOOLEAN], \A q \in Parties : q # p => lastOk'[q] = lastOk[q]
    PROVE  RunInv'
<1>. USE DEF statVars, scopeVars, latchVars, mainVars
<1>1. RunTypeOK'
  BY DEF RunInv, RunTypeOK
<1>2. PlaceInv'
  BY DEF RunInv, PlaceInv
<1>3. p \notin JudgedInStats
  BY DEF RunInv, PlaceInv, JudgedInStats, PastResult, Completing
<1>4. UNCHANGED <<ArrivedInStats, JudgedInStats, CountedArrivals>>
  BY DEF ArrivedInStats, JudgedInStats, CountedArrivals
<1>5. OkInStats' = OkInStats
  BY <1>3, <1>4 DEF OkInStats, JudgedInStats
<1>6. TallyInv' /\ HomeInv'
  BY <1>4, <1>5 DEF RunInv, TallyInv, HomeInv
<1>7. QED
  BY <1>1, <1>2, <1>6 DEF RunInv

\* The main thread's steps leave the parties alone.
LEMMA MainKeeps ==
    ASSUME RunInv, MainStep
    PROVE  RunInv'
<1>. USE DEF gridVars, startVars, partyVars, enterVars, finishVars, statVars, scopeVars, latchVars
<1>1. /\ UNCHANGED <<pc, escaped, reported, allFinished, lastOk, lpc, reg, statVars, arrivedCount,
                     inScope, cleanups, latchOpen>>
      /\ callbacks' \in Nat /\ callbacks <= callbacks'
  BY DEF RunInv, RunTypeOK, MainStep, AddListener, AwaitLatch, ThrowIfAnyFailed, RegisterCallback
<1>2. main' \in {"starting", "waiting", "interactive", "returned", "judged", "registered"}
        /\ verdict' \in {"none", "clean", "failed"} /\ listening' \in BOOLEAN
  BY DEF RunInv, RunTypeOK, MainStep, AddListener, AwaitLatch, ThrowIfAnyFailed, RegisterCallback
<1>3. RunTypeOK'
  BY <1>1, <1>2 DEF RunInv, RunTypeOK
<1>4. callbacks \in Nat /\ reg \in [Parties -> Int]
  BY DEF RunInv, RunTypeOK
<1>5. PlaceInv'
  BY <1>1, <1>4 DEF RunInv, PlaceInv
<1>6. UNCHANGED <<ArrivedInStats, OkInStats, CountedArrivals>>
  BY <1>1 DEF ArrivedInStats, OkInStats, JudgedInStats, CountedArrivals
<1>7. TallyInv' /\ HomeInv'
  BY <1>1, <1>6 DEF RunInv, TallyInv, HomeInv
<1>8. QED
  BY <1>3, <1>5, <1>7 DEF RunInv

\* A party inside a listener: what else can change, and the sets that then stay.
LEMMA ListenerMoves ==
    ASSUME IInv, RunInv, NEW p \in Parties, CallbackStep(p) \/ CompletionStep(p)
    PROVE  /\ \A q \in Parties : q # p =>
                pc'[q] = pc[q] /\ lpc'[q] = lpc[q] /\ reg'[q] = reg[q]
                    /\ (q \in reported' <=> q \in reported)
           /\ UNCHANGED <<escaped, allFinished, lastOk, callbacks, listening, mainVars>>
           /\ pc \in [Parties -> ArrivedStates \cup {"idle", "next", "entering", "announcing",
                                                     "call", "failing", "arriving"}]
           /\ lpc[p] \in Completing => pc[p] = "finishing"
           /\ lpc[p] \in Looping => pc[p] = "notifying"
           /\ pc[p] \in {"notifying", "finishing"} /\ p \notin reported
<1>a. pc \in [Parties -> ArrivedStates \cup
                {"idle", "next", "entering", "announcing", "call", "failing", "arriving"}]
  BY DEF IInv, TypeOK
<1>b. lpc \in [Parties -> {"none"} \cup Looping \cup Completing] /\ reg \in [Parties -> Int]
  BY DEF RunInv, RunTypeOK, Looping, Completing
<1>. USE <1>a, <1>b DEF In, Goto, gridVars, startVars, partyVars, enterVars, finishVars,
         statVars, scopeVars, latchVars, mainVars, AllFinishedReturns, AllFinishedThrows,
         FinishListenerReturns
<1>1. \A q \in Parties : q # p =>
        pc'[q] = pc[q] /\ lpc'[q] = lpc[q] /\ reg'[q] = reg[q] /\ (q \in reported' <=> q \in reported)
  BY DEF CallbackStep, BeginCallbacks, RunCallbacks, CallbackThrows, OpenLatch,
     CompletionStep, StatArrive, ReadPending, WritePending, StatResult, ReadArrived,
     ReadOk, WriteFailed, CountArrival, FireArrival
<1>2. UNCHANGED <<escaped, allFinished, lastOk, callbacks, listening, mainVars>>
  BY DEF CallbackStep, BeginCallbacks, RunCallbacks, CallbackThrows, OpenLatch,
     CompletionStep, StatArrive, ReadPending, WritePending, StatResult, ReadArrived,
     ReadOk, WriteFailed, CountArrival, FireArrival
<1>3. pc[p] \in {"notifying", "finishing"}
  BY DEF CallbackStep, BeginCallbacks, RunCallbacks, CallbackThrows, OpenLatch,
     CompletionStep, StatArrive, ReadPending, WritePending, StatResult, ReadArrived,
     ReadOk, WriteFailed, CountArrival, FireArrival
<1>4. QED
  BY <1>1, <1>2, <1>3 DEF RunInv, PlaceInv

\* The sets change only at the party that moves.
LEMMA SetsOfMover ==
    ASSUME NEW p \in Parties, lastOk' = lastOk,
           \A q \in Parties : q # p => lpc'[q] = lpc[q] /\ (q \in reported' <=> q \in reported)
    PROVE  /\ (p \in ArrivedInStats' <=> p \in ArrivedInStats) => ArrivedInStats' = ArrivedInStats
           /\ (p \in OkInStats' <=> p \in OkInStats) => OkInStats' = OkInStats
           /\ (p \in CountedArrivals' <=> p \in CountedArrivals)
                => CountedArrivals' = CountedArrivals
           /\ p \in ArrivedInStats' => ArrivedInStats' = ArrivedInStats \cup {p}
           /\ p \in OkInStats' => OkInStats' = OkInStats \cup {p}
           /\ p \in CountedArrivals' => CountedArrivals' = CountedArrivals \cup {p}
BY DEF ArrivedInStats, OkInStats, JudgedInStats, CountedArrivals

LEMMA TallyFacts ==
    /\ IsFiniteSet(ArrivedInStats) /\ IsFiniteSet(OkInStats) /\ IsFiniteSet(CountedArrivals)
    /\ Cardinality(ArrivedInStats) <= PartyCount
    /\ Cardinality(CountedArrivals) = PartyCount => CountedArrivals = Parties
<1>1. /\ ArrivedInStats \in SUBSET Parties /\ OkInStats \in SUBSET Parties
      /\ CountedArrivals \in SUBSET Parties
  BY DEF ArrivedInStats, OkInStats, JudgedInStats, CountedArrivals
<1>2. QED
  BY <1>1, PartiesFinite, FS_Subset

LEMMA CallbackKeeps ==
    ASSUME IInv, RunInv, NEW p \in Parties, CallbackStep(p)
    PROVE  RunInv'
<1>a. /\ \A q \in Parties : q # p =>
           pc'[q] = pc[q] /\ lpc'[q] = lpc[q] /\ reg'[q] = reg[q]
               /\ (q \in reported' <=> q \in reported)
      /\ UNCHANGED <<escaped, allFinished, lastOk, callbacks, listening, mainVars>>
      /\ pc[p] \in {"notifying", "finishing"} /\ p \notin reported
  BY ListenerMoves
<1>b. /\ lpc \in [Parties -> {"none", "looping", "looped", "thrown", "arrived", "pending",
                              "result", "minuend", "subtrahend", "failed", "counted", "firing"}]
      /\ reg \in [Parties -> Int] /\ callbacks \in Nat /\ cleanups \in Nat
  BY DEF RunInv, RunTypeOK
<1>c. pc \in [Parties -> ArrivedStates \cup {"idle", "next", "entering", "announcing",
                                             "call", "failing", "arriving"}]
  BY DEF IInv, TypeOK
<1>. USE DEF In, Goto, gridVars, startVars, partyVars, enterVars, finishVars,
         statVars, scopeVars, latchVars, mainVars, AllFinishedReturns, AllFinishedThrows
<1>1. /\ UNCHANGED <<reported, statVars, arrivedCount, inScope>>
      /\ lpc[p] \notin Completing /\ lpc'[p] \notin Completing
  BY <1>b DEF CallbackStep, BeginCallbacks, RunCallbacks, CallbackThrows, OpenLatch, Completing
<1>2. RunTypeOK'
  <2>1. /\ lpc' \in [Parties -> {"none", "looping", "looped", "thrown", "arrived", "pending",
                                 "result", "minuend", "subtrahend", "failed", "counted", "firing"}]
        /\ reg' \in [Parties -> Int] /\ cleanups' \in Nat
    BY <1>b DEF CallbackStep, BeginCallbacks, RunCallbacks, CallbackThrows, OpenLatch
  <2>2. latchOpen' \in BOOLEAN
    BY DEF CallbackStep, BeginCallbacks, RunCallbacks, CallbackThrows, OpenLatch, RunInv, RunTypeOK
  <2>3. QED
    BY <1>1, <1>a, <2>1, <2>2 DEF RunInv, RunTypeOK
<1>3. PlaceInv'
  <2>1. latchOpen' => allFinished' # <<>>
    BY <1>a DEF CallbackStep, BeginCallbacks, RunCallbacks, CallbackThrows, OpenLatch,
       RunInv, PlaceInv
  <2>2. /\ lpc'[p] \in Looping => pc'[p] = "notifying"
        /\ pc'[p] = "notifying" => allFinished # <<>>
        /\ lpc'[p] = "looping" => 0 <= reg'[p] /\ reg'[p] <= callbacks
        /\ lpc'[p] = "thrown" => callbacks > 0
        /\ pc'[p] = "done" => callbacks > 0
    <3>1. CASE BeginCallbacks(p)
      BY <1>b, <1>c, <3>1 DEF BeginCallbacks, RunInv, PlaceInv, Looping
    <3>2. CASE RunCallbacks(p)
      BY <1>b, <1>c, <3>2 DEF RunCallbacks, RunInv, PlaceInv, Looping
    <3>3. CASE CallbackThrows(p)
      BY <1>b, <1>c, <3>3 DEF CallbackThrows, RunInv, PlaceInv, Looping
    <3>4. CASE OpenLatch(p)
      BY <1>b, <1>c, <3>4 DEF OpenLatch, RunInv, PlaceInv, Looping
    <3>5. QED
      BY <3>1, <3>2, <3>3, <3>4 DEF CallbackStep
  <2>3. ~(lpc'[p] = "pending") /\ callbacks' = callbacks
    BY <1>1, <1>a DEF Completing
  <2>4. QED
    BY <1>1, <1>a, <2>1, <2>2, <2>3 DEF RunInv, PlaceInv
<1>4. UNCHANGED <<ArrivedInStats, OkInStats, CountedArrivals>>
  BY <1>1, <1>a, SetsOfMover DEF ArrivedInStats, OkInStats, JudgedInStats, CountedArrivals,
     Completing, PastResult
<1>5. TallyInv' /\ HomeInv'
  BY <1>1, <1>4 DEF RunInv, TallyInv, HomeInv
<1>6. QED
  BY <1>2, <1>3, <1>5 DEF RunInv


LEMMA CompletionKeeps ==
    ASSUME IInv, RunInv, NEW p \in Parties, CompletionStep(p)
    PROVE  RunInv'
<1>a. /\ \A q \in Parties : q # p =>
           pc'[q] = pc[q] /\ lpc'[q] = lpc[q] /\ reg'[q] = reg[q]
               /\ (q \in reported' <=> q \in reported)
      /\ UNCHANGED <<escaped, allFinished, lastOk, callbacks, listening, mainVars>>
      /\ pc[p] \in {"notifying", "finishing"} /\ p \notin reported
  BY ListenerMoves
<1>b. /\ lpc \in [Parties -> {"none", "looping", "looped", "thrown", "arrived", "pending",
                              "result", "minuend", "subtrahend", "failed", "counted", "firing"}]
      /\ reg \in [Parties -> Int] /\ statArrived \in Nat /\ statOk \in Nat /\ arrivedCount \in Nat
      /\ statPending \in 0 .. PartyCount /\ statFailed \in Int /\ inScope \in BOOLEAN
      /\ PartyCount \in Nat /\ statArrived <= PartyCount
  BY TallyFacts, SizeAssumption DEF RunInv, RunTypeOK, TallyInv, SizeAssumption
<1>c. pc \in [Parties -> ArrivedStates \cup {"idle", "next", "entering", "announcing",
                                             "call", "failing", "arriving"}]
  BY DEF IInv, TypeOK
<1>. USE DEF In, Goto, gridVars, startVars, partyVars, enterVars, finishVars,
         statVars, scopeVars, latchVars, mainVars, FinishListenerReturns
<1>1. pc[p] = "finishing" /\ UNCHANGED <<latchVars, lastOk>>
  BY DEF CompletionStep, StatArrive, ReadPending, WritePending, StatResult, ReadArrived,
     ReadOk, WriteFailed, CountArrival, FireArrival
<1>2. RunTypeOK'
  <2>1. /\ lpc' \in [Parties -> {"none", "looping", "looped", "thrown", "arrived", "pending",
                                 "result", "minuend", "subtrahend", "failed", "counted", "firing"}]
        /\ inScope' \in BOOLEAN
    BY <1>b DEF CompletionStep, StatArrive, ReadPending, WritePending, StatResult, ReadArrived,
       ReadOk, WriteFailed, CountArrival, FireArrival
  <2>2. reg' \in [Parties -> Int] /\ statFailed' \in Int
    BY <1>b DEF CompletionStep, StatArrive, ReadPending, WritePending, StatResult, ReadArrived,
       ReadOk, WriteFailed, CountArrival, FireArrival
  <2>3. statArrived' \in Nat /\ statOk' \in Nat /\ arrivedCount' \in Nat
    BY <1>b DEF CompletionStep, StatArrive, ReadPending, WritePending, StatResult, ReadArrived,
       ReadOk, WriteFailed, CountArrival, FireArrival
  <2>4. statPending' \in 0 .. PartyCount
    <3>1. CASE WritePending(p)
      BY <3>1 DEF WritePending, RunInv, PlaceInv
    <3>2. CASE ~WritePending(p)
      BY <1>b, <3>2 DEF CompletionStep, StatArrive, ReadPending, StatResult, ReadArrived,
         ReadOk, WriteFailed, CountArrival, FireArrival
    <3>3. QED
      BY <3>1, <3>2
  <2>5. QED
    BY <1>1, <1>a, <2>1, <2>2, <2>3, <2>4 DEF RunInv, RunTypeOK
<1>3. PlaceInv'
  <2>1. /\ lpc'[p] \in Completing => pc'[p] = "finishing"
        /\ p \in reported' <=> pc'[p] = "done"
        /\ pc'[p] \in {"finishing", "done"}
    BY <1>1, <1>a, <1>b, <1>c DEF CompletionStep, StatArrive, ReadPending, WritePending, StatResult,
       ReadArrived, ReadOk, WriteFailed, CountArrival, FireArrival, Completing, ArrivedStates
  <2>2. lpc'[p] = "pending" => reg'[p] \in 0 .. PartyCount
    <3>1. CASE ReadPending(p)
      BY <1>b, <3>1 DEF ReadPending
    <3>2. CASE ~ReadPending(p)
      BY <1>b, <3>2 DEF CompletionStep, StatArrive, WritePending, StatResult, ReadArrived,
         ReadOk, WriteFailed, CountArrival, FireArrival
    <3>3. QED
      BY <3>1, <3>2
  <2>3. lpc'[p] \notin Looping
    BY <1>b DEF CompletionStep, StatArrive, ReadPending, WritePending, StatResult,
       ReadArrived, ReadOk, WriteFailed, CountArrival, FireArrival, Looping
  <2>4. QED
    BY <1>1, <1>a, <2>1, <2>2, <2>3 DEF RunInv, PlaceInv, Looping
<1>. DEFINE A == UNCHANGED <<statArrived, ArrivedInStats>>
            O == UNCHANGED <<statOk, OkInStats>>
            C == UNCHANGED <<arrivedCount, CountedArrivals>>
<1>4. TallyInv'
  <2>1. statArrived' = Cardinality(ArrivedInStats')
    <3>1. CASE StatArrive(p)
      <4>1. p \notin ArrivedInStats /\ p \in ArrivedInStats'
        BY <1>a, <1>b, <3>1 DEF StatArrive, ArrivedInStats, Completing
      <4>2. ArrivedInStats' = ArrivedInStats \cup {p}
        BY <1>a, <4>1, SetsOfMover
      <4>3. QED
        BY <3>1, <4>1, <4>2, TallyFacts, FS_AddElement DEF StatArrive, RunInv, TallyInv
    <3>2. CASE ~StatArrive(p)
      <4>1. p \in ArrivedInStats' /\ p \in ArrivedInStats /\ statArrived' = statArrived
        BY <1>b, <3>2 DEF CompletionStep, ReadPending, WritePending, StatResult, ReadArrived,
           ReadOk, WriteFailed, CountArrival, FireArrival, ArrivedInStats, Completing
      <4>2. ArrivedInStats' = ArrivedInStats
        BY <1>a, <4>1, SetsOfMover
      <4>3. QED
        BY <4>1, <4>2 DEF RunInv, TallyInv
    <3>3. QED
      BY <3>1, <3>2
  <2>2. statOk' = Cardinality(OkInStats')
    <3>1. CASE StatResult(p)
      <4>1. p \notin OkInStats /\ lastOk' = lastOk /\ lpc'[p] = "minuend"
        BY <1>a, <1>b, <3>1 DEF StatResult, OkInStats, JudgedInStats, PastResult
      <4>2. CASE lastOk[p]
        <5>1. OkInStats' = OkInStats \cup {p}
          BY <1>a, <4>1, <4>2, SetsOfMover DEF OkInStats, JudgedInStats, PastResult
        <5>2. QED
          BY <3>1, <4>1, <4>2, <5>1, TallyFacts, FS_AddElement DEF StatResult, RunInv, TallyInv
      <4>3. CASE ~lastOk[p]
        <5>1. OkInStats' = OkInStats
          BY <1>a, <4>1, <4>3, SetsOfMover DEF OkInStats
        <5>2. QED
          BY <3>1, <4>3, <5>1 DEF StatResult, RunInv, TallyInv
      <4>4. QED
        BY <4>2, <4>3
    <3>2. CASE ~StatResult(p)
      <4>1. (lpc'[p] \in PastResult \/ p \in reported' <=> lpc[p] \in PastResult \/ p \in reported)
              /\ statOk' = statOk
        BY <1>b, <3>2 DEF CompletionStep, StatArrive, ReadPending, WritePending, ReadArrived,
           ReadOk, WriteFailed, CountArrival, FireArrival, PastResult
      <4>2. OkInStats' = OkInStats
        BY <1>a, <4>1, SetsOfMover DEF OkInStats, JudgedInStats
      <4>3. QED
        BY <4>1, <4>2 DEF RunInv, TallyInv
    <3>3. QED
      BY <3>1, <3>2
  <2>3. arrivedCount' = Cardinality(CountedArrivals')
    <3>1. CASE CountArrival(p)
      <4>1. p \notin CountedArrivals /\ p \in CountedArrivals'
        BY <1>a, <1>b, <3>1 DEF CountArrival, CountedArrivals
      <4>2. CountedArrivals' = CountedArrivals \cup {p}
        BY <1>a, <4>1, SetsOfMover
      <4>3. QED
        BY <3>1, <4>1, <4>2, TallyFacts, FS_AddElement DEF CountArrival, RunInv, TallyInv
    <3>2. CASE ~CountArrival(p)
      <4>1. (p \in CountedArrivals' <=> p \in CountedArrivals) /\ arrivedCount' = arrivedCount
        BY <1>b, <3>2 DEF CompletionStep, StatArrive, ReadPending, WritePending, StatResult,
           ReadArrived, ReadOk, WriteFailed, FireArrival, CountedArrivals
      <4>2. CountedArrivals' = CountedArrivals
        BY <1>a, <4>1, SetsOfMover
      <4>3. QED
        BY <4>1, <4>2 DEF RunInv, TallyInv
    <3>3. QED
      BY <3>1, <3>2
  <2>4. QED
    BY <2>1, <2>2, <2>3 DEF TallyInv
<1>5. HomeInv'
  <2>1. CountedArrivals \subseteq CountedArrivals'
    <3>1. p \in CountedArrivals => p \in CountedArrivals'
      BY <1>b DEF CompletionStep, StatArrive, ReadPending, WritePending, StatResult,
         ReadArrived, ReadOk, WriteFailed, CountArrival, FireArrival, CountedArrivals
    <3>2. QED
      BY <1>a, <3>1 DEF CountedArrivals
  <2>2. CountedArrivals' \subseteq Parties
    BY DEF CountedArrivals
  <2>3. CASE FireArrival(p)
    <3>1. ~inScope' => ~inScope \/ arrivedCount = PartyCount
      BY <2>3 DEF FireArrival
    <3>2. ~inScope' => CountedArrivals = Parties
      BY <3>1, TallyFacts DEF RunInv, HomeInv, TallyInv
    <3>3. QED
      BY <2>1, <2>2, <3>2 DEF HomeInv
  <2>4. CASE ~FireArrival(p)
    <3>1. inScope' = inScope
      BY <2>4 DEF CompletionStep, StatArrive, ReadPending, WritePending, StatResult,
         ReadArrived, ReadOk, WriteFailed, CountArrival
    <3>2. QED
      BY <2>1, <2>2, <3>1 DEF RunInv, HomeInv
  <2>5. QED
    BY <2>3, <2>4
<1>6. QED
  BY <1>2, <1>3, <1>4, <1>5 DEF RunInv

-----------------------------------------------------------------------------
(* The theorems *)

LEMMA RunInitInv == RunInit => RunInv
<1>1. SUFFICES ASSUME RunInit PROVE RunInv
  OBVIOUS
<1>2. RunTypeOK
  <2>1. {listening, latchOpen, inScope} \subseteq BOOLEAN
    BY <1>1, Zenon DEF RunInit
  <2>2. statPending \in 0 .. PartyCount
    BY <1>1, SizeAssumption DEF RunInit, SizeAssumption
  <2>3. {statArrived, statOk, arrivedCount, callbacks, cleanups} \subseteq Nat
    BY <1>1 DEF RunInit
  <2>4. /\ lastOk \in [Parties -> BOOLEAN] /\ reg \in [Parties -> Int]
        /\ lpc \in [Parties -> {"none", "looping", "looped", "thrown", "arrived", "pending",
                                "result", "minuend", "subtrahend", "failed", "counted", "firing"}]
    BY <1>1 DEF RunInit
  <2>5. statFailed \in Int /\ main = "starting" /\ verdict = "none"
    BY <1>1 DEF RunInit
  <2>6. QED
    BY <2>1, <2>2, <2>3, <2>4, <2>5 DEF RunTypeOK
<1>3. PlaceInv
  BY <1>1 DEF RunInit, Init, PlaceInv, Looping, Completing
<1>4. ArrivedInStats = {} /\ OkInStats = {} /\ CountedArrivals = {}
  BY <1>1 DEF RunInit, Init, ArrivedInStats, OkInStats, JudgedInStats, CountedArrivals,
     Completing, PastResult
<1>5. TallyInv /\ HomeInv
  BY <1>1, <1>4, FS_EmptySet DEF RunInit, TallyInv, HomeInv
<1>6. QED
  BY <1>2, <1>3, <1>5 DEF RunInv

LEMMA RunStepInv == IInv /\ RunInv /\ [RunNext]_vars => RunInv'
<1>1. SUFFICES ASSUME IInv, RunInv, [RunNext]_vars PROVE RunInv'
  OBVIOUS
<1>2. CASE UNCHANGED vars
  BY <1>1, <1>2 DEF vars, gridVars, runVars, startVars, partyVars, enterVars, finishVars,
     statVars, scopeVars, latchVars, mainVars, RunInv, RunTypeOK, PlaceInv, TallyInv, HomeInv,
     ArrivedInStats, OkInStats, JudgedInStats, CountedArrivals
<1>3. CASE StartParties
  <2>1. UNCHANGED <<lastOk, lpc, reg, statVars, scopeVars, latchVars, mainVars>>
          /\ lastOk \in [Parties -> BOOLEAN]
    BY <1>1, <1>3 DEF StartParties, runVars, RunInv, RunTypeOK
  <2>2. CASE Submit
    <3>1. submitted \in Parties /\ pc \in [Parties -> ArrivedStates \cup {"idle", "next",
            "entering", "announcing", "call", "failing", "arriving"}]
      BY <1>1, <2>2, SizeAssumption DEF Submit, IInv, TypeOK, Parties, SizeAssumption
    <3>2. pc[submitted] = "idle" /\ pc' = [pc EXCEPT ![submitted] = "next"]
      BY <1>1, <2>2, <3>1 DEF Submit, IInv, IdleInv, Parties
    <3>3. UNCHANGED <<reported, escaped, allFinished>>
      BY <2>2 DEF Submit, partyVars, finishVars
    <3>4. pc'[submitted] = "next" /\ \A q \in Parties : q # submitted => pc'[q] = pc[q]
      BY <3>1, <3>2
    <3>5. QED
      BY <1>1, <2>1, <3>1, <3>2, <3>3, <3>4, QuietStep
  <2>3. CASE Reject
    BY <1>1, <2>1, <2>3 DEF Reject, partyVars, enterVars, finishVars, statVars, scopeVars,
       latchVars, mainVars, RunInv, RunTypeOK, PlaceInv, TallyInv, HomeInv,
       ArrivedInStats, OkInStats, JudgedInStats, CountedArrivals
  <2>4. QED
    BY <1>3, <2>2, <2>3 DEF StartParties
<1>4. CASE MainStep
  BY <1>1, <1>4, MainKeeps
<1>5. ASSUME NEW p \in Parties, GridStep(p) PROVE RunInv'
  <2>1. OwnStep(p) /\ UNCHANGED <<lastOk, lpc, reg, statVars, scopeVars, latchVars, mainVars>>
          /\ lastOk \in [Parties -> BOOLEAN]
    BY <1>1, <1>5 DEF GridStep, runVars, RunInv, RunTypeOK
  <2>2. QED
    BY <1>1, <2>1, OwnMoves, QuietStep
<1>6. ASSUME NEW p \in Parties, CallableStep(p) PROVE RunInv'
  <2>1. /\ CallReturns(p) \/ CallThrows(p)
        /\ UNCHANGED <<lpc, reg, statVars, scopeVars, latchVars, mainVars>>
        /\ lastOk' \in [Parties -> BOOLEAN] /\ \A q \in Parties : q # p => lastOk'[q] = lastOk[q]
    BY <1>1, <1>6 DEF CallableStep, TaskOk, TaskFails, TaskThrows, MayLoseLastOk, runVars, RunInv, RunTypeOK
  <2>2. QED
    BY <1>1, <2>1, OwnMoves, QuietStep
<1>7. ASSUME NEW p \in Parties, CallbackStep(p) PROVE RunInv'
  BY <1>1, <1>7, CallbackKeeps
<1>8. ASSUME NEW p \in Parties, CompletionStep(p) PROVE RunInv'
  BY <1>1, <1>8, CompletionKeeps
<1>9. QED
  BY <1>1, <1>2, <1>3, <1>4, <1>5, <1>6, <1>7, <1>8 DEF RunNext, RunStep

\* The grid's invariant and the run's hold in every run.
THEOREM RunInvariant == RunSpec => [](IInv /\ RunInv)
<1>1. RunSpec => []IInv
  BY RunRefinesGrid, Invariant, PTL
<1>2. QED
  BY <1>1, RunInitInv, RunStepInv, PTL DEF RunSpec

\* Every variable of the run keeps to its type, the counter of pending parties
\* within the number of parties for one.
THEOREM RunTypeCorrect == RunSpec => []RunTypeOK
<1>1. RunInv => RunTypeOK
  BY DEF RunInv
<1>2. QED
  BY <1>1, RunInvariant, PTL

\* Whoever is past finishedLatch reads every future of the run without waiting.
THEOREM LatchSettles == RunSpec => []LatchMeansSettled
<1>1. ASSUME IInv, RunInv PROVE LatchMeansSettled
  <2>1. SUFFICES ASSUME latchOpen, NEW c \in Cells PROVE fut[c] # "pending"
    BY DEF LatchMeansSettled
  <2>2. escaped = {} /\ allFinished # <<>>
    BY <1>1, <2>1 DEF RunInv, PlaceInv
  <2>3. \A p \in Parties : Arrived(p)
    BY <1>1, <2>2 DEF IInv, CountInv, AllFinishedIsLast
  <2>4. PICK r \in Rows, p \in Parties : c = <<r, p>>
    BY DEF Cells
  <2>5. QED
    BY <1>1, <2>2, <2>3, <2>4 DEF IInv, ColumnInv, Column, FinalColumn, Arrived
<1>2. QED
  BY <1>1, RunInvariant, PTL

\* The atomic counters of Stats and arrivedCount are exact when all threads are
\* through, and without callbacks every party's listener has run.
THEOREM CountersAreExact == RunSpec => []CountersExact
<1>1. ASSUME IInv, RunInv PROVE CountersExact
  <2>1. SUFFICES ASSUME AllDone
                 PROVE  /\ statArrived = Cardinality(reported)
                        /\ statOk = Cardinality({p \in reported : lastOk[p]})
                        /\ arrivedCount = Cardinality(reported)
                        /\ callbacks = 0 => reported = Parties
    BY DEF CountersExact
  <2>2. reported \subseteq Parties
    BY <1>1 DEF IInv, TypeOK
  <2>3. \A p \in Parties : lpc[p] \notin Completing
    BY <1>1, <2>1 DEF AllDone, RunInv, PlaceInv
  <2>4. ArrivedInStats = reported /\ JudgedInStats = reported /\ CountedArrivals = reported
    BY <2>2, <2>3 DEF ArrivedInStats, JudgedInStats, CountedArrivals, Completing, PastResult
  <2>5. OkInStats = {p \in reported : lastOk[p]}
    BY <2>4 DEF OkInStats
  <2>6. callbacks = 0 => reported = Parties
    BY <1>1, <2>1, <2>2 DEF AllDone, RunInv, PlaceInv
  <2>7. QED
    BY <1>1, <2>4, <2>5, <2>6 DEF RunInv, TallyInv
<1>2. QED
  BY <1>1, RunInvariant, PTL

\* While a party is at work, the run is in the global scope, where cancelAll
\* looks for it.
THEOREM ScopeIsKept == RunSpec => []ScopeKeptWhileRunning
<1>1. ASSUME IInv, RunInv PROVE ScopeKeptWhileRunning
  <2>1. SUFFICES ASSUME ~inScope
                 PROVE  (\A p \in Parties : Arrived(p)) /\ statArrived = PartyCount
    BY DEF ScopeKeptWhileRunning
  <2>2. \A p \in Parties : lpc[p] = "firing" \/ p \in reported
    BY <1>1, <2>1 DEF RunInv, HomeInv, CountedArrivals
  <2>3. \A p \in Parties : Arrived(p)
    BY <1>1, <2>2 DEF RunInv, PlaceInv, Completing, Arrived, ArrivedStates
  <2>4. ArrivedInStats = Parties
    BY <2>2 DEF ArrivedInStats, Completing
  <2>5. QED
    BY <1>1, <2>3, <2>4, PartiesFinite DEF RunInv, TallyInv
<1>2. QED
  BY <1>1, RunInvariant, PTL
=============================================================================
