------------------------ MODULE ComputingGrid_proofs ------------------------
(***************************************************************************)
(* ComputingGrid for any number of parties and phases, any pool and any    *)
(* dependencies between the cells.  The inductive invariant ties the       *)
(* column of each party to the place of its thread, the counters to the    *)
(* sets of parties they count, and the announcement of a phase to the one  *)
(* thread that marked it.                                                  *)
(***************************************************************************)
EXTENDS MCComputingGrid, TLAPS, FiniteSetTheorems

Running == {"idle", "next", "entering", "announcing", "call"}

\* Before anything goes wrong: successes above the current row, nothing below.
RunningColumn(p) ==
    pc[p] \in Running =>
        /\ partyState[p] = "WAITING" /\ p \notin escaped
        /\ pc[p] \in {"entering", "announcing", "call"} => row[p] < PhaseCount
        /\ \A r \in Rows : fut[<<r, p>>] = IF r < row[p] THEN "ok" ELSE "pending"

\* While setException is at work.
FailingColumn(p) ==
    pc[p] = "failing" =>
        /\ partyState[p] = "BROKEN" /\ p \notin escaped
        /\ row[p] < PhaseCount /\ row[p] <= failRow[p]
        /\ \A r \in Rows :
             fut[<<r, p>>] = IF r < row[p] THEN "ok"
                             ELSE IF r < failRow[p] THEN "failed" ELSE "pending"

\* When the loop is over.
FinalColumn(p) ==
    pc[p] \in ArrivedStates \cup {"arriving"} =>
        /\ \A r, s \in Rows :
             r < s => /\ fut[<<s, p>>] = "ok" => fut[<<r, p>>] = "ok"
                      /\ fut[<<s, p>>] = "failed" => fut[<<r, p>>] # "pending"
        /\ \A r \in Rows : fut[<<r, p>>] = "failed" => partyState[p] = "BROKEN"
        /\ partyState[p] = "BROKEN" => fut[<<PhaseCount - 1, p>>] = "failed"
        /\ p \notin escaped => \A r \in Rows : fut[<<r, p>>] # "pending"

Column(p) == RunningColumn(p) /\ FailingColumn(p) /\ FinalColumn(p)

ColumnInv == \A p \in Parties : Column(p)

ArrivedParties == {p \in Parties : Arrived(p)}

BrokenParties == {p \in Parties : partyState[p] = "BROKEN"}

CountedBroken == {p \in BrokenParties : pc[p] # "failing"}

CountInv ==
    /\ partiesArrived = Cardinality(ArrivedParties)
    /\ partiesFailed = Cardinality(CountedBroken)
    /\ AllFinishedIsLast

PhaseInv ==
    /\ \A r \in Rows : announced[r] \in {0, 1}
    /\ \A r \in Rows : ~phaseEntered[r] => announced[r] = 0
    /\ \A p \in Parties :
         /\ pc[p] = "call" => phaseEntered[row[p]]
         /\ pc[p] = "announcing" => phaseEntered[row[p]] /\ announced[row[p]] = 0
    /\ \A p, q \in Parties :
         pc[p] = "announcing" /\ pc[q] = "announcing" /\ row[p] = row[q] => p = q

IdleInv == \A p \in Parties : p >= submitted => pc[p] = "idle"

IInv == TypeOK /\ ColumnInv /\ CountInv /\ PhaseInv /\ IdleInv

-----------------------------------------------------------------------------
(* Types *)

LEMMA LastRow == PhaseCount - 1 \in Rows /\ \A r \in Rows : r \in Int /\ r < PhaseCount
BY SizeAssumption DEF SizeAssumption, Rows

\* A completion changes one cell, and only if it was open.
LEMMA CompleteOne ==
  ASSUME TypeOK, NEW a \in Rows, NEW b \in Parties, NEW outcome \in {"ok", "failed"},
         Complete(<<a, b>>, outcome)
  PROVE  /\ fut' \in [Cells -> {"pending", "ok", "failed"}]
         /\ \A r \in Rows, p \in Parties :
              fut'[<<r, p>>] = IF r = a /\ p = b /\ fut[<<r, p>>] = "pending"
                               THEN outcome ELSE fut[<<r, p>>]
<1>1. <<a, b>> \in Cells
  BY DEF Cells
<1>2. \A r \in Rows, p \in Parties : <<r, p>> \in Cells /\ (<<r, p>> = <<a, b>> <=> r = a /\ p = b)
  BY DEF Cells
<1>3. QED
  BY <1>1, <1>2 DEF TypeOK, Complete

LEMMA TypeStep == IInv /\ [Next]_gridVars => TypeOK'
<1>1. SUFFICES ASSUME IInv, [Next]_gridVars PROVE TypeOK'
  OBVIOUS
<1>. USE DEF IInv, TypeOK, Goto, ArrivedStates,
         gridVars, startVars, partyVars, enterVars, finishVars
<1>2. CASE UNCHANGED gridVars
  BY <1>1, <1>2
<1>3. ASSUME Submit PROVE TypeOK'
  <2>1. submitted' \in 0 .. PartyCount
    BY <1>1, <1>3, SizeAssumption DEF Submit, SizeAssumption
  <2>2. QED
    BY <1>1, <1>3, <2>1 DEF Submit
<1>4. ASSUME Reject PROVE TypeOK'
  BY <1>1, <1>4 DEF Reject
<1>5. ASSUME NEW p \in Parties, BeginPhase(p) PROVE TypeOK'
  BY <1>1, <1>5 DEF BeginPhase
<1>6. ASSUME NEW p \in Parties, EnterPhase(p) PROVE TypeOK'
  BY <1>1, <1>6 DEF EnterPhase
<1>7. ASSUME NEW p \in Parties, AnnouncePhase(p) PROVE TypeOK'
  <2>1. announced' \in [Rows -> Nat]
    <3>1. \A r \in Rows : announced[r] + 1 \in Nat
      BY <1>1
    <3>2. QED
      BY <1>1, <1>7, <3>1 DEF AnnouncePhase
  <2>2. QED
    BY <1>1, <1>7, <2>1 DEF AnnouncePhase
<1>8. ASSUME NEW p \in Parties, AnnounceThrows(p) PROVE TypeOK'
  BY <1>1, <1>8 DEF AnnounceThrows
<1>9. ASSUME NEW p \in Parties, CallReturns(p) PROVE TypeOK'
  <2>1. row[p] \in Rows
    BY <1>1, <1>9, SizeAssumption
    DEF CallReturns, ColumnInv, Column, RunningColumn, Running, Rows, SizeAssumption
  <2>2. fut' \in [Cells -> {"pending", "ok", "failed"}]
    BY <1>1, <1>9, <2>1, CompleteOne DEF CallReturns, MyCell
  <2>3. row[p] + 1 \in 0 .. PhaseCount
    BY <2>1, SizeAssumption DEF Rows, SizeAssumption
  <2>4. QED
    BY <1>1, <1>9, <2>2, <2>3 DEF CallReturns
<1>10. ASSUME NEW p \in Parties, CallThrows(p) PROVE TypeOK'
  BY <1>1, <1>10 DEF CallThrows
<1>11. ASSUME NEW p \in Parties, CallThrowsError(p) PROVE TypeOK'
  <2>1. row[p] \in Rows
    BY <1>1, <1>11, SizeAssumption
    DEF CallThrowsError, ColumnInv, Column, RunningColumn, Running, Rows, SizeAssumption
  <2>2. row[p] + 1 \in 0 .. PhaseCount
    BY <2>1, SizeAssumption DEF Rows, SizeAssumption
  <2>3. QED
    BY <1>1, <1>11, <2>2 DEF CallThrowsError
<1>12. ASSUME NEW p \in Parties, FailCell(p) PROVE TypeOK'
  <2>1. failRow[p] \in Rows
    BY <1>1, <1>12, SizeAssumption DEF FailCell, Rows, SizeAssumption
  <2>2. fut' \in [Cells -> {"pending", "ok", "failed"}]
    BY <1>1, <1>12, <2>1, CompleteOne DEF FailCell
  <2>3. failRow[p] + 1 \in 0 .. PhaseCount
    BY <2>1, SizeAssumption DEF Rows, SizeAssumption
  <2>4. QED
    BY <1>1, <1>12, <2>2, <2>3 DEF FailCell
<1>13. ASSUME NEW p \in Parties, CountFailure(p) PROVE TypeOK'
  <2>1. row[p] \in Rows
    BY <1>1, <1>13, SizeAssumption DEF CountFailure, ColumnInv, Column, FailingColumn, Rows, SizeAssumption
  <2>2. row[p] + 1 \in 0 .. PhaseCount
    BY <2>1, SizeAssumption DEF Rows, SizeAssumption
  <2>3. QED
    BY <1>1, <1>13, <2>2 DEF CountFailure
<1>14. ASSUME NEW p \in Parties, Arrive(p) PROVE TypeOK'
  <2>1. pc' = [pc EXCEPT ![p] = "arrived"]
    BY <1>14 DEF Arrive
  <2>2. partiesArrived' \in Nat
    BY <1>1, <1>14 DEF Arrive
  <2>3. QED
    BY <1>1, <1>14, <2>1, <2>2 DEF Arrive
<1>15. ASSUME NEW p \in Parties, NotifyAllFinished(p) PROVE TypeOK'
  BY <1>1, <1>15 DEF NotifyAllFinished
<1>16. ASSUME NEW p \in Parties, NotLast(p) PROVE TypeOK'
  BY <1>1, <1>16 DEF NotLast
<1>17. ASSUME NEW p \in Parties,
              AllFinishedReturns(p) \/ AllFinishedThrows(p)
              \/ FinishListenerReturns(p) \/ FinishListenerThrows(p)
       PROVE  TypeOK'
  BY <1>1, <1>17
  DEF AllFinishedReturns, AllFinishedThrows, FinishListenerReturns, FinishListenerThrows
<1>18. QED
  BY <1>1, <1>2, <1>3, <1>4, <1>5, <1>6, <1>7, <1>8, <1>9, <1>10, <1>11, <1>12, <1>13,
     <1>14, <1>15, <1>16, <1>17
  DEF Next, PartyStep, OwnStep, CallStep, ListenerStep

-----------------------------------------------------------------------------
(* Columns *)

\* A party's thread leaves the state of the other parties alone.
SameColumn(p) ==
    /\ pc'[p] = pc[p] /\ row'[p] = row[p] /\ failRow'[p] = failRow[p]
    /\ partyState'[p] = partyState[p] /\ (p \in escaped' <=> p \in escaped)
    /\ \A r \in Rows : fut'[<<r, p>>] = fut[<<r, p>>]

LEMMA OthersSame ==
  ASSUME IInv, NEW p \in Parties, NEW q \in Parties, q # p, PartyStep(p)
  PROVE  SameColumn(q)
<1>. USE DEF IInv, TypeOK, SameColumn, Goto, startVars, partyVars, enterVars, finishVars
<1>1. CASE CallReturns(p)
  <2>1. row[p] \in Rows
    BY <1>1, SizeAssumption
    DEF CallReturns, ColumnInv, Column, RunningColumn, Running, Rows, SizeAssumption
  <2>2. \A r \in Rows, u \in Parties :
          fut'[<<r, u>>] = IF r = row[p] /\ u = p /\ fut[<<r, u>>] = "pending"
                           THEN "ok" ELSE fut[<<r, u>>]
    BY <1>1, <2>1, CompleteOne DEF CallReturns, MyCell
  <2>3. QED
    BY <1>1, <2>2 DEF CallReturns
<1>2. CASE FailCell(p)
  <2>1. failRow[p] \in Rows
    BY <1>2, SizeAssumption DEF FailCell, Rows, SizeAssumption
  <2>2. \A r \in Rows, u \in Parties :
          fut'[<<r, u>>] = IF r = failRow[p] /\ u = p /\ fut[<<r, u>>] = "pending"
                           THEN "failed" ELSE fut[<<r, u>>]
    BY <1>2, <2>1, CompleteOne DEF FailCell
  <2>3. QED
    BY <1>2, <2>2 DEF FailCell
<1>3. CASE CallThrows(p) \/ CallThrowsError(p) \/ CountFailure(p)
  BY <1>3 DEF CallThrows, CallThrowsError, CountFailure
<1>4. CASE BeginPhase(p) \/ EnterPhase(p) \/ AnnouncePhase(p) \/ AnnounceThrows(p)
  BY <1>4 DEF BeginPhase, EnterPhase, AnnouncePhase, AnnounceThrows
<1>5. CASE Arrive(p) \/ NotifyAllFinished(p) \/ NotLast(p)
  BY <1>5 DEF Arrive, NotifyAllFinished, NotLast
<1>6. CASE \/ AllFinishedReturns(p) \/ AllFinishedThrows(p)
           \/ FinishListenerReturns(p) \/ FinishListenerThrows(p)
  BY <1>6
  DEF AllFinishedReturns, AllFinishedThrows, FinishListenerReturns, FinishListenerThrows
<1>7. QED
  BY <1>1, <1>2, <1>3, <1>4, <1>5, <1>6 DEF PartyStep, OwnStep, CallStep, ListenerStep

LEMMA SameColumnKept ==
  ASSUME NEW p \in Parties, Column(p), SameColumn(p)
  PROVE  Column(p)'
<1>1. RunningColumn(p)'
  BY DEF Column, RunningColumn, SameColumn
<1>2. FailingColumn(p)'
  BY DEF Column, FailingColumn, SameColumn
<1>3. FinalColumn(p)'
  BY LastRow DEF Column, FinalColumn, SameColumn
<1>4. QED
  BY <1>1, <1>2, <1>3 DEF Column

\* One of the three parts applies, the other two hold vacuously.
LEMMA OnePart ==
  ASSUME NEW p \in Parties
  PROVE  /\ pc'[p] \in Running /\ RunningColumn(p)' => Column(p)'
         /\ pc'[p] = "failing" /\ FailingColumn(p)' => Column(p)'
         /\ pc'[p] \in ArrivedStates \cup {"arriving"} /\ FinalColumn(p)' => Column(p)'
BY DEF Column, RunningColumn, FailingColumn, FinalColumn, Running, ArrivedStates

LEMMA OwnColumn ==
  ASSUME IInv, NEW p \in Parties, PartyStep(p)
  PROVE  Column(p)'
<1>1. /\ row[p] \in Int /\ row[p] <= PhaseCount /\ failRow[p] \in Int /\ failRow[p] <= PhaseCount
      /\ p \in DOMAIN pc /\ p \in DOMAIN row /\ p \in DOMAIN failRow /\ p \in DOMAIN partyState
  BY SizeAssumption DEF IInv, TypeOK, SizeAssumption
<1>2. RunningColumn(p) /\ FailingColumn(p) /\ FinalColumn(p)
  BY DEF IInv, ColumnInv, Column
<1>. USE LastRow DEF Goto, partyVars
<1>3. CASE BeginPhase(p) \/ EnterPhase(p) \/ AnnouncePhase(p)
  <2>1. /\ pc[p] \in Running /\ pc'[p] \in {"entering", "announcing", "call"}
        /\ row' = row /\ row[p] < PhaseCount
        /\ partyState' = partyState /\ escaped' = escaped /\ fut' = fut
    BY <1>1, <1>2, <1>3
    DEF BeginPhase, EnterPhase, AnnouncePhase, RunningColumn, Running
  <2>2. RunningColumn(p)'
    BY <1>2, <2>1 DEF RunningColumn
  <2>3. QED
    BY <2>1, <2>2, OnePart DEF Running
<1>4. CASE AnnounceThrows(p) \/ CallThrowsError(p)
  <2>1. /\ pc[p] \in Running /\ pc'[p] = "arriving" /\ partyState' = partyState
        /\ p \in escaped' /\ fut' = fut
    BY <1>1, <1>4 DEF AnnounceThrows, CallThrowsError, Running
  <2>2. FinalColumn(p)'
    BY <1>1, <1>2, <2>1 DEF RunningColumn, FinalColumn
  <2>3. QED
    BY <2>1, <2>2, OnePart
<1>5. CASE CallReturns(p)
  <2>1. /\ pc[p] = "call" /\ pc'[p] = "next" /\ row'[p] = row[p] + 1
        /\ partyState' = partyState /\ escaped' = escaped
    BY <1>1, <1>5 DEF CallReturns
  <2>2. row[p] \in Rows
    BY <1>5, SizeAssumption DEF CallReturns, IInv, TypeOK, ColumnInv, Column, RunningColumn,
                                Running, Rows, SizeAssumption
  <2>3. \A r \in Rows, u \in Parties :
          fut'[<<r, u>>] = IF r = row[p] /\ u = p /\ fut[<<r, u>>] = "pending"
                           THEN "ok" ELSE fut[<<r, u>>]
    BY <1>5, <2>2, CompleteOne DEF CallReturns, MyCell, IInv
  <2>4. RunningColumn(p)'
    BY <1>1, <1>2, <2>1, <2>2, <2>3 DEF RunningColumn, Running
  <2>5. QED
    BY <2>1, <2>4, OnePart DEF Running
<1>6. CASE CallThrows(p)
  <2>1. /\ pc[p] = "call" /\ pc'[p] = "failing" /\ row' = row /\ failRow'[p] = row[p]
        /\ partyState'[p] = "BROKEN" /\ escaped' = escaped /\ fut' = fut
    BY <1>1, <1>6 DEF CallThrows
  <2>2. FailingColumn(p)'
    BY <1>1, <1>2, <2>1 DEF RunningColumn, FailingColumn, Running
  <2>3. QED
    BY <2>1, <2>2, OnePart
<1>7. CASE FailCell(p)
  <2>1. /\ pc[p] = "failing" /\ pc' = pc /\ row' = row /\ failRow'[p] = failRow[p] + 1
        /\ partyState' = partyState /\ escaped' = escaped
    BY <1>1, <1>7 DEF FailCell
  <2>2. failRow[p] \in Rows
    BY <1>7, SizeAssumption DEF FailCell, IInv, TypeOK, Rows, SizeAssumption
  <2>3. \A r \in Rows, u \in Parties :
          fut'[<<r, u>>] = IF r = failRow[p] /\ u = p /\ fut[<<r, u>>] = "pending"
                           THEN "failed" ELSE fut[<<r, u>>]
    BY <1>7, <2>2, CompleteOne DEF FailCell, IInv
  <2>4. FailingColumn(p)'
    BY <1>1, <1>2, <2>1, <2>2, <2>3 DEF FailingColumn
  <2>5. QED
    BY <2>1, <2>4, OnePart
<1>8. CASE CountFailure(p)
  <2>1. /\ pc[p] = "failing" /\ failRow[p] = PhaseCount /\ pc'[p] = "arriving"
        /\ partyState' = partyState /\ escaped' = escaped /\ fut' = fut
    BY <1>1, <1>8 DEF CountFailure
  <2>2. \A r \in Rows : fut[<<r, p>>] = IF r < row[p] THEN "ok" ELSE "failed"
    BY <1>1, <1>2, <2>1 DEF FailingColumn
  <2>3. row[p] <= PhaseCount - 1 /\ partyState[p] = "BROKEN"
    BY <1>1, <1>2, <2>1, SizeAssumption DEF FailingColumn, SizeAssumption
  <2>4. FinalColumn(p)'
    BY <1>1, <2>1, <2>2, <2>3 DEF FinalColumn
  <2>5. QED
    BY <2>1, <2>4, OnePart
<1>9. CASE Arrive(p)
  <2>1. /\ pc'[p] = "arrived" /\ partyState' = partyState /\ escaped' = escaped /\ fut' = fut
        /\ pc[p] = "arriving" \/ (pc[p] = "next" /\ row[p] = PhaseCount)
    <3>1. pc' = [pc EXCEPT ![p] = "arrived"]
      BY <1>9 DEF Arrive
    <3>2. QED
      BY <1>1, <1>9, <3>1 DEF Arrive
  <2>2. FinalColumn(p)'
    <3>1. CASE pc[p] = "arriving"
      BY <1>2, <2>1, <3>1 DEF FinalColumn
    <3>2. CASE pc[p] = "next" /\ row[p] = PhaseCount
      <4>1. partyState[p] = "WAITING" /\ \A r \in Rows : fut[<<r, p>>] = "ok"
        BY <1>2, <3>2 DEF RunningColumn, Running
      <4>2. QED
        BY <2>1, <4>1 DEF FinalColumn
    <3>3. QED
      BY <2>1, <3>1, <3>2
  <2>3. QED
    BY <2>1, <2>2, OnePart DEF ArrivedStates
<1>10. CASE \/ NotifyAllFinished(p) \/ NotLast(p) \/ AllFinishedReturns(p)
            \/ AllFinishedThrows(p) \/ FinishListenerReturns(p) \/ FinishListenerThrows(p)
  <2>1. /\ pc[p] \in ArrivedStates /\ pc'[p] \in ArrivedStates
        /\ partyState' = partyState /\ escaped' = escaped /\ fut' = fut
    BY <1>1, <1>10
    DEF ArrivedStates, NotifyAllFinished, NotLast, AllFinishedReturns, AllFinishedThrows,
        FinishListenerReturns, FinishListenerThrows
  <2>2. FinalColumn(p)'
    BY <1>2, <2>1 DEF FinalColumn
  <2>3. QED
    BY <2>1, <2>2, OnePart
<1>11. QED
  BY <1>3, <1>4, <1>5, <1>6, <1>7, <1>8, <1>9, <1>10
  DEF PartyStep, OwnStep, CallStep, ListenerStep

LEMMA InitInv == Init => IInv
<1>1. SUFFICES ASSUME Init PROVE IInv
  OBVIOUS
<1>2. allFinished \in Seq(Nat)
  BY <1>1 DEF Init
<1>3. TypeOK
  BY <1>1, <1>2, SizeAssumption DEF Init, TypeOK, ArrivedStates, SizeAssumption
<1>4. ColumnInv
  <2>1. ASSUME NEW p \in Parties PROVE Column(p)
    <3>1. \A r \in Rows : <<r, p>> \in Cells /\ ~(r < 0)
      BY SizeAssumption DEF Cells, Rows, SizeAssumption
    <3>2. RunningColumn(p)
      BY <1>1, <3>1 DEF Init, RunningColumn
    <3>3. QED
      BY <1>1, <3>2 DEF Init, Column, FailingColumn, FinalColumn, ArrivedStates
  <2>2. QED
    BY <2>1 DEF ColumnInv
<1>5. CountInv
  <2>1. ArrivedParties = {} /\ CountedBroken = {}
    BY <1>1 DEF Init, ArrivedParties, Arrived, ArrivedStates, CountedBroken, BrokenParties
  <2>2. QED
    BY <1>1, <2>1, FS_EmptySet DEF Init, CountInv, AllFinishedIsLast
<1>6. PhaseInv
  BY <1>1 DEF Init, PhaseInv
<1>7. IdleInv
  BY <1>1 DEF Init, IdleInv
<1>8. QED
  BY <1>3, <1>4, <1>5, <1>6, <1>7 DEF IInv

\* A step of the starter or a stutter touches no column but the one submitted.
LEMMA ColumnStep == IInv /\ [Next]_gridVars => ColumnInv'
<1>1. SUFFICES ASSUME IInv, [Next]_gridVars, NEW q \in Parties PROVE Column(q)'
  BY DEF ColumnInv
<1>2. Column(q) /\ TypeOK /\ IdleInv
  BY <1>1 DEF IInv, ColumnInv
<1>3. CASE Submit
  <2>1. CASE q = submitted
    <3>1. pc[q] = "idle" /\ pc'[q] = "next" /\ UNCHANGED partyVars
      BY <1>2, <1>3, <2>1 DEF Submit, IdleInv, TypeOK, Parties
    <3>2. RunningColumn(q)'
      BY <1>2, <3>1 DEF Column, RunningColumn, Running, partyVars
    <3>3. QED
      BY <3>1, <3>2, OnePart DEF Running
  <2>2. CASE q # submitted
    BY <1>2, <1>3, <2>2, SameColumnKept DEF SameColumn, Submit, TypeOK, partyVars
  <2>3. QED
    BY <2>1, <2>2
<1>4. CASE Reject \/ UNCHANGED gridVars
  BY <1>2, <1>4, SameColumnKept DEF SameColumn, Reject, gridVars, partyVars
<1>5. ASSUME NEW p \in Parties, PartyStep(p) PROVE Column(q)'
  <2>1. CASE p = q
    BY <1>1, <1>5, <2>1, OwnColumn
  <2>2. CASE p # q
    BY <1>1, <1>2, <1>5, <2>2, OthersSame, SameColumnKept
  <2>3. QED
    BY <2>1, <2>2
<1>6. QED
  BY <1>1, <1>3, <1>4, <1>5 DEF Next

\* A thread that moves has been submitted.
LEMMA MovesFrom ==
  ASSUME NEW p \in Parties, PartyStep(p)
  PROVE  pc[p] \notin {"idle", "done"} /\ UNCHANGED startVars
BY DEF PartyStep, OwnStep, CallStep, ListenerStep, Goto, BeginPhase, EnterPhase, AnnouncePhase,
       AnnounceThrows, CallReturns, CallThrows, CallThrowsError, FailCell, CountFailure, Arrive,
       NotifyAllFinished, NotLast, AllFinishedReturns, AllFinishedThrows,
       FinishListenerReturns, FinishListenerThrows

LEMMA IdleStep == IInv /\ [Next]_gridVars => IdleInv'
<1>1. SUFFICES ASSUME IInv, [Next]_gridVars, NEW q \in Parties, q >= submitted'
               PROVE  pc'[q] = "idle"
  BY DEF IdleInv
<1>2. TypeOK /\ q \in Int /\ submitted \in Int
  <2>1. TypeOK
    BY <1>1 DEF IInv
  <2>2. q \in Int /\ submitted \in Int
    BY <2>1, SizeAssumption DEF TypeOK, Parties, SizeAssumption
  <2>3. QED
    BY <2>1, <2>2
<1>3. CASE Submit
  BY <1>1, <1>2, <1>3 DEF Submit, TypeOK, IInv, IdleInv
<1>4. CASE Reject \/ UNCHANGED gridVars
  BY <1>1, <1>4 DEF Reject, gridVars, startVars, IInv, IdleInv
<1>5. ASSUME NEW p \in Parties, PartyStep(p) PROVE pc'[q] = "idle"
  <2>1. pc[q] = "idle" /\ p # q
    BY <1>1, <1>5, MovesFrom DEF IInv, IdleInv, startVars
  <2>2. QED
    BY <1>1, <1>5, <2>1, OthersSame DEF SameColumn
<1>6. QED
  BY <1>1, <1>3, <1>4, <1>5 DEF Next

-----------------------------------------------------------------------------
(* The announcement of a phase *)

\* A party that does not come to announce changes nothing.
LEMMA PhaseSame ==
  ASSUME PhaseInv, UNCHANGED enterVars, NEW p \in Parties,
         \A q \in Parties : q # p => pc'[q] = pc[q] /\ row'[q] = row[q],
         pc'[p] # "announcing",
         pc'[p] = "call" => phaseEntered[row'[p]]
  PROVE  PhaseInv'
BY DEF PhaseInv, enterVars

\* The mark and the right to announce go together, to one thread: only the
\* actions that enter, announce or leave a row matter.
LEMMA PhaseStep == IInv /\ [Next]_gridVars => PhaseInv'
<1>1. SUFFICES ASSUME IInv, [Next]_gridVars PROVE PhaseInv'
  OBVIOUS
<1>2. TypeOK /\ PhaseInv /\ ColumnInv
  BY <1>1 DEF IInv
<1>. USE DEF Goto
<1>3. CASE Submit
  BY <1>2, <1>3 DEF Submit, TypeOK, partyVars, enterVars, PhaseInv
<1>4. CASE Reject \/ UNCHANGED gridVars
  BY <1>2, <1>4 DEF Reject, gridVars, partyVars, enterVars, PhaseInv
<1>5. ASSUME NEW p \in Parties, BeginPhase(p) PROVE PhaseInv'
  <2>1. p \in DOMAIN pc
    BY <1>2 DEF TypeOK
  <2>2. UNCHANGED enterVars /\ pc'[p] # "announcing" /\ (pc'[p] = "call" => phaseEntered[row'[p]])
    BY <1>5, <2>1 DEF BeginPhase, partyVars, enterVars
  <2>3. PartyStep(p)
    BY <1>5 DEF PartyStep, OwnStep
  <2>4. QED
    BY <1>1, <1>2, <1>5, <2>2, <2>3, OthersSame, PhaseSame DEF SameColumn
<1>6. ASSUME NEW p \in Parties, EnterPhase(p) PROVE PhaseInv'
  <2>1. row[p] \in Rows
    BY <1>2, <1>6, SizeAssumption
    DEF EnterPhase, TypeOK, ColumnInv, Column, RunningColumn, Running, Rows, SizeAssumption
  <2>2. \A r \in Rows : phaseEntered'[r] <=> (r = row[p] \/ phaseEntered[r])
    BY <1>2, <1>6, <2>1 DEF EnterPhase, TypeOK
  <2>3. /\ row' = row /\ announced' = announced
        /\ \A q \in Parties \ {p} : pc'[q] = pc[q]
        /\ pc'[p] = IF phaseEntered[row[p]] THEN "call" ELSE "announcing"
    BY <1>2, <1>6 DEF EnterPhase, TypeOK, partyVars
  <2>4. \A q \in Parties : pc[q] \in {"call", "announcing"} => row[q] \in Rows
    BY <1>2, SizeAssumption
    DEF TypeOK, ColumnInv, Column, RunningColumn, Running, Rows, SizeAssumption
  <2>5. QED
    BY <1>2, <2>1, <2>2, <2>3, <2>4 DEF PhaseInv
<1>7. ASSUME NEW p \in Parties, AnnouncePhase(p) PROVE PhaseInv'
  <2>1. row[p] \in Rows
    BY <1>2, <1>7, SizeAssumption
    DEF AnnouncePhase, TypeOK, ColumnInv, Column, RunningColumn, Running, Rows, SizeAssumption
  <2>2. \A r \in Rows : announced'[r] = IF r = row[p] THEN announced[r] + 1 ELSE announced[r]
    BY <1>2, <1>7, <2>1 DEF AnnouncePhase, TypeOK
  <2>3. /\ row' = row /\ phaseEntered' = phaseEntered
        /\ \A q \in Parties \ {p} : pc'[q] = pc[q]
        /\ pc[p] = "announcing" /\ pc'[p] = "call"
    BY <1>2, <1>7 DEF AnnouncePhase, TypeOK, partyVars
  <2>4. \A q \in Parties : pc[q] \in {"call", "announcing"} => row[q] \in Rows
    BY <1>2, SizeAssumption
    DEF TypeOK, ColumnInv, Column, RunningColumn, Running, Rows, SizeAssumption
  <2>5. QED
    BY <1>2, <2>1, <2>2, <2>3, <2>4 DEF PhaseInv
<1>8. ASSUME NEW p \in Parties, PartyStep(p), ~BeginPhase(p), ~EnterPhase(p), ~AnnouncePhase(p)
      PROVE  PhaseInv'
  <2>1. p \in DOMAIN pc
    BY <1>2 DEF TypeOK
  <2>2. UNCHANGED enterVars /\ pc'[p] \notin {"announcing", "call"}
    BY <1>8, <2>1
    DEF PartyStep, OwnStep, CallStep, ListenerStep, AnnounceThrows, CallReturns, CallThrows,
        CallThrowsError, FailCell, CountFailure, Arrive, NotifyAllFinished, NotLast,
        AllFinishedReturns, AllFinishedThrows, FinishListenerReturns, FinishListenerThrows,
        enterVars
  <2>3. QED
    BY <1>1, <1>2, <1>8, <2>2, OthersSame, PhaseSame DEF SameColumn
<1>9. QED
  BY <1>1, <1>3, <1>4, <1>5, <1>6, <1>7, <1>8 DEF Next

-----------------------------------------------------------------------------
(* The counters *)

LEMMA PartiesFinite == IsFiniteSet(Parties) /\ Cardinality(Parties) = PartyCount
BY FS_Interval, SizeAssumption DEF Parties, SizeAssumption

LEMMA SubsetsFinite ==
  /\ IsFiniteSet(ArrivedParties) /\ IsFiniteSet(CountedBroken)
  /\ Cardinality(ArrivedParties) = Cardinality(Parties) => ArrivedParties = Parties
<1>1. ArrivedParties \in SUBSET Parties /\ CountedBroken \in SUBSET Parties
  BY DEF ArrivedParties, CountedBroken, BrokenParties
<1>2. QED
  BY <1>1, PartiesFinite, FS_Subset

\* Steps that leave the counters and the sets they count alone.
LEMMA CountSame ==
  ASSUME CountInv, ArrivedParties' = ArrivedParties, CountedBroken' = CountedBroken,
         UNCHANGED <<partiesArrived, partiesFailed, allFinished>>,
         allFinished # <<>> => BrokenParties' = BrokenParties
  PROVE  CountInv'
<1>1. \A p \in Parties : Arrived(p)' <=> Arrived(p)
  BY DEF ArrivedParties
<1>2. AllFinishedIsLast'
  <2>1. CASE allFinished = <<>>
    BY <2>1 DEF AllFinishedIsLast
  <2>2. CASE allFinished # <<>>
    BY <1>1, <2>2 DEF CountInv, AllFinishedIsLast, BrokenParties
  <2>3. QED
    BY <2>1, <2>2
<1>3. QED
  BY <1>2 DEF CountInv

\* What one thread does moves at most that party in or out of a set.
LEMMA SetsOfOthers ==
  ASSUME IInv, NEW p \in Parties, PartyStep(p)
  PROVE  /\ (Arrived(p)' <=> Arrived(p)) => ArrivedParties' = ArrivedParties
         /\ Arrived(p)' => ArrivedParties' = ArrivedParties \cup {p}
         /\ (p \in CountedBroken' <=> p \in CountedBroken) => CountedBroken' = CountedBroken
         /\ p \in CountedBroken' => CountedBroken' = CountedBroken \cup {p}
         /\ partyState'[p] = partyState[p] => BrokenParties' = BrokenParties
<1>1. \A q \in Parties : q # p => pc'[q] = pc[q] /\ partyState'[q] = partyState[q]
  BY OthersSame DEF SameColumn
<1>2. QED
  BY <1>1 DEF ArrivedParties, Arrived, CountedBroken, BrokenParties

\* All parties have arrived once the owner has been notified, so nobody breaks.
LEMMA NotYetOver ==
  ASSUME IInv, NEW p \in Parties, ~Arrived(p)
  PROVE  allFinished = <<>>
BY DEF IInv, CountInv, AllFinishedIsLast

LEMMA CountQuiet ==
  ASSUME IInv, NEW p \in Parties, PartyStep(p),
         ~CountFailure(p), ~Arrive(p), ~NotifyAllFinished(p)
  PROVE  CountInv'
<1>1. p \in DOMAIN pc /\ p \in DOMAIN partyState
  BY DEF IInv, TypeOK
<1>2. RunningColumn(p) /\ FailingColumn(p)
  BY DEF IInv, ColumnInv, Column
<1>3. UNCHANGED <<partiesArrived, partiesFailed, allFinished>>
  BY DEF PartyStep, OwnStep, CallStep, ListenerStep, BeginPhase, EnterPhase, AnnouncePhase,
         AnnounceThrows, CallReturns, CallThrows, CallThrowsError, FailCell, NotLast,
         AllFinishedReturns, AllFinishedThrows, FinishListenerReturns, FinishListenerThrows,
         finishVars
<1>4. CASE CallThrows(p)
  <2>1. pc[p] = "call" /\ pc'[p] = "failing" /\ partyState[p] = "WAITING"
    BY <1>1, <1>2, <1>4 DEF CallThrows, Goto, RunningColumn, Running
  <2>2. ~Arrived(p) /\ ~Arrived(p)' /\ p \notin CountedBroken /\ p \notin CountedBroken'
    BY <2>1 DEF Arrived, ArrivedStates, CountedBroken, BrokenParties
  <2>3. QED
    BY <1>3, <2>2, NotYetOver, SetsOfOthers, CountSame DEF IInv
<1>5. CASE FailCell(p)
  <2>1. pc[p] = "failing" /\ pc'[p] = "failing" /\ partyState' = partyState
    BY <1>5 DEF FailCell
  <2>2. ~Arrived(p) /\ ~Arrived(p)' /\ p \notin CountedBroken /\ p \notin CountedBroken'
    BY <2>1 DEF Arrived, ArrivedStates, CountedBroken, BrokenParties
  <2>3. QED
    BY <1>3, <2>2, NotYetOver, SetsOfOthers, CountSame DEF IInv
<1>6. CASE ~CallThrows(p) /\ ~FailCell(p)
  <2>1. /\ pc[p] # "failing" /\ pc'[p] # "failing" /\ partyState' = partyState
        /\ pc'[p] \in ArrivedStates <=> pc[p] \in ArrivedStates
    BY <1>1, <1>6
    DEF PartyStep, OwnStep, CallStep, ListenerStep, Goto, BeginPhase, EnterPhase, AnnouncePhase,
        AnnounceThrows, CallReturns, CallThrowsError, NotLast, AllFinishedReturns,
        AllFinishedThrows, FinishListenerReturns, FinishListenerThrows, partyVars, ArrivedStates
  <2>2. (Arrived(p)' <=> Arrived(p)) /\ (p \in CountedBroken' <=> p \in CountedBroken)
    BY <2>1 DEF Arrived, CountedBroken, BrokenParties
  <2>3. QED
    BY <1>3, <2>1, <2>2, SetsOfOthers, CountSame DEF IInv
<1>7. QED
  BY <1>4, <1>5, <1>6

LEMMA CountStep == IInv /\ [Next]_gridVars => CountInv'
<1>1. SUFFICES ASSUME IInv, [Next]_gridVars PROVE CountInv'
  OBVIOUS
<1>2. TypeOK /\ CountInv /\ ColumnInv /\ IdleInv
  BY <1>1 DEF IInv
<1>3. CASE Submit
  <2>1. pc[submitted] = "idle" /\ pc' = [pc EXCEPT ![submitted] = "next"] /\ submitted \in Parties
    BY <1>2, <1>3, SizeAssumption DEF Submit, IdleInv, TypeOK, Parties, SizeAssumption
  <2>2. /\ \A q \in Parties : Arrived(q)' <=> Arrived(q)
        /\ \A q \in Parties : pc'[q] = "failing" <=> pc[q] = "failing"
    BY <1>2, <2>1 DEF TypeOK, Arrived, ArrivedStates
  <2>3. UNCHANGED <<partyState, partiesArrived, partiesFailed, allFinished>>
    BY <1>3 DEF Submit, partyVars, finishVars
  <2>4. QED
    BY <1>2, <2>2, <2>3, CountSame DEF ArrivedParties, CountedBroken, BrokenParties
<1>4. CASE Reject \/ UNCHANGED gridVars
  <2>1. UNCHANGED <<pc, partyState, partiesArrived, partiesFailed, allFinished>>
    BY <1>4 DEF Reject, gridVars, partyVars, finishVars
  <2>2. QED
    BY <1>2, <2>1, CountSame DEF ArrivedParties, Arrived, CountedBroken, BrokenParties
<1>5. ASSUME NEW p \in Parties, CountFailure(p) PROVE CountInv'
  <2>1. PartyStep(p) /\ p \in DOMAIN pc
    BY <1>2, <1>5 DEF PartyStep, OwnStep, TypeOK
  <2>2. /\ pc[p] = "failing" /\ pc'[p] = "arriving" /\ partyState' = partyState
        /\ partiesFailed' = partiesFailed + 1
        /\ UNCHANGED <<partiesArrived, allFinished>> /\ partyState[p] = "BROKEN"
    BY <1>2, <1>5, <2>1 DEF CountFailure, Goto, ColumnInv, Column, FailingColumn
  <2>3. ~Arrived(p) /\ ~Arrived(p)' /\ p \notin CountedBroken /\ p \in CountedBroken'
    BY <2>2 DEF Arrived, ArrivedStates, CountedBroken, BrokenParties
  <2>4. ArrivedParties' = ArrivedParties /\ CountedBroken' = CountedBroken \cup {p}
    BY <1>1, <2>1, <2>3, SetsOfOthers
  <2>5. partiesFailed' = Cardinality(CountedBroken')
    BY <1>2, <2>2, <2>3, <2>4, SubsetsFinite, FS_AddElement DEF CountInv
  <2>6. allFinished' = <<>>
    BY <1>1, <2>2, <2>3, NotYetOver
  <2>7. QED
    BY <1>2, <2>2, <2>4, <2>5, <2>6 DEF CountInv, AllFinishedIsLast
<1>6. ASSUME NEW p \in Parties, Arrive(p) PROVE CountInv'
  <2>1. PartyStep(p) /\ p \in DOMAIN pc
    BY <1>2, <1>6 DEF PartyStep, OwnStep, TypeOK
  <2>2. /\ pc[p] \in {"arriving", "next"} /\ pc'[p] = "arrived" /\ partyState' = partyState
        /\ partiesArrived' = partiesArrived + 1 /\ UNCHANGED <<partiesFailed, allFinished>>
    BY <1>6, <2>1 DEF Arrive, Goto, partyVars
  <2>3. /\ ~Arrived(p) /\ Arrived(p)' /\ p \notin ArrivedParties
        /\ p \in CountedBroken' <=> p \in CountedBroken
    BY <2>2 DEF Arrived, ArrivedStates, ArrivedParties, CountedBroken, BrokenParties
  <2>4. ArrivedParties' = ArrivedParties \cup {p} /\ CountedBroken' = CountedBroken
    BY <1>1, <2>1, <2>3, SetsOfOthers
  <2>5. partiesArrived' = Cardinality(ArrivedParties')
    BY <1>2, <2>2, <2>3, <2>4, SubsetsFinite, FS_AddElement DEF CountInv
  <2>6. allFinished' = <<>>
    BY <1>1, <2>2, <2>3, NotYetOver
  <2>7. QED
    BY <1>2, <2>2, <2>4, <2>5, <2>6 DEF CountInv, AllFinishedIsLast
<1>7. ASSUME NEW p \in Parties, NotifyAllFinished(p) PROVE CountInv'
  <2>1. PartyStep(p) /\ p \in DOMAIN pc
    BY <1>2, <1>7 DEF PartyStep, OwnStep, TypeOK
  <2>2. /\ pc[p] = "arrived" /\ pc'[p] = "notifying" /\ partyState' = partyState
        /\ partiesArrived = PartyCount /\ allFinished' = Append(allFinished, partiesFailed)
        /\ UNCHANGED <<partiesArrived, partiesFailed>>
    BY <1>7, <2>1 DEF NotifyAllFinished, Goto, partyVars
  <2>3. /\ Arrived(p) /\ Arrived(p)'
        /\ p \in CountedBroken' <=> p \in CountedBroken
    BY <2>2 DEF Arrived, ArrivedStates, CountedBroken, BrokenParties
  <2>4. /\ ArrivedParties' = ArrivedParties /\ CountedBroken' = CountedBroken
        /\ BrokenParties' = BrokenParties
    BY <1>1, <2>1, <2>2, <2>3, SetsOfOthers
  <2>5. ArrivedParties = Parties
    BY <1>2, <2>2, SubsetsFinite, PartiesFinite DEF CountInv
  <2>6. \A q \in Parties : Arrived(q) /\ Arrived(q)'
    BY <2>4, <2>5 DEF ArrivedParties
  <2>7. CountedBroken = BrokenParties
    BY <2>6 DEF CountedBroken, BrokenParties, Arrived, ArrivedStates
  <2>8. partiesFailed = Cardinality(BrokenParties)
    BY <1>2, <2>7 DEF CountInv
  <2>9. \A i \in 1 .. Len(allFinished') : allFinished'[i] = Cardinality(BrokenParties)
    <3>1. \A i \in 1 .. Len(allFinished) : allFinished[i] = Cardinality(BrokenParties)
      BY <1>2 DEF CountInv, AllFinishedIsLast, BrokenParties
    <3>2. allFinished \in Seq(Nat) /\ partiesFailed \in Nat
      BY <1>2 DEF TypeOK
    <3>3. QED
      BY <2>2, <2>8, <3>1, <3>2
  <2>10. AllFinishedIsLast'
    BY <2>4, <2>6, <2>9 DEF AllFinishedIsLast, BrokenParties
  <2>11. QED
    BY <1>2, <2>2, <2>4, <2>10 DEF CountInv
<1>8. ASSUME NEW p \in Parties, PartyStep(p),
             ~CountFailure(p), ~Arrive(p), ~NotifyAllFinished(p)
      PROVE  CountInv'
  BY <1>1, <1>8, CountQuiet
<1>9. QED
  BY <1>1, <1>3, <1>4, <1>5, <1>6, <1>7, <1>8 DEF Next

-----------------------------------------------------------------------------
(* The theorems *)

\* The inductive invariant holds throughout.
THEOREM Invariant == Spec => []IInv
<1>1. IInv /\ [Next]_gridVars => IInv'
  BY TypeStep, ColumnStep, CountStep, PhaseStep, IdleStep DEF IInv
<1>2. QED
  BY InitInv, <1>1, PTL DEF Spec

\* Every variable keeps to its type: no phase index runs past the table.
THEOREM TypeCorrect == Spec => []TypeOK
<1>1. IInv => TypeOK
  BY DEF IInv
<1>2. QED
  BY Invariant, <1>1, PTL

\* Whatever the number of parties and phases: a party that has arrived, and from
\* which no Throwable escaped, has completed all its futures.
THEOREM NobodyWaitsInVain == Spec => []NobodyLeftWaiting
<1>1. IInv => NobodyLeftWaiting
  BY DEF IInv, ColumnInv, Column, FinalColumn, NobodyLeftWaiting, Arrived
<1>2. QED
  BY Invariant, <1>1, PTL

\* The cells of a party settle from the first phase to the last, and fail to the
\* end once one has failed.
THEOREM SettleInOrder == Spec => []CellsSettleInOrder
<1>1. ASSUME IInv PROVE CellsSettleInOrder
  <2>1. SUFFICES ASSUME NEW p \in Parties, NEW r \in Rows, NEW s \in Rows, r < s
                 PROVE  /\ fut[<<s, p>>] = "ok" => fut[<<r, p>>] = "ok"
                        /\ fut[<<s, p>>] = "failed" => fut[<<r, p>>] # "pending"
    BY DEF CellsSettleInOrder
  <2>2. /\ row[p] \in Int /\ failRow[p] \in Int /\ r \in Int /\ s \in Int
        /\ pc[p] \in Running \cup {"failing"} \cup ArrivedStates \cup {"arriving"}
    BY <1>1, LastRow DEF IInv, TypeOK, Running
  <2>3. Column(p)
    BY <1>1 DEF IInv, ColumnInv
  <2>4. CASE pc[p] \in Running
    BY <2>1, <2>2, <2>3, <2>4 DEF Column, RunningColumn
  <2>5. CASE pc[p] = "failing"
    BY <2>1, <2>2, <2>3, <2>5 DEF Column, FailingColumn
  <2>6. CASE pc[p] \in ArrivedStates \cup {"arriving"}
    BY <2>1, <2>3, <2>6 DEF Column, FinalColumn
  <2>7. QED
    BY <2>2, <2>4, <2>5, <2>6
<1>2. QED
  BY Invariant, <1>1, PTL

\* Failed cells belong to broken parties, and a broken party shows it in the end.
THEOREM FailureShows == Spec => []FailedMeansBroken
<1>1. ASSUME IInv PROVE FailedMeansBroken
  <2>1. SUFFICES ASSUME NEW p \in Parties
                 PROVE  /\ \A r \in Rows : fut[<<r, p>>] = "failed" => partyState[p] = "BROKEN"
                        /\ partyState[p] = "BROKEN" /\ Arrived(p)
                             => fut[<<PhaseCount - 1, p>>] = "failed"
    BY DEF FailedMeansBroken
  <2>2. pc[p] \in Running \cup {"failing"} \cup ArrivedStates \cup {"arriving"}
    BY <1>1 DEF IInv, TypeOK, Running
  <2>3. Column(p)
    BY <1>1 DEF IInv, ColumnInv
  <2>4. QED
    BY <2>2, <2>3 DEF Column, RunningColumn, FailingColumn, FinalColumn, Arrived, ArrivedStates
<1>2. QED
  BY Invariant, <1>1, PTL

\* The owner is notified after everybody's last step, and told the right number
\* of failures, however many threads see the last arrival.
THEOREM NotifiedLast == Spec => []AllFinishedIsLast
<1>1. IInv => AllFinishedIsLast
  BY DEF IInv, CountInv
<1>2. QED
  BY Invariant, <1>1, PTL

\* No phase is announced twice, in spite of the unsynchronised first look.
THEOREM AnnouncedOnce == Spec => []PhaseAnnouncedOnce
<1>1. IInv => PhaseAnnouncedOnce
  BY DEF IInv, PhaseInv, PhaseAnnouncedOnce
<1>2. QED
  BY Invariant, <1>1, PTL

-----------------------------------------------------------------------------
(* The grid implements GridPromise *)

\* Deciding a cell, in the words of the promise.
LEMMA Decides ==
  ASSUME IInv, NEW p \in Parties, NEW r \in Rows, NEW outcome \in {"ok", "failed"},
         fut[<<r, p>>] = "pending",
         \A s \in Rows : s < r => fut[<<s, p>>] # "pending",
         outcome = "ok" => \A s \in Rows : fut[<<s, p>>] # "failed",
         Complete(<<r, p>>, outcome),
         UNCHANGED <<allFinished, escaped>>
  PROVE  Promise!Next
<1>1. <<r, p>> \in Cells
  BY DEF Cells
<1>2. fut' = [fut EXCEPT ![<<r, p>>] = outcome]
  BY <1>1 DEF Complete, IInv, TypeOK
<1>3. Promise!Decide(r, p, outcome)
  BY <1>2 DEF Promise!Decide, Promise!Phases, Rows
<1>4. QED
  BY <1>3 DEF Promise!Next, Promise!Phases, Promise!Columns, Rows, Parties

LEMMA PromiseStep == IInv /\ [Next]_gridVars => [Promise!Next]_(Promise!promiseVars)
<1>1. SUFFICES ASSUME IInv, [Next]_gridVars
               PROVE  Promise!Next \/ UNCHANGED <<fut, allFinished # <<>> /\ escaped = {}>>
  BY DEF Promise!promiseVars
<1>2. TypeOK /\ ColumnInv /\ CountInv
  BY <1>1 DEF IInv
<1>3. CASE Submit \/ Reject \/ UNCHANGED gridVars
  BY <1>3 DEF Submit, Reject, gridVars, partyVars, finishVars
<1>4. ASSUME NEW p \in Parties, CallReturns(p) PROVE Promise!Next
  <2>1. /\ pc[p] = "call" /\ Complete(<<row[p], p>>, "ok") /\ UNCHANGED <<allFinished, escaped>>
    BY <1>4 DEF CallReturns, Goto, MyCell, finishVars
  <2>2. RunningColumn(p) /\ row[p] \in Rows
    BY <1>2, <2>1, SizeAssumption
    DEF TypeOK, ColumnInv, Column, RunningColumn, Running, Rows, SizeAssumption
  <2>3. QED
    BY <1>1, <2>1, <2>2, LastRow, Decides DEF RunningColumn, Running
<1>5. ASSUME NEW p \in Parties, FailCell(p) PROVE Promise!Next
  <2>1. /\ pc[p] = "failing" /\ Complete(<<failRow[p], p>>, "failed")
        /\ UNCHANGED <<allFinished, escaped>>
    BY <1>5 DEF FailCell, finishVars
  <2>2. FailingColumn(p) /\ failRow[p] \in Rows /\ row[p] \in Int
    BY <1>2, <1>5, SizeAssumption
    DEF FailCell, TypeOK, ColumnInv, Column, Rows, SizeAssumption
  <2>3. QED
    BY <1>1, <2>1, <2>2, LastRow, Decides DEF FailingColumn
<1>6. ASSUME NEW p \in Parties, NotifyAllFinished(p)
      PROVE  Promise!Next \/ UNCHANGED <<fut, allFinished # <<>> /\ escaped = {}>>
  <2>1. /\ partiesArrived = PartyCount /\ UNCHANGED <<fut, escaped>>
        /\ allFinished' = Append(allFinished, partiesFailed)
    BY <1>6 DEF NotifyAllFinished, partyVars
  <2>2. CASE escaped # {}
    BY <2>1, <2>2
  <2>3. CASE escaped = {}
    <3>1. ArrivedParties = Parties
      BY <1>2, <2>1, SubsetsFinite, PartiesFinite DEF CountInv
    <3>2. \A q \in Parties, r \in Rows : fut[<<r, q>>] # "pending"
      BY <1>2, <2>3, <3>1 DEF ArrivedParties, Arrived, ColumnInv, Column, FinalColumn
    <3>3. allFinished' # <<>>
      BY <1>2, <2>1 DEF TypeOK
    <3>4. Promise!DeclareOver
      BY <2>1, <2>3, <3>2, <3>3
      DEF Promise!DeclareOver, Promise!Phases, Promise!Columns, Rows, Parties
    <3>5. QED
      BY <3>4 DEF Promise!Next
  <2>4. QED
    BY <2>2, <2>3
<1>7. ASSUME NEW p \in Parties, AnnounceThrows(p) \/ CallThrowsError(p)
      PROVE  UNCHANGED <<fut, allFinished # <<>> /\ escaped = {}>>
  <2>1. ~Arrived(p) /\ UNCHANGED <<fut, allFinished>>
    BY <1>7
    DEF AnnounceThrows, CallThrowsError, Goto, Arrived, ArrivedStates, finishVars
  <2>2. allFinished = <<>>
    BY <1>1, <2>1, NotYetOver
  <2>3. QED
    BY <2>1, <2>2
<1>8. ASSUME NEW p \in Parties, PartyStep(p), ~CallReturns(p), ~FailCell(p),
             ~NotifyAllFinished(p), ~AnnounceThrows(p), ~CallThrowsError(p)
      PROVE  UNCHANGED <<fut, allFinished, escaped>>
  BY <1>8
  DEF PartyStep, OwnStep, CallStep, ListenerStep, BeginPhase, EnterPhase, AnnouncePhase,
      CallThrows, CountFailure, Arrive, NotLast, AllFinishedReturns, AllFinishedThrows,
      FinishListenerReturns, FinishListenerThrows, partyVars, finishVars
<1>9. QED
  BY <1>1, <1>3, <1>4, <1>5, <1>6, <1>7, <1>8 DEF Next

\* The grid implements the promise for every size, pool and set of dependencies.
THEOREM Implementation == Spec => ImplementsPromise
<1>1. Init => Promise!Init
  BY DEF Init, Promise!Init, Cells, Rows, Parties, Promise!Phases, Promise!Columns
<1>2. QED
  BY Invariant, PromiseStep, <1>1, PTL DEF Spec, ImplementsPromise, Promise!Spec
=============================================================================
