----------------------- MODULE BearScriptPhase_proofs -----------------------
(***************************************************************************)
(* BearScriptPhase for any number of parties.  The counter cannot reach    *)
(* the number of parties before all are past it, whoever closes the phase  *)
(* is alone in doing so, and a party's entry and text are lost only to an  *)
(* init that overtakes it or to a look of the timer that comes too early.  *)
(***************************************************************************)
EXTENDS BearScriptPhase, FiniteSetTheorems, SequenceTheorems, TLAPS

Event == [final : BOOLEAN, members : SUBSET Parties]

\* The parties that have been counted, or gave it up.
Past == {p \in Parties : pc[p] \in {"closing", "sending", "grouping", "thrown", "done"}}

PastInv ==
    /\ partiesArrived <= Cardinality(Past)
    /\ partiesArrived = -1 => Past = Parties

\* The final results are sent, about to be sent by one thread, or lost by it,
\* only when the phase is closed.
Closer == {"sending", "grouping", "thrown"}

CloseInv ==
    /\ partiesArrived # -1 => Finals = {} /\ timer # "final" /\ \A p \in Parties : pc[p] \notin Closer
    /\ \A p \in Parties : pc[p] \in Closer => Finals = {} /\ timer # "final"
    /\ \A p, q \in Parties : pc[p] \in Closer /\ pc[q] \in Closer => p = q
    /\ timer = "final" => Finals = {}
    /\ \A i, j \in Finals : i = j

ScanInv ==
    /\ ~minimalSet => timer = "none"
    /\ timer \in {"none", "scheduled", "probing"} => scan = 0
    /\ found # "unread" => timer \in {"final", "interim"} /\ scan < PartyCount
    /\ found = "null" => scan \in missed

HasEntry == {"converting", "settingText", "timing", "arriving", "closing", "sending", "grouping",
             "thrown", "done"}
HasText == {"timing", "arriving", "closing", "sending", "grouping", "thrown", "done"}

KeptInv ==
    /\ stale \subseteq overtaken
    /\ \A p \in Parties \ overtaken : pc[p] \in HasEntry => p \in entries
    /\ \A p \in Parties \ (overtaken \cup missed) : pc[p] \in HasText => p \in texts

\* Whoever sends the final results has spotted every text that must be in them,
\* and while the closing party groups them only the timer takes texts away.
SawInv ==
    /\ \A p \in Parties : pc[p] = "grouping" =>
          /\ closerSaw \cup texts \subseteq entries
          /\ closerSaw \ texts \subseteq missed
          /\ Parties \ (overtaken \cup missed) \subseteq closerSaw
    /\ timer = "final" /\ scan > PartyCount => Parties \ (overtaken \cup missed) \subseteq timerSaw
    /\ \A p \in Parties : pc[p] = "thrown" => missed # {}

ShownInv == \A i \in Finals : Parties \ (overtaken \cup missed) \subseteq sent[i].members

IInv == TypeOK /\ PastInv /\ CloseInv /\ ScanInv /\ KeptInv /\ SawInv /\ ShownInv

LEMMA PartiesFinite == IsFiniteSet(Parties) /\ Cardinality(Parties) = PartyCount
BY FS_Interval, PhaseAssumption DEF Parties, PhaseAssumption

LEMMA PastFinite ==
    /\ IsFiniteSet(Past) /\ Cardinality(Past) \in Nat /\ Cardinality(Past) <= PartyCount
    /\ Cardinality(Past) = PartyCount => Past = Parties
<1>1. Past \in SUBSET Parties
  BY DEF Past
<1>2. QED
  BY <1>1, PartiesFinite, FS_Subset, FS_CardinalityType

\* A group's members have entries and, of what was spotted, keep what is still there.
LEMMA GroupingsFacts ==
    ASSUME entries \subseteq Parties, NEW saw, NEW m \in Groupings(saw)
    PROVE  m \subseteq Parties /\ saw \cap texts \cap entries \subseteq m
BY DEF Groupings

\* An event goes to the end of those that have been sent.
LEMMA SentFacts ==
    ASSUME sent \in Seq(Event), NEW e \in Event, sent' = Append(sent, e)
    PROVE  /\ sent' \in Seq(Event)
           /\ \A i \in Finals : sent'[i] = sent[i]
           /\ ~e.final => Finals' = Finals
           /\ e.final => Finals' = Finals \cup {Len(sent) + 1} /\ sent'[Len(sent) + 1] = e
<1>1. /\ sent' \in Seq(Event) /\ Len(sent) \in Nat /\ Len(sent') = Len(sent) + 1
      /\ sent'[Len(sent) + 1] = e /\ \A i \in 1 .. Len(sent) : sent'[i] = sent[i]
  OBVIOUS
<1>2. \A i \in 1 .. Len(sent') : i \in 1 .. Len(sent) \/ i = Len(sent) + 1
  BY <1>1
<1>3. 1 .. Len(sent) \subseteq 1 .. Len(sent') /\ Len(sent) + 1 \in 1 .. Len(sent')
  BY <1>1
<1>4. QED
  BY <1>1, <1>2, <1>3 DEF Finals

LEMMA TypeStep == TypeOK /\ PastInv /\ ScanInv /\ [Next]_vars => TypeOK'
<1>1. SUFFICES ASSUME TypeOK, PastInv, ScanInv, [Next]_vars PROVE TypeOK'
  OBVIOUS
<1>. USE DEF TypeOK, Goto, dividerVars, timerVars
<1>a. PartyCount \in Nat \ {0}
  BY PhaseAssumption DEF PhaseAssumption
<1>b. partiesArrived \in -1 .. PartyCount
  BY <1>1
<1>2. CASE UNCHANGED vars
  BY <1>1, <1>2 DEF vars
<1>3. ASSUME NEW p \in Parties, InitTexts(p) PROVE TypeOK'
  <2>1. overtaken' \subseteq Parties /\ stale' \subseteq Parties
    BY <1>1, <1>3 DEF InitTexts, PastTask
  <2>2. QED
    BY <1>1, <1>3, <2>1 DEF InitTexts
<1>4. ASSUME NEW p \in Parties, InitEntries(p) PROVE TypeOK'
  <2>1. overtaken' \subseteq Parties /\ stale' \subseteq Parties
    BY <1>1, <1>4 DEF InitEntries, PastTask
  <2>2. QED
    BY <1>1, <1>4, <2>1 DEF InitEntries
<1>5. ASSUME NEW p \in Parties, TaskEnds(p) PROVE TypeOK'
  <2>1. PICK b \in BOOLEAN : ok' = [ok EXCEPT ![p] = b]
    BY <1>5 DEF TaskEnds
  <2>2. ok' \in [Parties -> BOOLEAN]
    BY <1>1, <2>1
  <2>3. QED
    BY <1>1, <1>5, <2>2 DEF TaskEnds
<1>6. ASSUME NEW p \in Parties, NothingRan(p) PROVE TypeOK'
  <2>1. PICK b \in BOOLEAN : ok' = [ok EXCEPT ![p] = b]
    BY <1>6 DEF NothingRan
  <2>2. ok' \in [Parties -> BOOLEAN]
    BY <1>1, <2>1
  <2>3. QED
    BY <1>1, <1>6, <2>2 DEF NothingRan
<1>7. ASSUME NEW p \in Parties, ReadEntries(p) PROVE TypeOK'
  BY <1>1, <1>7 DEF ReadEntries
<1>8. ASSUME NEW p \in Parties, SetEntry(p) PROVE TypeOK'
  BY <1>1, <1>8 DEF SetEntry
<1>9. ASSUME NEW p \in Parties, ReadTexts(p) PROVE TypeOK'
  BY <1>1, <1>9 DEF ReadTexts
<1>10. ASSUME NEW p \in Parties, SetText(p) PROVE TypeOK'
  BY <1>1, <1>10 DEF SetText
<1>11. ASSUME NEW p \in Parties, StartTimer(p) PROVE TypeOK'
  BY <1>1, <1>11 DEF StartTimer
<1>12. ASSUME NEW p \in Parties, StartTimerRejected(p) PROVE TypeOK'
  BY <1>1, <1>12 DEF StartTimerRejected
<1>13. ASSUME NEW p \in Parties, CountArrived(p) PROVE TypeOK'
  <2>1. p \notin Past
    BY <1>13 DEF CountArrived, Past
  <2>2. Past # Parties
    BY <2>1
  <2>3. partiesArrived < PartyCount
    BY <1>1, <1>a, <1>b, <2>2, PastFinite DEF PastInv
  <2>4. partiesArrived' \in -1 .. PartyCount
    BY <1>a, <1>b, <1>13, <2>3 DEF CountArrived
  <2>5. QED
    BY <1>1, <1>13, <2>4 DEF CountArrived
<1>14. ASSUME NEW p \in Parties, Close(p) PROVE TypeOK'
  <2>1. partiesArrived' \in -1 .. PartyCount
    BY <1>a, <1>b, <1>14 DEF Close
  <2>2. QED
    BY <1>1, <1>14, <2>1 DEF Close
<1>15. ASSUME NEW p \in Parties, SpotTexts(p) PROVE TypeOK'
  BY <1>1, <1>15 DEF SpotTexts
<1>16. ASSUME NEW p \in Parties, SendFinal(p) PROVE TypeOK'
  <2>1. PICK m \in Groupings(closerSaw) : sent' = Append(sent, [final |-> TRUE, members |-> m])
    BY <1>16 DEF SendFinal
  <2>2. [final |-> TRUE, members |-> m] \in Event
    BY <1>1, GroupingsFacts DEF Event
  <2>3. sent' \in Seq(Event)
    BY <1>1, <2>1, <2>2, SentFacts DEF Event
  <2>4. QED
    BY <1>1, <1>16, <2>3 DEF SendFinal, Event
<1>17. ASSUME NEW p \in Parties, LoseFinal(p) PROVE TypeOK'
  BY <1>1, <1>17 DEF LoseFinal
<1>18. CASE TimerClose
  <2>1. partiesArrived' \in -1 .. PartyCount
    BY <1>a, <1>b, <1>18 DEF TimerClose
  <2>2. QED
    BY <1>1, <1>18, <2>1 DEF TimerClose
<1>19. CASE TimerProbe
  BY <1>1, <1>19 DEF TimerProbe
<1>20. CASE TimerLook
  <2>1. scan \in Parties
    BY <1>1, <1>a, <1>20 DEF TimerLook, Parties
  <2>2. QED
    BY <1>1, <1>20, <2>1 DEF TimerLook
<1>21. CASE TimerForget
  <2>1. scan' \in 0 .. PartyCount + 1
    BY <1>1, <1>a, <1>21 DEF TimerForget, ScanInv
  <2>2. QED
    BY <1>1, <1>21, <2>1 DEF TimerForget
<1>22. CASE TimerSpot
  <2>1. scan' \in 0 .. PartyCount + 1
    BY <1>1, <1>a, <1>22 DEF TimerSpot
  <2>2. QED
    BY <1>1, <1>22, <2>1 DEF TimerSpot
<1>23. CASE TimerDies
  BY <1>1, <1>23 DEF TimerDies
<1>24. CASE TimerSend
  <2>1. PICK m \in Groupings(timerSaw) : sent' = Append(sent, [final |-> timer = "final", members |-> m])
    BY <1>24 DEF TimerSend
  <2>2. [final |-> timer = "final", members |-> m] \in Event
    BY <1>1, GroupingsFacts DEF Event
  <2>3. sent' \in Seq(Event)
    BY <1>1, <2>1, <2>2, SentFacts DEF Event
  <2>4. QED
    BY <1>1, <1>24, <2>3 DEF TimerSend, Event
<1>25. QED
  BY <1>1, <1>2, <1>3, <1>4, <1>5, <1>6, <1>7, <1>8, <1>9, <1>10, <1>11, <1>12, <1>13,
     <1>14, <1>15, <1>16, <1>17, <1>18, <1>19, <1>20, <1>21, <1>22, <1>23, <1>24
  DEF Next, TimerStep, PartyStep, AddArrivalStep

LEMMA PastStep == TypeOK /\ PastInv /\ [Next]_vars => PastInv'
<1>1. SUFFICES ASSUME TypeOK, PastInv, [Next]_vars PROVE PastInv'
  OBVIOUS
<1>a. /\ PartyCount \in Nat \ {0} /\ partiesArrived \in -1 .. PartyCount
      /\ partiesArrived = PartyCount => Past = Parties
  BY <1>1, PhaseAssumption, PastFinite DEF PhaseAssumption, TypeOK, PastInv
<1>b. pc \in [Parties -> {"absent", "new", "initialising", "running", "skipped", "dividing", "settingEntry",
                          "converting", "settingText", "timing", "arriving", "closing", "sending",
                          "grouping", "thrown", "done"}]
  BY <1>1 DEF TypeOK
<1>c. ASSUME partiesArrived' = partiesArrived, Past' = Past PROVE PastInv'
  BY <1>1, <1>c DEF PastInv
<1>. USE <1>b DEF Goto, dividerVars, timerVars
<1>2. CASE UNCHANGED vars
  BY <1>c, <1>2 DEF vars, Past
<1>3. ASSUME NEW p \in Parties, InitTexts(p) PROVE PastInv'
  <2>1. Past' = Past
    BY <1>3 DEF InitTexts, Past
  <2>2. QED
    BY <1>c, <1>3, <2>1 DEF InitTexts
<1>4. ASSUME NEW p \in Parties, InitEntries(p) PROVE PastInv'
  <2>1. Past' = Past
    BY <1>4 DEF InitEntries, Past
  <2>2. QED
    BY <1>c, <1>4, <2>1 DEF InitEntries
<1>5. ASSUME NEW p \in Parties, TaskEnds(p) PROVE PastInv'
  <2>1. Past' = Past
    BY <1>5 DEF TaskEnds, Past
  <2>2. QED
    BY <1>c, <1>5, <2>1 DEF TaskEnds
<1>6. ASSUME NEW p \in Parties, NothingRan(p) PROVE PastInv'
  <2>1. Past' = Past
    BY <1>6 DEF NothingRan, Past
  <2>2. QED
    BY <1>c, <1>6, <2>1 DEF NothingRan
<1>7. ASSUME NEW p \in Parties, ReadEntries(p) PROVE PastInv'
  <2>1. Past' = Past
    BY <1>7 DEF ReadEntries, Past
  <2>2. QED
    BY <1>c, <1>7, <2>1 DEF ReadEntries
<1>8. ASSUME NEW p \in Parties, SetEntry(p) PROVE PastInv'
  <2>1. Past' = Past
    BY <1>8 DEF SetEntry, Past
  <2>2. QED
    BY <1>c, <1>8, <2>1 DEF SetEntry
<1>9. ASSUME NEW p \in Parties, ReadTexts(p) PROVE PastInv'
  <2>1. Past' = Past
    BY <1>9 DEF ReadTexts, Past
  <2>2. QED
    BY <1>c, <1>9, <2>1 DEF ReadTexts
<1>10. ASSUME NEW p \in Parties, SetText(p) PROVE PastInv'
  <2>1. Past' = Past
    BY <1>10 DEF SetText, Past
  <2>2. QED
    BY <1>c, <1>10, <2>1 DEF SetText
<1>11. ASSUME NEW p \in Parties, StartTimer(p) PROVE PastInv'
  <2>1. Past' = Past
    BY <1>11 DEF StartTimer, Past
  <2>2. QED
    BY <1>c, <1>11, <2>1 DEF StartTimer
<1>12. ASSUME NEW p \in Parties, StartTimerRejected(p) PROVE PastInv'
  <2>1. Past' = Past \cup {p} /\ partiesArrived' = partiesArrived /\ p \notin Past
    BY <1>12 DEF StartTimerRejected, Past
  <2>2. Cardinality(Past') = Cardinality(Past) + 1
    BY <2>1, PastFinite, FS_AddElement
  <2>3. QED
    BY <1>1, <1>a, <2>1, <2>2, PastFinite DEF PastInv
<1>13. ASSUME NEW p \in Parties, CountArrived(p) PROVE PastInv'
  <2>1. Past' = Past \cup {p} /\ partiesArrived' = partiesArrived + 1 /\ p \notin Past
    BY <1>13 DEF CountArrived, Past
  <2>2. Cardinality(Past') = Cardinality(Past) + 1
    BY <2>1, PastFinite, FS_AddElement
  <2>3. partiesArrived' # -1
    BY <1>a, <2>1
  <2>4. QED
    BY <1>1, <1>a, <2>1, <2>2, <2>3, PastFinite DEF PastInv
<1>14. ASSUME NEW p \in Parties, Close(p) PROVE PastInv'
  <2>1. Past' = Past
    BY <1>14 DEF Close, Past
  <2>2. QED
    BY <1>1, <1>a, <1>14, <2>1, PastFinite DEF Close, PastInv
<1>15. ASSUME NEW p \in Parties, SpotTexts(p) PROVE PastInv'
  <2>1. Past' = Past
    BY <1>15 DEF SpotTexts, Past
  <2>2. QED
    BY <1>c, <1>15, <2>1 DEF SpotTexts
<1>16. ASSUME NEW p \in Parties, SendFinal(p) PROVE PastInv'
  <2>1. Past' = Past
    BY <1>16 DEF SendFinal, Past
  <2>2. QED
    BY <1>c, <1>16, <2>1 DEF SendFinal
<1>17. ASSUME NEW p \in Parties, LoseFinal(p) PROVE PastInv'
  <2>1. Past' = Past
    BY <1>17 DEF LoseFinal, Past
  <2>2. QED
    BY <1>c, <1>17, <2>1 DEF LoseFinal
<1>18. CASE TimerClose
  <2>1. Past' = Past
    BY <1>18 DEF TimerClose, Past
  <2>2. QED
    BY <1>1, <1>a, <1>18, <2>1, PastFinite DEF TimerClose, PastInv
<1>19. CASE TimerProbe
  <2>1. Past' = Past
    BY <1>19 DEF TimerProbe, Past
  <2>2. QED
    BY <1>c, <1>19, <2>1 DEF TimerProbe
<1>20. CASE TimerLook
  <2>1. Past' = Past
    BY <1>20 DEF TimerLook, Past
  <2>2. QED
    BY <1>c, <1>20, <2>1 DEF TimerLook
<1>21. CASE TimerForget
  <2>1. Past' = Past
    BY <1>21 DEF TimerForget, Past
  <2>2. QED
    BY <1>c, <1>21, <2>1 DEF TimerForget
<1>22. CASE TimerSpot
  <2>1. Past' = Past
    BY <1>22 DEF TimerSpot, Past
  <2>2. QED
    BY <1>c, <1>22, <2>1 DEF TimerSpot
<1>23. CASE TimerDies
  <2>1. Past' = Past
    BY <1>23 DEF TimerDies, Past
  <2>2. QED
    BY <1>c, <1>23, <2>1 DEF TimerDies
<1>24. CASE TimerSend
  <2>1. Past' = Past
    BY <1>24 DEF TimerSend, Past
  <2>2. QED
    BY <1>c, <1>24, <2>1 DEF TimerSend
<1>25. QED
  BY <1>1, <1>2, <1>3, <1>4, <1>5, <1>6, <1>7, <1>8, <1>9, <1>10, <1>11, <1>12, <1>13,
     <1>14, <1>15, <1>16, <1>17, <1>18, <1>19, <1>20, <1>21, <1>22, <1>23, <1>24
  DEF Next, TimerStep, PartyStep, AddArrivalStep

LEMMA CloseStep == TypeOK /\ PastInv /\ CloseInv /\ [Next]_vars => CloseInv'
<1>1. SUFFICES ASSUME TypeOK, PastInv, CloseInv, [Next]_vars PROVE CloseInv'
  OBVIOUS
<1>a. /\ PartyCount \in Nat \ {0} /\ partiesArrived \in -1 .. PartyCount
      /\ sent \in Seq(Event)
  BY <1>1, PhaseAssumption DEF PhaseAssumption, TypeOK, Event
<1>b. pc \in [Parties -> {"absent", "new", "initialising", "running", "skipped", "dividing", "settingEntry",
                          "converting", "settingText", "timing", "arriving", "closing", "sending",
                          "grouping", "thrown", "done"}]
  BY <1>1 DEF TypeOK
<1>c. partiesArrived = -1 => \A p \in Parties : pc[p] \in {"closing", "sending", "grouping", "thrown", "done"}
  BY <1>1 DEF PastInv, Past
<1>. USE <1>b DEF CloseInv, Closer, Goto, dividerVars, timerVars
<1>2. CASE UNCHANGED vars
  BY <1>1, <1>2 DEF vars, Finals
<1>3. ASSUME NEW p \in Parties, InitTexts(p) PROVE CloseInv'
  BY <1>1, <1>3 DEF InitTexts, Finals
<1>4. ASSUME NEW p \in Parties, InitEntries(p) PROVE CloseInv'
  BY <1>1, <1>4 DEF InitEntries, Finals
<1>5. ASSUME NEW p \in Parties, TaskEnds(p) PROVE CloseInv'
  BY <1>1, <1>5 DEF TaskEnds, Finals
<1>6. ASSUME NEW p \in Parties, NothingRan(p) PROVE CloseInv'
  BY <1>1, <1>6 DEF NothingRan, Finals
<1>7. ASSUME NEW p \in Parties, ReadEntries(p) PROVE CloseInv'
  BY <1>1, <1>7 DEF ReadEntries, Finals
<1>8. ASSUME NEW p \in Parties, SetEntry(p) PROVE CloseInv'
  BY <1>1, <1>8 DEF SetEntry, Finals
<1>9. ASSUME NEW p \in Parties, ReadTexts(p) PROVE CloseInv'
  BY <1>1, <1>9 DEF ReadTexts, Finals
<1>10. ASSUME NEW p \in Parties, SetText(p) PROVE CloseInv'
  BY <1>1, <1>10 DEF SetText, Finals
<1>11. ASSUME NEW p \in Parties, StartTimer(p) PROVE CloseInv'
  BY <1>1, <1>11 DEF StartTimer, Finals
<1>12. ASSUME NEW p \in Parties, StartTimerRejected(p) PROVE CloseInv'
  BY <1>1, <1>12 DEF StartTimerRejected, Finals
<1>13. ASSUME NEW p \in Parties, CountArrived(p) PROVE CloseInv'
  <2>1. partiesArrived # -1 /\ Finals' = Finals
    BY <1>c, <1>13 DEF CountArrived, Finals
  <2>2. QED
    BY <1>1, <1>a, <1>13, <2>1 DEF CountArrived
<1>14. ASSUME NEW p \in Parties, Close(p) PROVE CloseInv'
  <2>1. Finals' = Finals /\ timer' = timer
    BY <1>14 DEF Close, Finals
  <2>2. CASE partiesArrived = PartyCount
    <3>1. Finals = {} /\ timer # "final" /\ \A q \in Parties : pc[q] \notin Closer
      BY <1>1, <1>a, <2>2
    <3>2. partiesArrived' = -1 /\ \A q \in Parties : q # p => pc'[q] = pc[q]
      BY <1>a, <1>14, <2>2 DEF Close
    <3>3. QED
      BY <2>1, <3>1, <3>2
  <2>3. CASE partiesArrived # PartyCount
    BY <1>1, <1>14, <2>1, <2>3 DEF Close
  <2>4. QED
    BY <2>2, <2>3
<1>15. ASSUME NEW p \in Parties, SpotTexts(p) PROVE CloseInv'
  BY <1>1, <1>15 DEF SpotTexts, Finals
<1>16. ASSUME NEW p \in Parties, SendFinal(p) PROVE CloseInv'
  <2>1. PICK m \in Groupings(closerSaw) : sent' = Append(sent, [final |-> TRUE, members |-> m])
    BY <1>16 DEF SendFinal
  <2>. DEFINE e == [final |-> TRUE, members |-> m]
  <2>2. e \in Event /\ e.final
    BY <1>1, GroupingsFacts DEF Event, TypeOK
  <2>3. Finals' = Finals \cup {Len(sent) + 1}
    BY <1>a, <2>1, <2>2, SentFacts
  <2>4. Finals = {} /\ timer # "final" /\ partiesArrived = -1
          /\ \A q \in Parties : pc[q] \in Closer => q = p
    BY <1>1, <1>16 DEF SendFinal
  <2>5. \A q \in Parties : pc'[q] \notin Closer
    BY <1>16, <2>4 DEF SendFinal
  <2>6. UNCHANGED <<timer, partiesArrived>>
    BY <1>16 DEF SendFinal
  <2>7. QED
    BY <2>3, <2>4, <2>5, <2>6
<1>17. ASSUME NEW p \in Parties, LoseFinal(p) PROVE CloseInv'
  BY <1>1, <1>17 DEF LoseFinal, Finals
<1>18. CASE TimerClose
  <2>1. Finals' = Finals /\ pc' = pc
    BY <1>18 DEF TimerClose, Finals
  <2>2. CASE partiesArrived = PartyCount
    <3>1. Finals = {} /\ \A q \in Parties : pc[q] \notin Closer
      BY <1>1, <1>a, <2>2
    <3>2. partiesArrived' = -1
      BY <1>18, <2>2 DEF TimerClose
    <3>3. QED
      BY <2>1, <3>1, <3>2
  <2>3. CASE partiesArrived # PartyCount
    BY <1>1, <1>18, <2>1, <2>3 DEF TimerClose
  <2>4. QED
    BY <2>2, <2>3
<1>19. CASE TimerProbe
  BY <1>1, <1>19 DEF TimerProbe, Finals
<1>20. CASE TimerLook
  BY <1>1, <1>20 DEF TimerLook, Finals
<1>21. CASE TimerForget
  BY <1>1, <1>21 DEF TimerForget, Finals
<1>22. CASE TimerSpot
  BY <1>1, <1>22 DEF TimerSpot, Finals
<1>23. CASE TimerDies
  BY <1>1, <1>23 DEF TimerDies, Finals
<1>24. CASE TimerSend
  <2>0. PICK m \in Groupings(timerSaw) :
          sent' = Append(sent, [final |-> timer = "final", members |-> m])
    BY <1>24 DEF TimerSend
  <2>. DEFINE e == [final |-> timer = "final", members |-> m]
  <2>1. e \in Event /\ (e.final <=> timer = "final")
    BY <1>1, GroupingsFacts DEF Event, TypeOK
  <2>2. timer' = "done" /\ UNCHANGED <<pc, partiesArrived>> /\ sent' = Append(sent, e)
    BY <1>24, <2>0 DEF TimerSend
  <2>. HIDE DEF e
  <2>3. CASE timer = "final"
    <3>1. Finals' = Finals \cup {Len(sent) + 1}
      BY <1>a, <2>1, <2>2, <2>3, SentFacts
    <3>2. Finals = {} /\ partiesArrived = -1 /\ \A q \in Parties : pc[q] \notin Closer
      BY <1>1, <2>3
    <3>3. QED
      BY <2>2, <3>1, <3>2
  <2>4. CASE timer # "final"
    <3>1. Finals' = Finals
      BY <1>a, <2>1, <2>2, <2>4, SentFacts
    <3>2. QED
      BY <1>1, <2>2, <3>1
  <2>5. QED
    BY <2>3, <2>4
<1>25. QED
  BY <1>1, <1>2, <1>3, <1>4, <1>5, <1>6, <1>7, <1>8, <1>9, <1>10, <1>11, <1>12, <1>13,
     <1>14, <1>15, <1>16, <1>17, <1>18, <1>19, <1>20, <1>21, <1>22, <1>23, <1>24
  DEF Next, TimerStep, PartyStep, AddArrivalStep


LEMMA ScanStep == TypeOK /\ ScanInv /\ [Next]_vars => ScanInv'
<1>1. SUFFICES ASSUME TypeOK, ScanInv, [Next]_vars PROVE ScanInv'
  OBVIOUS
<1>. USE DEF ScanInv, Goto, dividerVars, timerVars
<1>2. CASE UNCHANGED vars
  BY <1>1, <1>2 DEF vars
<1>3. ASSUME NEW p \in Parties, InitTexts(p) PROVE ScanInv'
  BY <1>1, <1>3 DEF InitTexts
<1>4. ASSUME NEW p \in Parties, InitEntries(p) PROVE ScanInv'
  BY <1>1, <1>4 DEF InitEntries
<1>5. ASSUME NEW p \in Parties, TaskEnds(p) PROVE ScanInv'
  BY <1>1, <1>5 DEF TaskEnds
<1>6. ASSUME NEW p \in Parties, NothingRan(p) PROVE ScanInv'
  BY <1>1, <1>6 DEF NothingRan
<1>7. ASSUME NEW p \in Parties, ReadEntries(p) PROVE ScanInv'
  BY <1>1, <1>7 DEF ReadEntries
<1>8. ASSUME NEW p \in Parties, SetEntry(p) PROVE ScanInv'
  BY <1>1, <1>8 DEF SetEntry
<1>9. ASSUME NEW p \in Parties, ReadTexts(p) PROVE ScanInv'
  BY <1>1, <1>9 DEF ReadTexts
<1>10. ASSUME NEW p \in Parties, SetText(p) PROVE ScanInv'
  BY <1>1, <1>10 DEF SetText
<1>11. ASSUME NEW p \in Parties, StartTimer(p) PROVE ScanInv'
  BY <1>1, <1>11 DEF StartTimer
<1>12. ASSUME NEW p \in Parties, StartTimerRejected(p) PROVE ScanInv'
  BY <1>1, <1>12 DEF StartTimerRejected
<1>13. ASSUME NEW p \in Parties, CountArrived(p) PROVE ScanInv'
  BY <1>1, <1>13 DEF CountArrived
<1>14. ASSUME NEW p \in Parties, Close(p) PROVE ScanInv'
  BY <1>1, <1>14 DEF Close
<1>15. ASSUME NEW p \in Parties, SpotTexts(p) PROVE ScanInv'
  BY <1>1, <1>15 DEF SpotTexts
<1>16. ASSUME NEW p \in Parties, SendFinal(p) PROVE ScanInv'
  BY <1>1, <1>16 DEF SendFinal
<1>17. ASSUME NEW p \in Parties, LoseFinal(p) PROVE ScanInv'
  BY <1>1, <1>17 DEF LoseFinal
<1>18. CASE TimerClose
  BY <1>1, <1>18 DEF TimerClose
<1>19. CASE TimerProbe
  BY <1>1, <1>19 DEF TimerProbe
<1>20. CASE TimerLook
  BY <1>1, <1>20 DEF TimerLook
<1>21. CASE TimerForget
  BY <1>1, <1>21 DEF TimerForget
<1>22. CASE TimerSpot
  <2>1. found = "unread"
    BY <1>1, <1>22, PhaseAssumption DEF TimerSpot, PhaseAssumption
  <2>2. QED
    BY <1>1, <1>22, <2>1 DEF TimerSpot
<1>23. CASE TimerDies
  <2>1. found = "unread"
    BY <1>1, <1>23, PhaseAssumption DEF TimerDies, PhaseAssumption, TypeOK
  <2>2. QED
    BY <1>1, <1>23, <2>1 DEF TimerDies
<1>24. CASE TimerSend
  <2>1. found = "unread"
    BY <1>1, <1>24, PhaseAssumption DEF TimerSend, PhaseAssumption, TypeOK
  <2>2. QED
    BY <1>1, <1>24, <2>1 DEF TimerSend
<1>25. QED
  BY <1>1, <1>2, <1>3, <1>4, <1>5, <1>6, <1>7, <1>8, <1>9, <1>10, <1>11, <1>12, <1>13,
     <1>14, <1>15, <1>16, <1>17, <1>18, <1>19, <1>20, <1>21, <1>22, <1>23, <1>24
  DEF Next, TimerStep, PartyStep, AddArrivalStep

LEMMA KeptStep == TypeOK /\ ScanInv /\ KeptInv /\ [Next]_vars => KeptInv'
<1>1. SUFFICES ASSUME TypeOK, ScanInv, KeptInv, [Next]_vars PROVE KeptInv'
  OBVIOUS
<1>b. pc \in [Parties -> {"absent", "new", "initialising", "running", "skipped", "dividing", "settingEntry",
                          "converting", "settingText", "timing", "arriving", "closing", "sending",
                          "grouping", "thrown", "done"}]
  BY <1>1 DEF TypeOK
<1>. USE <1>b DEF KeptInv, Goto, dividerVars, timerVars, HasEntry, HasText
<1>2. CASE UNCHANGED vars
  BY <1>1, <1>2 DEF vars
<1>3. ASSUME NEW p \in Parties, InitTexts(p) PROVE KeptInv'
  <2>1. stale' \subseteq overtaken' /\ overtaken \subseteq overtaken'
    BY <1>1, <1>3 DEF InitTexts, PastTask
  <2>2. \A q \in Parties : q \notin overtaken' => pc[q] \notin HasText /\ pc'[q] \notin HasText
    BY <1>3 DEF InitTexts, PastTask
  <2>3. \A q \in Parties : pc'[q] \in HasEntry => pc[q] \in HasEntry
    BY <1>3 DEF InitTexts
  <2>4. QED
    BY <1>1, <1>3, <2>1, <2>2, <2>3 DEF InitTexts
<1>4. ASSUME NEW p \in Parties, InitEntries(p) PROVE KeptInv'
  <2>1. stale' \subseteq overtaken' /\ overtaken \subseteq overtaken'
    BY <1>1, <1>4 DEF InitEntries, PastTask
  <2>2. \A q \in Parties : q \notin overtaken' => pc'[q] \notin HasEntry /\ pc'[q] \notin HasText
    BY <1>4 DEF InitEntries, PastTask
  <2>3. QED
    BY <2>1, <2>2
<1>5. ASSUME NEW p \in Parties, TaskEnds(p) PROVE KeptInv'
  BY <1>1, <1>5 DEF TaskEnds
<1>6. ASSUME NEW p \in Parties, NothingRan(p) PROVE KeptInv'
  BY <1>1, <1>6 DEF NothingRan
<1>7. ASSUME NEW p \in Parties, ReadEntries(p) PROVE KeptInv'
  BY <1>1, <1>7 DEF ReadEntries
<1>8. ASSUME NEW p \in Parties, SetEntry(p) PROVE KeptInv'
  BY <1>1, <1>8 DEF SetEntry
<1>9. ASSUME NEW p \in Parties, ReadTexts(p) PROVE KeptInv'
  BY <1>1, <1>9 DEF ReadTexts
<1>10. ASSUME NEW p \in Parties, SetText(p) PROVE KeptInv'
  BY <1>1, <1>10 DEF SetText
<1>11. ASSUME NEW p \in Parties, StartTimer(p) PROVE KeptInv'
  BY <1>1, <1>11 DEF StartTimer
<1>12. ASSUME NEW p \in Parties, StartTimerRejected(p) PROVE KeptInv'
  BY <1>1, <1>12 DEF StartTimerRejected
<1>13. ASSUME NEW p \in Parties, CountArrived(p) PROVE KeptInv'
  BY <1>1, <1>13 DEF CountArrived
<1>14. ASSUME NEW p \in Parties, Close(p) PROVE KeptInv'
  BY <1>1, <1>14 DEF Close
<1>15. ASSUME NEW p \in Parties, SpotTexts(p) PROVE KeptInv'
  <2>1. \A q \in Parties : q # p => pc'[q] = pc[q]
    BY <1>15 DEF SpotTexts
  <2>2. texts' = texts \cap entries /\ pc[p] = "sending" /\ UNCHANGED <<stale, overtaken, entries, missed>>
    BY <1>15 DEF SpotTexts
  <2>3. QED
    BY <1>1, <2>1, <2>2
<1>16. ASSUME NEW p \in Parties, SendFinal(p) PROVE KeptInv'
  BY <1>1, <1>16 DEF SendFinal
<1>17. ASSUME NEW p \in Parties, LoseFinal(p) PROVE KeptInv'
  BY <1>1, <1>17 DEF LoseFinal
<1>18. CASE TimerClose
  BY <1>1, <1>18 DEF TimerClose
<1>19. CASE TimerProbe
  BY <1>1, <1>19 DEF TimerProbe
<1>20. CASE TimerLook
  BY <1>1, <1>20 DEF TimerLook
<1>21. CASE TimerForget
  <2>1. \A q \in Parties : q \notin missed => (q \in texts' <=> q \in texts)
    BY <1>1, <1>21 DEF TimerForget, ScanInv
  <2>2. UNCHANGED <<stale, overtaken, pc, entries, missed>>
    BY <1>21 DEF TimerForget
  <2>3. QED
    BY <1>1, <2>1, <2>2
<1>22. CASE TimerSpot
  BY <1>1, <1>22 DEF TimerSpot
<1>23. CASE TimerDies
  BY <1>1, <1>23 DEF TimerDies
<1>24. CASE TimerSend
  BY <1>1, <1>24 DEF TimerSend
<1>25. QED
  BY <1>1, <1>2, <1>3, <1>4, <1>5, <1>6, <1>7, <1>8, <1>9, <1>10, <1>11, <1>12, <1>13,
     <1>14, <1>15, <1>16, <1>17, <1>18, <1>19, <1>20, <1>21, <1>22, <1>23, <1>24
  DEF Next, TimerStep, PartyStep, AddArrivalStep

\* When the phase is closed, all parties but the overtaken and the missed are there.
LEMMA AllShown ==
    ASSUME PastInv, KeptInv, partiesArrived = -1
    PROVE  Parties \ (overtaken \cup missed) \subseteq entries \cap texts
BY DEF PastInv, Past, KeptInv, HasEntry, HasText

LEMMA SawStep ==
    TypeOK /\ PastInv /\ CloseInv /\ ScanInv /\ KeptInv /\ SawInv /\ [Next]_vars => SawInv'
<1>1. SUFFICES ASSUME TypeOK, PastInv, CloseInv, ScanInv, KeptInv, SawInv, [Next]_vars
               PROVE  SawInv'
  OBVIOUS
<1>b. pc \in [Parties -> {"absent", "new", "initialising", "running", "skipped", "dividing", "settingEntry",
                          "converting", "settingText", "timing", "arriving", "closing", "sending",
                          "grouping", "thrown", "done"}]
  BY <1>1 DEF TypeOK
<1>c. \A p \in Parties : p \notin Past => timer # "final" /\ \A q \in Parties : pc[q] \notin Closer
  BY <1>1 DEF PastInv, CloseInv
<1>. USE <1>b DEF SawInv, Goto, dividerVars, timerVars
<1>2. CASE UNCHANGED vars
  BY <1>1, <1>2 DEF vars
<1>3. ASSUME NEW p \in Parties, InitTexts(p) PROVE SawInv'
  BY <1>1, <1>c, <1>3 DEF InitTexts, Past, Closer
<1>4. ASSUME NEW p \in Parties, InitEntries(p) PROVE SawInv'
  BY <1>1, <1>c, <1>4 DEF InitEntries, Past, Closer
<1>5. ASSUME NEW p \in Parties, TaskEnds(p) PROVE SawInv'
  BY <1>1, <1>c, <1>5 DEF TaskEnds, Past, Closer
<1>6. ASSUME NEW p \in Parties, NothingRan(p) PROVE SawInv'
  BY <1>1, <1>c, <1>6 DEF NothingRan, Past, Closer
<1>7. ASSUME NEW p \in Parties, ReadEntries(p) PROVE SawInv'
  BY <1>1, <1>c, <1>7 DEF ReadEntries, Past, Closer
<1>8. ASSUME NEW p \in Parties, SetEntry(p) PROVE SawInv'
  BY <1>1, <1>c, <1>8 DEF SetEntry, Past, Closer
<1>9. ASSUME NEW p \in Parties, ReadTexts(p) PROVE SawInv'
  BY <1>1, <1>c, <1>9 DEF ReadTexts, Past, Closer
<1>10. ASSUME NEW p \in Parties, SetText(p) PROVE SawInv'
  BY <1>1, <1>c, <1>10 DEF SetText, Past, Closer
<1>11. ASSUME NEW p \in Parties, StartTimer(p) PROVE SawInv'
  BY <1>1, <1>c, <1>11 DEF StartTimer, Past, Closer
<1>12. ASSUME NEW p \in Parties, StartTimerRejected(p) PROVE SawInv'
  BY <1>1, <1>c, <1>12 DEF StartTimerRejected, Past, Closer
<1>13. ASSUME NEW p \in Parties, CountArrived(p) PROVE SawInv'
  BY <1>1, <1>c, <1>13 DEF CountArrived, Past, Closer
<1>14. ASSUME NEW p \in Parties, Close(p) PROVE SawInv'
  BY <1>1, <1>14 DEF Close
<1>15. ASSUME NEW p \in Parties, SpotTexts(p) PROVE SawInv'
  <2>1. pc[p] = "sending" /\ partiesArrived = -1 /\ timer # "final" /\ timer' = timer
    BY <1>1, <1>15 DEF SpotTexts, CloseInv, Closer
  <2>2. texts' = texts \cap entries /\ closerSaw' = texts \cap entries
          /\ UNCHANGED <<entries, overtaken, missed>>
    BY <1>15 DEF SpotTexts
  <2>3. Parties \ (overtaken \cup missed) \subseteq entries \cap texts
    BY <1>1, <2>1, AllShown
  <2>4. \A q \in Parties : pc'[q] = "thrown" => pc[q] = "thrown"
    BY <1>15 DEF SpotTexts
  <2>5. QED
    BY <1>1, <2>1, <2>2, <2>3, <2>4
<1>16. ASSUME NEW p \in Parties, SendFinal(p) PROVE SawInv'
  BY <1>1, <1>16 DEF SendFinal
<1>17. ASSUME NEW p \in Parties, LoseFinal(p) PROVE SawInv'
  <2>1. pc[p] = "grouping" /\ GroupingThrows(closerSaw)
    BY <1>17 DEF LoseFinal
  <2>2. closerSaw \cup texts \subseteq entries /\ closerSaw \ texts \subseteq missed
    BY <1>1, <2>1
  <2>3. missed # {}
    BY <2>1, <2>2 DEF GroupingThrows, Readable
  <2>4. QED
    BY <1>1, <1>17, <2>3 DEF LoseFinal
<1>18. CASE TimerClose
  <2>1. ~(scan > PartyCount)
    BY <1>1, <1>18, PhaseAssumption DEF TimerClose, ScanInv, PhaseAssumption
  <2>2. QED
    BY <1>1, <1>18, <2>1 DEF TimerClose
<1>19. CASE TimerProbe
  BY <1>1, <1>19 DEF TimerProbe
<1>20. CASE TimerLook
  BY <1>1, <1>20 DEF TimerLook
<1>21. CASE TimerForget
  <2>1. texts' \subseteq texts /\ texts \ texts' \subseteq missed
    BY <1>1, <1>21 DEF TimerForget, ScanInv
  <2>2. ~(scan' > PartyCount)
    BY <1>1, <1>21, PhaseAssumption DEF TimerForget, ScanInv, TypeOK, PhaseAssumption
  <2>3. UNCHANGED <<pc, entries, overtaken, missed, closerSaw, timer>>
    BY <1>21 DEF TimerForget
  <2>4. QED
    BY <1>1, <2>1, <2>2, <2>3
<1>22. CASE TimerSpot
  <2>1. timer = "final" => Parties \ (overtaken \cup missed) \subseteq texts
    BY <1>1, AllShown DEF CloseInv
  <2>2. QED
    BY <1>1, <1>22, <2>1 DEF TimerSpot
<1>23. CASE TimerDies
  BY <1>1, <1>23 DEF TimerDies
<1>24. CASE TimerSend
  BY <1>1, <1>24 DEF TimerSend
<1>25. QED
  BY <1>1, <1>2, <1>3, <1>4, <1>5, <1>6, <1>7, <1>8, <1>9, <1>10, <1>11, <1>12, <1>13,
     <1>14, <1>15, <1>16, <1>17, <1>18, <1>19, <1>20, <1>21, <1>22, <1>23, <1>24
  DEF Next, TimerStep, PartyStep, AddArrivalStep

\* Nothing is taken out of an event, and what may be missing in it grows.
LEMMA ShownStays ==
    ASSUME ShownInv, sent' = sent, overtaken \subseteq overtaken', missed \subseteq missed'
    PROVE  ShownInv'
BY DEF ShownInv, Finals

LEMMA ShownStep ==
    TypeOK /\ PastInv /\ CloseInv /\ KeptInv /\ SawInv /\ ShownInv /\ [Next]_vars => ShownInv'
<1>1. SUFFICES ASSUME TypeOK, PastInv, CloseInv, KeptInv, SawInv, ShownInv, [Next]_vars
               PROVE  ShownInv'
  OBVIOUS
<1>a. sent \in Seq(Event)
  BY <1>1 DEF TypeOK, Event
<1>. USE DEF Goto, dividerVars, timerVars
<1>2. CASE UNCHANGED vars
  BY <1>1, ShownStays, <1>2 DEF vars
<1>3. ASSUME NEW p \in Parties, InitTexts(p) PROVE ShownInv'
  BY <1>1, ShownStays, <1>3 DEF InitTexts
<1>4. ASSUME NEW p \in Parties, InitEntries(p) PROVE ShownInv'
  BY <1>1, ShownStays, <1>4 DEF InitEntries
<1>5. ASSUME NEW p \in Parties, TaskEnds(p) PROVE ShownInv'
  BY <1>1, ShownStays, <1>5 DEF TaskEnds
<1>6. ASSUME NEW p \in Parties, NothingRan(p) PROVE ShownInv'
  BY <1>1, ShownStays, <1>6 DEF NothingRan
<1>7. ASSUME NEW p \in Parties, ReadEntries(p) PROVE ShownInv'
  BY <1>1, ShownStays, <1>7 DEF ReadEntries
<1>8. ASSUME NEW p \in Parties, SetEntry(p) PROVE ShownInv'
  BY <1>1, ShownStays, <1>8 DEF SetEntry
<1>9. ASSUME NEW p \in Parties, ReadTexts(p) PROVE ShownInv'
  BY <1>1, ShownStays, <1>9 DEF ReadTexts
<1>10. ASSUME NEW p \in Parties, SetText(p) PROVE ShownInv'
  BY <1>1, ShownStays, <1>10 DEF SetText
<1>11. ASSUME NEW p \in Parties, StartTimer(p) PROVE ShownInv'
  BY <1>1, ShownStays, <1>11 DEF StartTimer
<1>12. ASSUME NEW p \in Parties, StartTimerRejected(p) PROVE ShownInv'
  BY <1>1, ShownStays, <1>12 DEF StartTimerRejected
<1>13. ASSUME NEW p \in Parties, CountArrived(p) PROVE ShownInv'
  BY <1>1, ShownStays, <1>13 DEF CountArrived
<1>14. ASSUME NEW p \in Parties, Close(p) PROVE ShownInv'
  BY <1>1, ShownStays, <1>14 DEF Close
<1>15. ASSUME NEW p \in Parties, SpotTexts(p) PROVE ShownInv'
  BY <1>1, ShownStays, <1>15 DEF SpotTexts
<1>16. ASSUME NEW p \in Parties, SendFinal(p) PROVE ShownInv'
  <2>1. PICK m \in Groupings(closerSaw) : sent' = Append(sent, [final |-> TRUE, members |-> m])
    BY <1>16 DEF SendFinal
  <2>. DEFINE e == [final |-> TRUE, members |-> m]
  <2>2. e \in Event /\ e.final /\ e.members = m
    BY <1>1, GroupingsFacts DEF Event, TypeOK
  <2>3. sent' = Append(sent, e) /\ pc[p] = "grouping" /\ UNCHANGED <<overtaken, missed>>
    BY <1>16, <2>1 DEF SendFinal
  <2>. HIDE DEF e
  <2>4. Finals' = Finals \cup {Len(sent) + 1} /\ sent'[Len(sent) + 1] = e
          /\ \A i \in Finals : sent'[i] = sent[i]
    BY <1>a, <2>2, <2>3, SentFacts
  <2>5. Parties \ (overtaken \cup missed) \subseteq closerSaw \cap texts \cap entries
    BY <1>1, <2>3, AllShown DEF CloseInv, Closer, SawInv
  <2>6. Parties \ (overtaken \cup missed) \subseteq e.members
    BY <1>1, <2>2, <2>5, GroupingsFacts DEF TypeOK
  <2>7. QED
    BY <1>1, <2>3, <2>4, <2>6 DEF ShownInv
<1>17. ASSUME NEW p \in Parties, LoseFinal(p) PROVE ShownInv'
  BY <1>1, ShownStays, <1>17 DEF LoseFinal
<1>18. CASE TimerClose
  BY <1>1, ShownStays, <1>18 DEF TimerClose
<1>19. CASE TimerProbe
  BY <1>1, ShownStays, <1>19 DEF TimerProbe
<1>20. CASE TimerLook
  BY <1>1, ShownStays, <1>20 DEF TimerLook
<1>21. CASE TimerForget
  BY <1>1, ShownStays, <1>21 DEF TimerForget
<1>22. CASE TimerSpot
  BY <1>1, ShownStays, <1>22 DEF TimerSpot
<1>23. CASE TimerDies
  BY <1>1, ShownStays, <1>23 DEF TimerDies
<1>24. CASE TimerSend
  <2>0. PICK m \in Groupings(timerSaw) :
          sent' = Append(sent, [final |-> timer = "final", members |-> m])
    BY <1>24 DEF TimerSend
  <2>. DEFINE e == [final |-> timer = "final", members |-> m]
  <2>1. e \in Event /\ e.members = m /\ (e.final <=> timer = "final")
    BY <1>1, GroupingsFacts DEF Event, TypeOK
  <2>2. sent' = Append(sent, e) /\ scan > PartyCount /\ UNCHANGED <<overtaken, missed>>
    BY <1>24, <2>0 DEF TimerSend
  <2>. HIDE DEF e
  <2>3. \A i \in Finals : sent'[i] = sent[i]
    BY <1>a, <2>1, <2>2, SentFacts
  <2>4. CASE timer = "final"
    <3>1. Finals' = Finals \cup {Len(sent) + 1} /\ sent'[Len(sent) + 1] = e
      BY <1>a, <2>1, <2>2, <2>4, SentFacts
    <3>2. Parties \ (overtaken \cup missed) \subseteq timerSaw \cap texts \cap entries
      BY <1>1, <2>2, <2>4, AllShown DEF CloseInv, SawInv
    <3>3. Parties \ (overtaken \cup missed) \subseteq e.members
      BY <1>1, <2>1, <3>2, GroupingsFacts DEF TypeOK
    <3>4. QED
      BY <1>1, <2>2, <2>3, <3>1, <3>3 DEF ShownInv
  <2>5. CASE timer # "final"
    <3>1. Finals' = Finals
      BY <1>a, <2>1, <2>2, <2>5, SentFacts
    <3>2. QED
      BY <1>1, <2>2, <2>3, <3>1 DEF ShownInv
  <2>6. QED
    BY <2>4, <2>5
<1>25. QED
  BY <1>1, <1>2, <1>3, <1>4, <1>5, <1>6, <1>7, <1>8, <1>9, <1>10, <1>11, <1>12, <1>13,
     <1>14, <1>15, <1>16, <1>17, <1>18, <1>19, <1>20, <1>21, <1>22, <1>23, <1>24
  DEF Next, TimerStep, PartyStep, AddArrivalStep

LEMMA InitInv == Init => IInv
<1>1. SUFFICES ASSUME Init PROVE IInv
  OBVIOUS
<1>2. Finals = {} /\ sent = <<>> /\ \A p \in Parties : pc[p] \in {"absent", "new"}
  BY <1>1 DEF Init, Finals
<1>3. TypeOK
  <2>1. minimalSet \in BOOLEAN /\ ok \in [Parties -> BOOLEAN]
    BY <1>1, Zenon DEF Init
  <2>2. partiesArrived \in -1 .. PartyCount /\ scan \in 0 .. PartyCount + 1
    BY <1>1, PhaseAssumption DEF Init, PhaseAssumption
  <2>3. QED
    BY <1>1, <2>1, <2>2 DEF Init, TypeOK
<1>4. PastInv
  BY <1>1, PastFinite DEF Init, PastInv
<1>5. CloseInv /\ ShownInv
  BY <1>1, <1>2 DEF Init, CloseInv, Closer, ShownInv
<1>6. ScanInv
  BY <1>1 DEF Init, ScanInv
<1>7. KeptInv
  BY <1>1, <1>2 DEF Init, KeptInv, HasEntry, HasText
<1>8. SawInv
  BY <1>1, <1>2 DEF Init, SawInv
<1>9. QED
  BY <1>3, <1>4, <1>5, <1>6, <1>7, <1>8 DEF IInv

\* The inductive invariant holds for every number of parties.
THEOREM Invariance == Spec => []IInv
<1>1. IInv /\ [Next]_vars => IInv'
  BY TypeStep, PastStep, CloseStep, ScanStep, KeptStep, SawStep, ShownStep DEF IInv
<1>2. QED
  BY <1>1, InitInv, PTL DEF Spec

\* Every variable keeps to its type: the counter never runs past the number of
\* parties and never starts again once the phase is closed.
THEOREM TypeCorrect == Spec => []TypeOK
BY Invariance, PTL DEF IInv

\* Whoever wins the compareAndSet, the last party or the timer: the final
\* results are sent once at most, and nobody is uncounted by then.
THEOREM FinalIsOnce == Spec => []FinalOnceAfterAll
<1>1. ASSUME IInv PROVE FinalOnceAfterAll
  <2>1. Cardinality(Finals) <= 1
    <3>1. CASE Finals = {}
      BY <3>1, FS_EmptySet
    <3>2. CASE Finals # {}
      <4>1. PICK i \in Finals : TRUE
        BY <3>2
      <4>2. Finals = {i}
        BY <1>1, <4>1 DEF IInv, CloseInv
      <4>3. Cardinality({} \cup {i}) = Cardinality({}) + 1 /\ {} \cup {i} = {i}
        BY FS_EmptySet, FS_AddElement
      <4>4. QED
        BY <4>2, <4>3, FS_EmptySet
    <3>3. QED
      BY <3>1, <3>2
  <2>2. Finals # {} => \A p \in Parties : pc[p] \in {"closing", "done"}
    BY <1>1 DEF IInv, PastInv, Past, CloseInv, Closer
  <2>3. QED
    BY <2>1, <2>2 DEF FinalOnceAfterAll
<1>2. QED
  BY <1>1, Invariance, PTL

\* The final results show all parties but those that an init overtook or the
\* timer looked for too early, and they are lost only if there is one of those.
THEOREM FinalShows == Spec => []FinalShowsTheRest
<1>1. IInv => FinalShowsTheRest
  BY DEF IInv, ShownInv, SawInv, FinalShowsTheRest
<1>2. QED
  BY <1>1, Invariance, PTL
=============================================================================
