--------------------------- MODULE BearScriptPhase ---------------------------
(***************************************************************************)
(* The bookkeeping of one phase: bear.core.BearScriptPhase with the        *)
(* GroupDivider it owns, as the callables of GridBuilder use them.  Every  *)
(* party calls init before its task and addArrival after it, each on its   *)
(* own thread and whenever it gets there; a timer looks in once, three     *)
(* times the duration of the first ok task after that task.  The winner of *)
(* the compareAndSet that moves partiesArrived from the number of parties  *)
(* to -1 sends the final results to the UI, while the timer may still be   *)
(* busy with interim ones in the same list and array.                      *)
(*                                                                         *)
(* The counters partiesOk, partiesPending and partiesFailed, which are     *)
(* only printed, are left out, and of the groups who is in them is kept.   *)
(* What divideIntoGroups does after it has looked for the first text is    *)
(* one step, which takes the texts as they are or as they were before.     *)
(***************************************************************************)
EXTENDS Integers, FiniteSets, Sequences

CONSTANTS
    PartyCount,     \* the sessions of the run
    SchedulerDown   \* BOOLEAN: the scheduler may be shut down meanwhile, as when the UI is closed

ASSUME PhaseAssumption ==
    /\ PartyCount \in Nat \ {0}
    /\ SchedulerDown \in BOOLEAN

Parties == 0 .. PartyCount - 1

VARIABLES
    pc,             \* where each party stands in its callable
    ok,             \* per party: its task's result is ok
    stale,          \* parties about to write to a list or array that init has replaced
    entries,        \* indices that are set in arrivedEntries
    texts,          \* indices that are set in convertedEntries
    overtaken,      \* history: parties past their task when another one called init
    partiesArrived, \* -1 once the phase is closed
    minimalSet,     \* minimalOkDuration is no longer -1
    timer,          \* none, scheduled, probing, final, interim, done, died
    scan,           \* the index the timer's divideIntoGroups has come to
    found,          \* what it has read there: unread, entry or null
    missed,         \* history: indices it read as null
    timerSaw,       \* the texts that were there when it had forgotten those of the null ones
    closerSaw,      \* the same for the party that closed the phase
    sent            \* the PhaseFinishedEventToUI events: final?, members

dividerVars == <<stale, entries, texts, overtaken>>
timerVars == <<minimalSet, timer, scan, found, missed, timerSaw>>
vars == <<pc, ok, dividerVars, partiesArrived, timerVars, closerSaw, sent>>

\* Parties that broke in an earlier phase never get to this one.
Init ==
    /\ pc \in [Parties -> {"absent", "new"}]
    /\ ok = [p \in Parties |-> FALSE]
    /\ stale = {}
    /\ entries = {}
    /\ texts = {}
    /\ overtaken = {}
    /\ partiesArrived = 0
    /\ minimalSet = FALSE
    /\ timer = "none"
    /\ scan = 0
    /\ found = "unread"
    /\ missed = {}
    /\ timerSaw = {}
    /\ closerSaw = {}
    /\ sent = <<>>

Goto(p, from, to) ==
    /\ pc[p] = from
    /\ pc' = [pc EXCEPT ![p] = to]

PastTask == {p \in Parties : pc[p] \notin {"absent", "new", "initialising", "running", "skipped"}}

-----------------------------------------------------------------------------
(* The callable of a party *)

\* phase.init: groupDivider.init replaces the array, ...
InitTexts(p) ==
    /\ Goto(p, "new", "initialising")
    /\ texts' = {}
    /\ stale' = stale \cup {q \in Parties : pc[q] = "settingText"}
    /\ overtaken' = overtaken \cup PastTask
    /\ UNCHANGED <<ok, entries, partiesArrived, timerVars, closerSaw, sent>>

\* ... then the list, whatever has arrived already.
InitEntries(p) ==
    /\ Goto(p, "initialising", "running")
    /\ entries' = {}
    /\ stale' = stale \cup {q \in Parties : pc[q] = "settingEntry"}
    /\ overtaken' = overtaken \cup PastTask
    /\ UNCHANGED <<ok, texts, partiesArrived, timerVars, closerSaw, sent>>

\* The task ends with a result or a Throwable; the finally block takes over.
TaskEnds(p) ==
    /\ Goto(p, "running", "dividing")
    /\ ok' \in {[ok EXCEPT ![p] = b] : b \in BOOLEAN}
    /\ UNCHANGED <<dividerVars, partiesArrived, timerVars, closerSaw, sent>>

\* The session has run no task, in this phase or before, when the callable
\* ends: its host has none of the roles, the task is a nop, or an exception came
\* first.  There is no rootExecutionContext to put the result into, and the
\* NullPointerException keeps addArrival from being called.
NothingRan(p) ==
    /\ Goto(p, "running", "skipped")
    /\ ok' \in {[ok EXCEPT ![p] = b] : b \in BOOLEAN}
    /\ UNCHANGED <<dividerVars, partiesArrived, timerVars, closerSaw, sent>>

\* groupDivider.addArrival: arrivedEntries is read, ...
ReadEntries(p) ==
    /\ Goto(p, "dividing", "settingEntry")
    /\ UNCHANGED <<ok, dividerVars, partiesArrived, timerVars, closerSaw, sent>>

\* ... and the list that was read is set at the party's index.
SetEntry(p) ==
    /\ Goto(p, "settingEntry", "converting")
    /\ entries' = IF p \in stale THEN entries ELSE entries \cup {p}
    /\ stale' = stale \ {p}
    /\ UNCHANGED <<ok, texts, overtaken, partiesArrived, timerVars, closerSaw, sent>>

\* The same for convertedEntries.
ReadTexts(p) ==
    /\ Goto(p, "converting", "settingText")
    /\ UNCHANGED <<ok, dividerVars, partiesArrived, timerVars, closerSaw, sent>>

SetText(p) ==
    /\ Goto(p, "settingText", IF ok[p] THEN "timing" ELSE "arriving")
    /\ texts' = IF p \in stale THEN texts ELSE texts \cup {p}
    /\ stale' = stale \ {p}
    /\ UNCHANGED <<ok, entries, overtaken, partiesArrived, timerVars, closerSaw, sent>>

\* minimalOkDuration.compareAndSet(-1, duration); its winner starts the timer.
StartTimer(p) ==
    /\ Goto(p, "timing", "arriving")
    /\ minimalSet' = TRUE
    /\ timer' = IF minimalSet THEN timer ELSE "scheduled"
    /\ UNCHANGED <<ok, dividerVars, partiesArrived, scan, found, missed, timerSaw, closerSaw, sent>>

\* The scheduler rejects the timer: the exception ends addArrival and is logged.
StartTimerRejected(p) ==
    /\ SchedulerDown
    /\ Goto(p, "timing", "done")
    /\ ~minimalSet
    /\ minimalSet' = TRUE
    /\ UNCHANGED <<ok, dividerVars, partiesArrived, timer, scan, found, missed, timerSaw, closerSaw, sent>>

CountArrived(p) ==
    /\ Goto(p, "arriving", "closing")
    /\ partiesArrived' = partiesArrived + 1
    /\ UNCHANGED <<ok, dividerVars, timerVars, closerSaw, sent>>

\* Faulty: get() == partiesCount instead of the compareAndSet.
CloseByGet(p) ==
    /\ Goto(p, "closing", IF partiesArrived = PartyCount THEN "sending" ELSE "done")
    /\ UNCHANGED <<ok, dividerVars, partiesArrived, timerVars, closerSaw, sent>>

\* Faulty: waits for ok results only.
CloseWhenAllOk(p) ==
    /\ Goto(p, "closing", IF ok = [q \in Parties |-> TRUE] THEN "sending" ELSE "done")
    /\ partiesArrived' = IF ok = [q \in Parties |-> TRUE] THEN -1 ELSE partiesArrived
    /\ UNCHANGED <<ok, dividerVars, timerVars, closerSaw, sent>>

\* partiesArrived.compareAndSet(partiesCount, -1)
Close(p) ==
    /\ Goto(p, "closing", IF partiesArrived = PartyCount THEN "sending" ELSE "done")
    /\ partiesArrived' = IF partiesArrived = PartyCount THEN -1 ELSE partiesArrived
    /\ UNCHANGED <<ok, dividerVars, timerVars, closerSaw, sent>>

\* divideIntoGroups forgets the texts of the entries that are not there and
\* looks for the first text that is left.
SpotTexts(p) ==
    /\ Goto(p, "sending", "grouping")
    /\ texts' = texts \cap entries
    /\ closerSaw' = texts \cap entries
    /\ UNCHANGED <<ok, stale, entries, overtaken, partiesArrived, timerVars, sent>>

\* The texts a divideIntoGroups may read that spotted those of saw: none if it
\* found none, else what is still there, has come, or was there a moment before.
Readable(saw) == IF saw = {} THEN {} ELSE saw \cup texts

\* The members its groups may end up with: what does not change is in them.
Groupings(saw) ==
    {m \in SUBSET (Readable(saw) \cap entries) : saw \cap texts \cap entries \subseteq m}

\* A text j is compared with that of a group.  It goes into the group, but its
\* entry is gone; or the group was made of a text l that was set to null before
\* it was read again, and the comparison throws.
GroupingThrows(saw) ==
    \E l, j \in Readable(saw) :
        /\ j > 0
        /\ \/ l = j /\ j \notin entries
           \/ /\ l # j /\ l \in saw \ texts
              /\ l < j \/ \A i \in saw : l <= i

\* The rest of divideIntoGroups, and the event with the groups.
SendFinal(p) ==
    /\ Goto(p, "grouping", "done")
    /\ \E m \in Groupings(closerSaw) :
          sent' = Append(sent, [final |-> TRUE, members |-> m])
    /\ UNCHANGED <<ok, dividerVars, partiesArrived, timerVars, closerSaw>>

\* An exception ends addArrival and is logged: there are no final results.
LoseFinal(p) ==
    /\ Goto(p, "grouping", "thrown")
    /\ GroupingThrows(closerSaw)
    /\ UNCHANGED <<ok, dividerVars, partiesArrived, timerVars, closerSaw, sent>>

-----------------------------------------------------------------------------
(* The timer *)

\* compareAndSet(partiesCount, -1): everybody is there, nobody closed yet.
TimerClose ==
    /\ timer = "scheduled"
    /\ timer' = IF partiesArrived = PartyCount THEN "final" ELSE "probing"
    /\ partiesArrived' = IF partiesArrived = PartyCount THEN -1 ELSE partiesArrived
    /\ UNCHANGED <<pc, ok, dividerVars, minimalSet, scan, found, missed,
                   timerSaw, closerSaw, sent>>


\* compareAndSet(-1, -1): closed already, or some jobs hang.
TimerProbe ==
    /\ timer = "probing"
    /\ timer' = IF partiesArrived = -1 THEN "done" ELSE "interim"
    /\ UNCHANGED <<pc, ok, dividerVars, partiesArrived, minimalSet, scan, found, missed,
                   timerSaw, closerSaw, sent>>

\* divideIntoGroups in the timer, while parties may be arriving: an entry is
\* looked at, ...
TimerLook ==
    /\ timer \in {"final", "interim"} /\ scan < PartyCount /\ found = "unread"
    /\ found' = IF scan \in entries THEN "entry" ELSE "null"
    /\ missed' = IF scan \in entries THEN missed ELSE missed \cup {scan}
    /\ UNCHANGED <<pc, ok, dividerVars, partiesArrived, minimalSet, timer, scan, timerSaw,
                   closerSaw, sent>>

\* Faulty: every text is set to null.
TimerForgetAll ==
    /\ found # "unread"
    /\ texts' = texts \ {scan}
    /\ scan' = scan + 1
    /\ found' = "unread"
    /\ UNCHANGED <<pc, ok, stale, entries, overtaken, partiesArrived,
                   minimalSet, timer, missed, timerSaw, closerSaw, sent>>

\* ... and the text of one that was not there is set to null.
TimerForget ==
    /\ found # "unread"
    /\ texts' = IF found = "null" THEN texts \ {scan} ELSE texts
    /\ scan' = scan + 1
    /\ found' = "unread"
    /\ UNCHANGED <<pc, ok, stale, entries, overtaken, partiesArrived,
                   minimalSet, timer, missed, timerSaw, closerSaw, sent>>

\* When it has been through them, it looks for the first text that is left.
TimerSpot ==
    /\ timer \in {"final", "interim"} /\ scan = PartyCount
    /\ scan' = PartyCount + 1
    /\ timerSaw' = texts
    /\ UNCHANGED <<pc, ok, dividerVars, partiesArrived, minimalSet, timer, found, missed,
                   closerSaw, sent>>

\* A late init, or the closing party, has taken an entry or a text away.
TimerDies ==
    /\ timer \in {"final", "interim"} /\ scan > PartyCount
    /\ GroupingThrows(timerSaw)
    /\ timer' = "died"
    /\ UNCHANGED <<pc, ok, dividerVars, partiesArrived, minimalSet, scan, found, missed,
                   timerSaw, closerSaw, sent>>

TimerSend ==
    /\ timer \in {"final", "interim"} /\ scan > PartyCount
    /\ \E m \in Groupings(timerSaw) :
          sent' = Append(sent, [final |-> timer = "final", members |-> m])
    /\ timer' = "done"
    /\ UNCHANGED <<pc, ok, dividerVars, partiesArrived, minimalSet, scan, found, missed,
                   timerSaw, closerSaw>>

-----------------------------------------------------------------------------
AddArrivalStep(p) ==
    \/ ReadEntries(p) \/ SetEntry(p) \/ ReadTexts(p) \/ SetText(p)
    \/ StartTimer(p) \/ StartTimerRejected(p) \/ CountArrived(p)
    \/ Close(p) \/ SpotTexts(p) \/ SendFinal(p) \/ LoseFinal(p)

PartyStep(p) ==
    InitTexts(p) \/ InitEntries(p) \/ TaskEnds(p) \/ NothingRan(p) \/ AddArrivalStep(p)

TimerStep ==
    \/ TimerClose \/ TimerProbe \/ TimerLook \/ TimerForget
    \/ TimerSpot \/ TimerDies \/ TimerSend

Next == TimerStep \/ \E p \in Parties : PartyStep(p)

\* Threads are scheduled and the timer fires; a task may hang for ever.
Fairness ==
    /\ \A p \in Parties : WF_vars(InitTexts(p) \/ InitEntries(p) \/ AddArrivalStep(p))
    /\ WF_vars(TimerStep)

Spec == Init /\ [][Next]_vars

FairSpec == Spec /\ Fairness

-----------------------------------------------------------------------------
TypeOK ==
    /\ pc \in [Parties -> {"absent", "new", "initialising", "running", "skipped", "dividing",
                 "settingEntry", "converting", "settingText", "timing", "arriving",
                 "closing", "sending", "grouping", "thrown", "done"}]
    /\ ok \in [Parties -> BOOLEAN]
    /\ stale \subseteq Parties /\ entries \subseteq Parties /\ texts \subseteq Parties /\ overtaken \subseteq Parties
    /\ partiesArrived \in -1 .. PartyCount
    /\ minimalSet \in BOOLEAN
    /\ timer \in {"none", "scheduled", "probing", "final", "interim", "done", "died"}
    /\ scan \in 0 .. PartyCount + 1
    /\ found \in {"unread", "entry", "null"}
    /\ missed \subseteq Parties /\ timerSaw \subseteq Parties /\ closerSaw \subseteq Parties
    /\ sent \in Seq([final : BOOLEAN, members : SUBSET Parties])

Finals == {i \in 1 .. Len(sent) : sent[i].final}

\* The last parties to arrive and the timer race for the compareAndSet: one of
\* them wins, so the final results are sent once, and when they are sent no
\* party is left that has not been counted.
FinalOnceAfterAll ==
    /\ Cardinality(Finals) <= 1
    /\ Finals # {} => \A p \in Parties : pc[p] \in {"closing", "done"}

\* The final results show every party, but for those that another party's init
\* overtook, and those that arrived while the timer was looking at their place
\* for its interim results: no other interleaving loses a party, and only a
\* place that the timer looked at too early loses all of the final results.
FinalShowsTheRest ==
    /\ \A i \in Finals : Parties \ (overtaken \cup missed) \subseteq sent[i].members
    /\ \A p \in Parties : pc[p] = "thrown" => missed # {}

\* The scheduler has rejected the timer of the first ok task, or the timer died.
TimerLost == minimalSet /\ timer \in {"none", "died"}


TasksEnd == \A p \in Parties : WF_vars(TaskEnds(p) \/ NothingRan(p))

\* If every party gets to the phase, runs something there, and every task ends,
\* the phase is closed and its final results are sent, unless the timer's
\* rejection cost an arrival, or the timer a text the closing party was at; a
\* timer that dies does not keep the phase open.
PhaseClosed ==
    TasksEnd /\ [](\A p \in Parties : pc[p] \notin {"absent", "skipped"})
        => <>(\/ Finals # {}
              \/ minimalSet /\ timer = "none"
              \/ \E p \in Parties : pc[p] = "thrown")
=============================================================================
