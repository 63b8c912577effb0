----------------------------- MODULE Terminals -----------------------------
(***************************************************************************)
(* What the user of the UI sees of a run and what the cancel buttons do:   *)
(* the terminals of bear.js, fed by the events of the parties' threads,    *)
(* and FXConf.cancelThread, which interrupts a party's pool thread.        *)
(*                                                                         *)
(* Everything the UI does happens on the JavaFX thread: it dispatches one  *)
(* event at a time, and a run is started and a party cancelled within a    *)
(* single call from a script.  Parties and their listeners are on pool     *)
(* threads and serialise an event before Platform.runLater queues it.      *)
(* Runs may overlap: nothing keeps the user from starting another one.     *)
(*                                                                         *)
(* Of a run's events those that change a terminal's state are kept; tasks, *)
(* commands and texts are left out.                                        *)
(***************************************************************************)
EXTENDS Integers, FiniteSets, Sequences, SequencesExt, Functions

CONSTANTS
    Hosts,      \* hosts a run can be started on
    Plans,      \* sequences of the sets of hosts the user selects, run by run
    MaxRuns     \* bound on the number of runs

ASSUME TerminalsAssumption ==
    /\ IsFiniteSet(Hosts)
    /\ MaxRuns \in Nat \ {0}
    /\ Plans \subseteq Seq(SUBSET Hosts \ {{}})

Runs == 1 .. MaxRuns
NoRun == 0
Cancelled == -1     \* the result 'CANCELLED' that a cancel button shows

Parties == Runs \X Hosts

\* Threads of the pool: one for each party at the most, numbered from 1.
Workers == 1 .. MaxRuns * Cardinality(Hosts)
NoWorker == 0

VARIABLES
    started,        \* number of runs started
    members,        \* per run: its hosts
    pc,             \* where each party stands on its thread
    worker,         \* per party: its pool thread
    arrived,        \* per run: Stats.partiesArrived
    reg,            \* per party: partiesArrived as its status event has it
    arrivedCount,   \* per run: GlobalTaskRunner.arrivedCount
    listening,      \* runs whose listener of arrivedCount has been added
    current,        \* global.currentGlobalRunner
    interrupted,    \* parties whose thread has been interrupted while it is theirs
    queue,          \* the runnables queued by Platform.runLater
    fx,             \* what the JavaFX thread is doing
    todo,           \* terminals still to be cancelled by the call it is in
    target,         \* the run cancelThread has read
    victim,         \* the thread terminate has read
    terms,          \* the terminals, in order of their creation
    term,           \* per host: state of its terminal
    shown,          \* per host: the run whose result its terminal shows
    overall,        \* Terminals.state
    uiRun,          \* history: the run whose start was handled last
    refused,        \* history: hosts of uiRun whose cancel had no effect
    overlapped,     \* history: runs that were started before those before had ended
    unrun           \* parties that ended with rootExecutionContext still undefined

runVars == <<started, members, overlapped, unrun>>
partyVars == <<pc, worker, arrived, reg, arrivedCount>>
scopeVars == <<listening, current>>
cancelVars == <<todo, target, victim, refused>>
uiVars == <<terms, term, shown, overall, uiRun>>
vars == <<runVars, partyVars, scopeVars, interrupted, queue, fx, cancelVars, uiVars>>

Init ==
    /\ started = 0
    /\ members = [r \in Runs |-> {}]
    /\ pc = [p \in Parties |-> "new"]
    /\ worker = [p \in Parties |-> NoWorker]
    /\ arrived = [r \in Runs |-> 0]
    /\ reg = [p \in Parties |-> 0]
    /\ arrivedCount = [r \in Runs |-> 0]
    /\ listening = {}
    /\ current = NoRun
    /\ interrupted = {}
    /\ queue = <<>>
    /\ fx = "idle"
    /\ todo = <<>>
    /\ target = NoRun
    /\ victim = NoWorker
    /\ terms = <<>>
    /\ term = [h \in Hosts |-> "absent"]
    /\ shown = [h \in Hosts |-> NoRun]
    /\ overall = "not.running"
    /\ uiRun = NoRun
    /\ refused = {}
    /\ overlapped = {}
    /\ unrun = {}

Goto(p, from, to) ==
    /\ pc[p] = from
    /\ pc' = [pc EXCEPT ![p] = to]

Send(type, run, value) == queue' = Append(queue, [type |-> type, run |-> run, value |-> value])

Size(r) == Cardinality(members[r])

\* SessionContext.thread is set.
HasThread(p) == pc[p] \in {"running", "ended"}

Active(p) == pc[p] \notin {"new", "done"}

-----------------------------------------------------------------------------
(* Starting a run: FXConf.run and BearScriptRunner.exec *)

\* The pool gives each party of the run an idle thread of its own, the least
\* ones as idle threads are alike.
Assign(r, hosts) ==
    LET Idle == {w \in Workers : \A p \in Parties : worker[p] # w}
    IN  \E thread \in Injection(hosts, Idle) :
            /\ \A h \in hosts : \A w \in Idle \ Range(thread) : thread[h] < w
            /\ worker' = [p \in Parties |->
                            IF p[1] = r /\ p[2] \in hosts THEN thread[p[2]] ELSE worker[p]]

\* The user goes on as one of the plans has it.
Selected(r, hosts) ==
    \E plan \in Plans :
        /\ r <= Len(plan) /\ plan[r] = hosts
        /\ \A i \in 1 .. r - 1 : plan[i] = members[i]

\* The constructor of GlobalTaskRunner makes the run the current one, its hosts
\* are sent to the UI, and startParties submits the parties.
Launch(hosts) ==
    /\ started < MaxRuns
    /\ LET r == started + 1 IN
         /\ Selected(r, hosts)
         /\ started' = r
         /\ members' = [members EXCEPT ![r] = hosts]
         /\ current' = r
         /\ overlapped' = IF \E p \in Parties : Active(p) THEN overlapped \cup {r} ELSE overlapped
         /\ Send("start", r, hosts)
         /\ pc' = [p \in Parties |-> IF p[1] = r /\ p[2] \in hosts THEN "submitted" ELSE pc[p]]
         /\ Assign(r, hosts)
    /\ UNCHANGED <<unrun, arrived, reg, arrivedCount, listening, interrupted, todo, target,
                   victim, refused, uiVars>>

\* Faulty: the script runs on a thread of its own.
StartRunAside(hosts) ==
    /\ Launch(hosts)
    /\ fx' = fx

StartRun(hosts) ==
    /\ fx = "idle"
    /\ Launch(hosts)
    /\ fx' = "starting"

\* Faulty: the logger "ui" has the appender too, and sendHostsEtc announces the
\* run once more.
FinishStartSendsHosts ==
    /\ fx = "starting"
    /\ listening' = listening \cup {started}
    /\ fx' = "idle"
    /\ Send("start", started, members[started])
    /\ UNCHANGED <<runVars, partyVars, current, interrupted, cancelVars, uiVars>>

\* arrivedCount.addListener, and the call from the script returns.
FinishStart ==
    /\ fx = "starting"
    /\ listening' = listening \cup {started}
    /\ fx' = "idle"
    /\ UNCHANGED <<runVars, partyVars, current, interrupted, queue, cancelVars, uiVars>>

-----------------------------------------------------------------------------
(* A party: its phases, then SessionContext.whenSessionComplete *)

\* setThread, in the callable of its first phase.
SetThread(p) ==
    /\ Goto(p, "submitted", "running")
    /\ UNCHANGED <<runVars, worker, arrived, reg, arrivedCount, scopeVars, interrupted,
                   queue, fx, cancelVars, uiVars>>

\* The party is through with its phases, or broken.
TaskEnds(p) ==
    /\ Goto(p, "running", "ended")
    /\ UNCHANGED <<runVars, worker, arrived, reg, arrivedCount, scopeVars, interrupted,
                   queue, fx, cancelVars, uiVars>>

\* The same, but the session has run no task: its host has none of the roles of
\* any phase, the tasks are nops, or it broke before the first one.
NothingRan(p) ==
    /\ Goto(p, "running", "ended")
    /\ unrun' = unrun \cup {p}
    /\ UNCHANGED <<started, members, overlapped, worker, arrived, reg, arrivedCount, scopeVars,
                   interrupted, queue, fx, cancelVars, uiVars>>

\* Faulty: the task that failed has counted its party already.
CountPartyTwice(p) ==
    /\ Goto(p, "ended", "counted")
    /\ arrived' = [arrived EXCEPT ![p[1]] = @ + 2]
    /\ UNCHANGED <<runVars, worker, reg, arrivedCount, scopeVars, interrupted,
                   queue, fx, cancelVars, uiVars>>

\* thread = null and stats.addArrival
CountParty(p) ==
    /\ Goto(p, "ended", "counted")
    /\ arrived' = [arrived EXCEPT ![p[1]] = @ + 1]
    /\ UNCHANGED <<runVars, worker, reg, arrivedCount, scopeVars, interrupted,
                   queue, fx, cancelVars, uiVars>>

\* Faulty: the numbers are those before the party was counted.
SnapshotBefore(p) ==
    /\ Goto(p, "counted", "snapped")
    /\ reg' = [reg EXCEPT ![p] = arrived[p[1]] - 1]
    /\ UNCHANGED <<runVars, worker, arrived, arrivedCount, scopeVars, interrupted,
                   queue, fx, cancelVars, uiVars>>

\* stats.fireExternalModification: the event is serialised here, ...
Snapshot(p) ==
    /\ Goto(p, "counted", "snapped")
    /\ reg' = [reg EXCEPT ![p] = arrived[p[1]]]
    /\ UNCHANGED <<runVars, worker, arrived, arrivedCount, scopeVars, interrupted,
                   queue, fx, cancelVars, uiVars>>

\* ... and queued here: another party's newer numbers may be queued first.
\* Then arrivedCount is incremented.
SendStatus(p) ==
    /\ Goto(p, "snapped", "firing")
    /\ Send("status", p[1], reg[p])
    /\ reg' = [reg EXCEPT ![p] = 0]
    /\ arrivedCount' = [arrivedCount EXCEPT ![p[1]] = @ + 1]
    /\ UNCHANGED <<runVars, worker, arrived, scopeVars, interrupted, fx, cancelVars, uiVars>>

\* Faulty: the first arrival clears the scope.
FireFirstArrival(p) ==
    /\ Goto(p, "firing", "announcing")
    /\ current' = IF p[1] \in listening THEN NoRun ELSE current
    /\ UNCHANGED <<runVars, worker, arrived, reg, arrivedCount, listening, interrupted,
                   queue, fx, cancelVars, uiVars>>

\* The listener of arrivedCount clears the scope, whichever run is in it.
FireArrival(p) ==
    /\ Goto(p, "firing", "announcing")
    /\ current' = IF p[1] \in listening /\ arrivedCount[p[1]] = Size(p[1])
                   THEN NoRun ELSE current
    /\ UNCHANGED <<runVars, worker, arrived, reg, arrivedCount, listening, interrupted,
                   queue, fx, cancelVars, uiVars>>

\* PartyFinishedEventToUI; the thread goes back to the pool.
SendFinished(p) ==
    /\ p \notin unrun
    /\ Goto(p, "announcing", "done")
    /\ Send("finished", p[1], p[2])
    /\ worker' = [worker EXCEPT ![p] = NoWorker]
    /\ interrupted' = interrupted \ {p}
    /\ UNCHANGED <<runVars, arrived, reg, arrivedCount, scopeVars, fx, cancelVars, uiVars>>

\* There is no rootExecutionContext to take the duration from: the
\* NullPointerException comes before the event, and ends the listener.
FinishedLost(p) ==
    /\ p \in unrun
    /\ Goto(p, "announcing", "done")
    /\ worker' = [worker EXCEPT ![p] = NoWorker]
    /\ interrupted' = interrupted \ {p}
    /\ UNCHANGED <<runVars, arrived, reg, arrivedCount, scopeVars, queue, fx, cancelVars, uiVars>>

-----------------------------------------------------------------------------
(* The JavaFX thread dispatches an event *)

\* The event at the head of the queue is handled, and the thread is free for it.
Receive(type) ==
    /\ fx = "idle"
    /\ queue # <<>> /\ Head(queue).type = type
    /\ queue' = Tail(queue)
    /\ UNCHANGED <<runVars, partyVars, scopeVars, interrupted, fx, todo, target, victim>>

NewTerms(hosts) == SetToSeq({h \in hosts : term[h] = "absent"})

\* Faulty: only the new terminals are reset.
HandleStartNewOnly ==
    /\ Receive("start")
    /\ LET e == Head(queue) IN
         /\ terms' = terms \o NewTerms(e.value)
         /\ term' = [h \in Hosts |->
                       IF h \in e.value /\ term[h] = "absent" THEN "pending" ELSE term[h]]
         /\ uiRun' = e.run
    /\ shown' = shown
    /\ overall' = "pending"
    /\ refused' = {}

\* terminals.onScriptStart: hosts without a terminal get one, and ALL terminals
\* are reset, those of hosts that are not in the run included.
HandleStart ==
    /\ Receive("start")
    /\ LET e == Head(queue) IN
         /\ terms' = terms \o NewTerms(e.value)
         /\ term' = [h \in Hosts |->
                       IF h \in e.value \/ term[h] # "absent" THEN "pending" ELSE "absent"]
         /\ uiRun' = e.run
    /\ shown' = [h \in Hosts |-> NoRun]
    /\ overall' = "pending"
    /\ refused' = {}

\* Faulty: ready when all but one are there.
HandleStatusEarly ==
    /\ Receive("status")
    /\ LET e == Head(queue) IN
         overall' = IF e.value >= Size(e.run) - 1 THEN "not.running" ELSE overall
    /\ UNCHANGED <<terms, term, shown, uiRun, refused>>

\* terminals.updateStats, for a status event of whichever run
HandleStatus ==
    /\ Receive("status")
    /\ LET e == Head(queue) IN
         overall' = IF e.value = Size(e.run) THEN "not.running" ELSE overall
    /\ UNCHANGED <<terms, term, shown, uiRun, refused>>

\* Faulty: a terminal that is being cancelled keeps its state.
HandleFinishedIfPending ==
    /\ Receive("finished")
    /\ LET e == Head(queue) IN
         /\ term' = [term EXCEPT ![e.value] = IF @ = "cancelling" THEN @ ELSE "complete"]
         /\ shown' = [shown EXCEPT ![e.value] = e.run]
    /\ UNCHANGED <<terms, overall, uiRun, refused>>

\* terminal.partyCompleted, for a party of whichever run
HandleFinished ==
    /\ Receive("finished")
    /\ LET e == Head(queue) IN
         /\ term' = [term EXCEPT ![e.value] = "complete"]
         /\ shown' = [shown EXCEPT ![e.value] = e.run]
    /\ UNCHANGED <<terms, overall, uiRun, refused>>

Dispatch == HandleStart \/ HandleStatus \/ HandleFinished

-----------------------------------------------------------------------------
(* The user cancels *)

Click(hosts) ==
    /\ fx = "idle"
    /\ hosts # <<>>
    /\ todo' = hosts
    /\ fx' = "calling"
    /\ UNCHANGED <<runVars, partyVars, scopeVars, interrupted, queue, target, victim,
                   refused, uiVars>>

\* The button of a terminal, which is there while it is pending.
CancelOne(h) == term[h] = "pending" /\ Click(<<h>>)

\* terminals.cancelAll: all terminals, one after the other. A click that finds
\* none of them pending changes nothing and is left out.
CancelAll ==
    /\ overall = "pending"
    /\ \E h \in Hosts : term[h] = "pending"
    /\ Click(terms)

\* The call is over for the terminal at the head of todo.
NextTerminal ==
    /\ todo' = Tail(todo)
    /\ fx' = IF Len(todo) = 1 THEN "idle" ELSE "calling"

\* An exception of cancelThread comes back as a JavaScript exception, which
\* leaves the loop over the other terminals as well.
CallThrows(h) ==
    /\ todo' = <<>>
    /\ target' = NoRun
    /\ fx' = "idle"
    /\ refused' = refused \cup {h}

\* cancelAll passes over a terminal that is not pending.
SkipTerminal ==
    /\ fx = "calling"
    /\ term[Head(todo)] # "pending"
    /\ NextTerminal
    /\ UNCHANGED <<runVars, partyVars, scopeVars, interrupted, queue, target, victim,
                   refused, uiVars>>

\* term.cancel: the terminal shows the outcome before cancelThread is called,
\* and cancelThread reads currentGlobalRunner.
CallCancel ==
    /\ fx = "calling"
    /\ LET h == Head(todo) IN
         /\ term[h] = "pending"
         /\ term' = [term EXCEPT ![h] = "cancelling"]
         /\ shown' = [shown EXCEPT ![h] = Cancelled]
         /\ \/ /\ current = NoRun
               /\ refused' = refused \cup {h}
               /\ NextTerminal
               /\ target' = NoRun
            \/ /\ current # NoRun
               /\ ~(h \in members[current] /\ HasThread(<<current, h>>))
               /\ CallThrows(h)
            \/ /\ current # NoRun
               /\ h \in members[current] /\ HasThread(<<current, h>>)
               /\ fx' = "checked"
               /\ target' = current
               /\ UNCHANGED <<todo, refused>>
    /\ UNCHANGED <<runVars, partyVars, scopeVars, interrupted, queue, victim,
                   terms, overall, uiRun>>

\* thread.interrupt() reads the field again, which may be null by now.
ReadThread ==
    /\ fx = "checked"
    /\ LET p == <<target, Head(todo)>> IN
         \/ /\ HasThread(p)
            /\ victim' = worker[p]
            /\ fx' = "read"
            /\ UNCHANGED <<todo, target, refused>>
         \/ /\ ~HasThread(p)
            /\ CallThrows(p[2])
            /\ victim' = victim
    /\ UNCHANGED <<runVars, partyVars, scopeVars, interrupted, queue, uiVars>>

\* The thread is interrupted, whatever it is working on now.
Interrupt ==
    /\ fx = "read"
    /\ interrupted' = interrupted \cup {p \in Parties : worker[p] = victim}
    /\ NextTerminal
    /\ target' = NoRun
    /\ victim' = NoWorker
    /\ UNCHANGED <<runVars, partyVars, scopeVars, queue, refused, uiVars>>

-----------------------------------------------------------------------------
UserStep ==
    \/ \E hosts \in SUBSET Hosts : StartRun(hosts)
    \/ \E h \in Hosts : CancelOne(h)
    \/ CancelAll

CallStep == FinishStart \/ SkipTerminal \/ CallCancel \/ ReadThread \/ Interrupt

\* The steps that the scheduling of the pool's threads is enough for.
ListenerStep(p) ==
    \/ SetThread(p) \/ CountParty(p) \/ Snapshot(p) \/ SendStatus(p)
    \/ FireArrival(p) \/ SendFinished(p) \/ FinishedLost(p)

PhasesEnd(p) == TaskEnds(p) \/ NothingRan(p)

Next == UserStep \/ CallStep \/ Dispatch \/ \E p \in Parties : ListenerStep(p) \/ PhasesEnd(p)

\* Threads are scheduled, the JavaFX thread gets round to every event, and a
\* task that is interrupted ends; others may hang for ever.
Fairness ==
    /\ WF_vars(CallStep)
    /\ WF_vars(Dispatch)
    /\ \A p \in Parties : WF_vars(ListenerStep(p))
    /\ \A p \in Parties : WF_vars(p \in interrupted /\ PhasesEnd(p))

Spec == Init /\ [][Next]_vars

FairSpec == Spec /\ Fairness

-----------------------------------------------------------------------------
Events == [type : {"start"}, run : Runs, value : SUBSET Hosts]
            \cup [type : {"status"}, run : Runs, value : Nat]
            \cup [type : {"finished"}, run : Runs, value : Hosts]

TypeOK ==
    /\ started \in 0 .. MaxRuns
    /\ members \in [Runs -> SUBSET Hosts]
    /\ pc \in [Parties -> {"new", "submitted", "running", "ended", "counted",
                           "snapped", "firing", "announcing", "done"}]
    /\ worker \in [Parties -> Workers \cup {NoWorker}]
    /\ \A r \in Runs : arrived[r] \in 0 .. Size(r) /\ arrivedCount[r] \in 0 .. arrived[r]
    /\ reg \in [Parties -> Nat]
    /\ listening \subseteq Runs
    /\ {current, target, uiRun} \subseteq Runs \cup {NoRun}
    /\ interrupted \subseteq Parties
    /\ queue \in Seq(Events)
    /\ fx \in {"idle", "starting", "calling", "checked", "read"}
    /\ {todo, terms} \subseteq Seq(Hosts)
    /\ victim \in Workers \cup {NoWorker}
    /\ term \in [Hosts -> {"absent", "pending", "cancelling", "complete"}]
    /\ shown \in [Hosts -> Runs \cup {NoRun, Cancelled}]
    /\ overall \in {"not.running", "pending"}
    /\ refused \subseteq Hosts
    /\ overlapped \subseteq Runs
    /\ unrun \subseteq Parties

\* Cancelling interrupts the party that the button was for, of the run that was
\* current, or nobody: the pool cannot have handed the thread to another party
\* between terminate's look at the field and the interrupt, as only a run
\* started in between could use it, and runs are started on the same thread.
OnlyMeantIsInterrupted ==
    [][\A p \in interrupted' \ interrupted : p = <<target, Head(todo)>>]_vars

\* A terminal that says complete shows the result of the run whose start the UI
\* saw last, never one of a run before, unless the run was started while another one went on.
LatestResult ==
    \A h \in Hosts : term[h] = "complete" /\ uiRun \notin overlapped => shown[h] = uiRun

\* When the UI says that nothing is running, every party of the last run it has
\* heard of has finished and is counted, whatever the order of the status
\* events, unless that run was started while another one went on.
IdleMeansIdle ==
    overall = "not.running" /\ uiRun \notin overlapped \cup {NoRun} =>
        \A h \in members[uiRun] : pc[<<uiRun, h>>] \notin {"submitted", "running", "ended"}

\* While a party of the last run still works, the run is in the global scope and
\* a cancel button finds it, unless it was started while another one went on:
\* the end of the earlier run takes the later one out of the scope.
RunningIsCurrent ==
    started \notin overlapped \cup {NoRun} =>
        \A h \in Hosts : pc[<<started, h>>] \in {"submitted", "running", "ended"}
            => current = started

TasksEnd == \A p \in Parties : WF_vars(PhasesEnd(p))

\* Provided that tasks end, a terminal that shows a host of the run as pending
\* comes to show a result: no order of the events leaves it pending.  Only the
\* party that has run no task leaves it so, as it has no duration to tell.
PendingEnds ==
    TasksEnd => \A r \in Runs, h \in Hosts :
        term[h] = "pending" /\ uiRun = r /\ h \in members[r]
            ~> term[h] = "complete" \/ <<r, h>> \in unrun

\* A terminal on which the user pressed cancel does not stay in that state even
\* if the task would have hung, unless cancelThread refused (nothing was
\* current, the host was not in the run, or the thread was not set) or the party
\* was cancelled before it had run a task.
CancelReaches ==
    \A r \in Runs, h \in Hosts :
        term[h] = "cancelling" /\ uiRun = r
            ~> term[h] # "cancelling" \/ h \in refused \/ <<r, h>> \in unrun

\* Provided that tasks end, the UI gets back to not running: the last numbers
\* are in one of the status events, even if it is not the last one.
OverallEnds ==
    TasksEnd => (overall = "pending" ~> overall = "not.running")
=============================================================================
