-------------------------- MODULE Terminals_proofs --------------------------
(***************************************************************************)
(* Terminals for any finite set of hosts and any number of runs.  A run    *)
(* that begins when all others have ended is alone: the threads, the scope *)
(* and the events that are under way are its own.                          *)
(***************************************************************************)
EXTENDS MCTerminals, FiniteSetTheorems, SequenceTheorems, TLAPS

Steps == {"new", "submitted", "running", "ended", "counted", "snapped", "firing",
          "announcing", "done"}

Working == {"submitted", "running", "ended"}
Fired == {"firing", "announcing", "done"}
Counted == {"counted", "snapped"} \cup Fired

CountedIn(r) == {h \in members[r] : pc[<<r, h>>] \in Counted}
FiredIn(r) == {h \in members[r] : pc[<<r, h>>] \in Fired}
NoneWorks(r) == \A h \in Hosts : pc[<<r, h>>] \notin Working

TypeInv ==
    /\ started \in 0 .. MaxRuns
    /\ members \in [Runs -> SUBSET Hosts]
    /\ pc \in [Parties -> Steps]
    /\ worker \in [Parties -> Workers \cup {NoWorker}]
    /\ arrived \in [Runs -> Nat]
    /\ arrivedCount \in [Runs -> Nat]
    /\ reg \in [Parties -> Nat]
    /\ current \in Runs \cup {NoRun}
    /\ queue \in Seq(Events)
    /\ uiRun \in 0 .. started
    /\ overlapped \subseteq 1 .. started
    /\ unrun \subseteq Parties
    /\ term \in [Hosts -> {"absent", "pending", "cancelling", "complete"}]
    /\ shown \in [Hosts -> Runs \cup {NoRun, Cancelled}]

\* What the call that the JavaFX thread is in has read, and still has to do.
CallInv ==
    /\ listening \subseteq Runs
    /\ target \in Runs \cup {NoRun}
    /\ victim \in Workers \cup {NoWorker}
    /\ interrupted \subseteq Parties
    /\ fx \in {"idle", "starting", "calling", "checked", "read"}
    /\ todo \in Seq(Hosts) /\ terms \in Seq(Hosts)
    /\ fx = "starting" => started # 0
    /\ fx \in {"calling", "checked", "read"} => todo # <<>>
    /\ overall \in {"not.running", "pending"}
    /\ refused \subseteq Hosts

\* The parties there are.
MemberInv ==
    \A p \in Parties : pc[p] # "new" <=> p[1] <= started /\ p[2] \in members[p[1]]

\* A thread works for one party at a time, and the one that is about to be
\* interrupted for none but the party the button was for.
WorkerInv ==
    /\ \A p \in Parties : Active(p) => worker[p] # NoWorker
    /\ \A p, q \in Parties : worker[p] = worker[q] /\ worker[p] # NoWorker => p = q
    /\ fx = "checked" => <<target, Head(todo)>> \in Parties
    /\ fx = "read" =>
         /\ victim # NoWorker
         /\ \A p \in Parties : worker[p] = victim => p = <<target, Head(todo)>>

\* Both counters count.
CountInv ==
    /\ \A r \in Runs : arrived[r] = Cardinality(CountedIn(r))
    /\ \A r \in Runs : arrivedCount[r] = Cardinality(FiredIn(r))

\* Numbers that are under way and say that all parties are there are true.
NumbersInv ==
    /\ \A p \in Parties : pc[p] = "snapped" /\ reg[p] = Size(p[1]) => NoneWorks(p[1])
    /\ \A i \in 1 .. Len(queue) :
         queue[i].type = "status" /\ queue[i].value = Size(queue[i].run) => NoneWorks(queue[i].run)

\* When a run begins alone, the runs before it are over for good.
AloneInv ==
    \A r \in Runs \ overlapped : r <= started => \A p \in Parties : p[1] < r => ~Active(p)

StartOf(i, r) == queue[i].type = "start" /\ queue[i].run = r

\* The order of the events: a run's start comes before its other events, the
\* starts are in the order of the runs, and behind the start of a run that was
\* alone there is nothing of the runs before.
QueueInv ==
    /\ \A i \in 1 .. Len(queue) : queue[i].run <= started
    /\ \A i, j \in 1 .. Len(queue) :
         i < j /\ queue[j].type = "start" => queue[i].run < queue[j].run
    /\ \A i \in 1 .. Len(queue) : queue[i].type = "start" => uiRun < queue[i].run
    /\ \A i, j \in 1 .. Len(queue) :
         i < j /\ queue[i].type = "start" /\ queue[i].run \notin overlapped
            => queue[i].run <= queue[j].run
    /\ uiRun \notin overlapped => \A i \in 1 .. Len(queue) : uiRun <= queue[i].run
    /\ \A i \in 1 .. Len(queue) :
         queue[i].run <= uiRun \/ \E j \in 1 .. i : StartOf(j, queue[i].run)
    /\ \A r \in 1 .. started : r <= uiRun \/ \E j \in 1 .. Len(queue) : StartOf(j, r)

IInv ==
    /\ TypeInv /\ CallInv /\ MemberInv /\ WorkerInv /\ CountInv /\ NumbersInv
    /\ AloneInv /\ QueueInv
    /\ RunningIsCurrent /\ IdleMeansIdle /\ LatestResult

LEMMA PartyFacts ==
    /\ \A p \in Parties : p[1] \in Runs /\ p[2] \in Hosts /\ p = <<p[1], p[2]>>
    /\ \A r \in Runs, h \in Hosts : <<r, h>> \in Parties /\ <<r, h>>[1] = r /\ <<r, h>>[2] = h
BY DEF Parties

LEMMA RunFacts == MaxRuns \in Nat /\ Runs = 1 .. MaxRuns /\ NoRun \notin Runs
BY TerminalsAssumption DEF TerminalsAssumption, Runs, NoRun

LEMMA WorkerFacts == NoWorker \notin Workers
BY DEF Workers, NoWorker

\* The end of the queue grows, its head goes away.
LEMMA SendFacts ==
    ASSUME TypeInv, NEW e \in Events, queue' = Append(queue, e)
    PROVE  /\ queue' \in Seq(Events)
           /\ Len(queue') = Len(queue) + 1
           /\ \A i \in 1 .. Len(queue) : queue'[i] = queue[i]
           /\ queue'[Len(queue) + 1] = e
BY DEF TypeInv

LEMMA ReceiveFacts ==
    ASSUME TypeInv, queue # <<>>, queue' = Tail(queue)
    PROVE  /\ Head(queue) \in Events /\ Head(queue) = queue[1]
           /\ queue' \in Seq(Events)
           /\ Len(queue) \in Nat \ {0} /\ Len(queue') = Len(queue) - 1
           /\ \A i \in 1 .. Len(queue') : queue'[i] = queue[i + 1]
BY HeadTailProperties, EmptySeq DEF TypeInv

LEMMA EventFacts ==
    \A e \in Events :
        /\ e.run \in Runs
        /\ e.type = "start" => e.value \in SUBSET Hosts
        /\ e.type = "status" => e.value \in Nat
        /\ e.type = "finished" => e.value \in Hosts
BY DEF Events

\* What Assign and Launch do: the parties of the new run get threads that nobody
\* has, each its own.
LEMMA AssignFacts ==
    ASSUME TypeInv, NEW r, NEW hosts \in SUBSET Hosts, Assign(r, hosts)
    PROVE  /\ worker' \in [Parties -> Workers \cup {NoWorker}]
           /\ \A p \in Parties : p[1] = r /\ p[2] \in hosts =>
                 worker'[p] \in Workers /\ \A q \in Parties : worker[q] # worker'[p]
           /\ \A p \in Parties : ~(p[1] = r /\ p[2] \in hosts) => worker'[p] = worker[p]
           /\ \A p, q \in Parties :
                p[1] = r /\ p[2] \in hosts /\ q[1] = r /\ q[2] \in hosts /\ worker'[p] = worker'[q]
                    => p = q
<1>. DEFINE Idle == {w \in Workers : \A p \in Parties : worker[p] # w}
<1>1. PICK thread \in Injection(hosts, Idle) :
        worker' = [p \in Parties |->
                    IF p[1] = r /\ p[2] \in hosts THEN thread[p[2]] ELSE worker[p]]
  BY DEF Assign
<1>2. /\ thread \in [hosts -> Idle]
      /\ \A a, b \in hosts : thread[a] = thread[b] => a = b
  BY <1>1 DEF Injection, IsInjective
<1>3. worker \in [Parties -> Workers \cup {NoWorker}]
  BY DEF TypeInv
<1>4. \A p \in Parties : worker'[p] = IF p[1] = r /\ p[2] \in hosts THEN thread[p[2]] ELSE worker[p]
  BY <1>1
<1>5. \A p \in Parties : p[1] = r /\ p[2] \in hosts => worker'[p] \in Idle
  BY <1>2, <1>4
<1>6. worker' \in [Parties -> Workers \cup {NoWorker}]
  BY <1>1, <1>2, <1>3
<1>7. \A p, q \in Parties :
        p[1] = r /\ p[2] \in hosts /\ q[1] = r /\ q[2] \in hosts /\ worker'[p] = worker'[q] => p = q
  <2>1. SUFFICES ASSUME NEW p \in Parties, NEW q \in Parties,
                        p[1] = r, p[2] \in hosts, q[1] = r, q[2] \in hosts, worker'[p] = worker'[q]
                 PROVE  p = q
    OBVIOUS
  <2>2. p[2] = q[2]
    BY <1>2, <1>4, <2>1
  <2>3. QED
    BY <2>1, <2>2, PartyFacts
<1>8. QED
  BY <1>4, <1>5, <1>6, <1>7

LEMMA LaunchFacts ==
    ASSUME TypeInv, NEW hosts \in SUBSET Hosts, Launch(hosts)
    PROVE  /\ started \in Nat /\ started' = started + 1 /\ started' \in Runs
           /\ members' = [members EXCEPT ![started'] = hosts]
           /\ current' = started'
           /\ overlapped' \in {overlapped, overlapped \cup {started'}}
           /\ started' \notin overlapped' => \A p \in Parties : ~Active(p)
           /\ [type |-> "start", run |-> started', value |-> hosts] \in Events
           /\ queue' = Append(queue, [type |-> "start", run |-> started', value |-> hosts])
           /\ pc' \in [Parties -> Steps]
           /\ \A p \in Parties :
                pc'[p] = IF p[1] = started' /\ p[2] \in hosts THEN "submitted" ELSE pc[p]
           /\ Assign(started', hosts)
           /\ UNCHANGED <<unrun, arrived, reg, arrivedCount, listening, interrupted, todo, target,
                          victim, refused, terms, term, shown, overall, uiRun>>
<1>1. started \in 0 .. MaxRuns /\ started < MaxRuns /\ started' = started + 1
  BY DEF TypeInv, Launch
<1>2. started \in Nat /\ started' \in Runs
  BY <1>1, RunFacts
<1>3. pc \in [Parties -> Steps] /\ "submitted" \in Steps
  BY DEF TypeInv, Steps
<1>4. pc' = [p \in Parties |-> IF p[1] = started' /\ p[2] \in hosts THEN "submitted" ELSE pc[p]]
  BY <1>1 DEF Launch
<1>5. [type |-> "start", run |-> started', value |-> hosts] \in Events
  BY <1>2 DEF Events
<1>6. started' \notin overlapped' => \A p \in Parties : ~Active(p)
  BY <1>1 DEF Launch
<1>7. QED
  BY <1>1, <1>2, <1>3, <1>4, <1>5, <1>6 DEF Launch, Send, uiVars

LEMMA TypeLaunch ==
    ASSUME TypeInv, NEW hosts \in SUBSET Hosts, Launch(hosts)
    PROVE  TypeInv'
<1>1. /\ started \in Nat /\ started' = started + 1 /\ started' \in Runs
      /\ members' = [members EXCEPT ![started'] = hosts]
      /\ current' = started'
      /\ overlapped' \in {overlapped, overlapped \cup {started'}}
      /\ pc' \in [Parties -> Steps]
      /\ Assign(started', hosts)
  BY LaunchFacts
<1>2. [type |-> "start", run |-> started', value |-> hosts] \in Events
  BY LaunchFacts
<1>3. queue' = Append(queue, [type |-> "start", run |-> started', value |-> hosts])
  BY LaunchFacts
<1>4. UNCHANGED <<unrun, arrived, reg, arrivedCount, term, shown, uiRun>>
  BY LaunchFacts
<1>5. queue' \in Seq(Events)
  BY <1>2, <1>3 DEF TypeInv
<1>6. started' \in 0 .. MaxRuns /\ uiRun' \in 0 .. started' /\ overlapped' \subseteq 1 .. started'
  <2>1. uiRun \in 0 .. started /\ overlapped \subseteq 1 .. started
    BY DEF TypeInv
  <2>2. started' \in 1 .. MaxRuns
    BY <1>1, RunFacts
  <2>3. uiRun' = uiRun
    BY <1>4
  <2>4. QED
    BY <1>1, <2>1, <2>2, <2>3
<1>7. members' \in [Runs -> SUBSET Hosts]
  BY <1>1 DEF TypeInv
<1>8. worker' \in [Parties -> Workers \cup {NoWorker}]
  BY <1>1, AssignFacts
<1>9. QED
  BY <1>1, <1>4, <1>5, <1>6, <1>7, <1>8 DEF TypeInv

LEMMA TypeStep == TypeInv /\ QueueInv /\ [Next]_vars => TypeInv'
<1>1. SUFFICES ASSUME TypeInv, QueueInv, [Next]_vars PROVE TypeInv'
  OBVIOUS
<1>a. {"new", "submitted", "running", "ended", "counted", "snapped", "firing", "announcing", "done"}
        \subseteq Steps
  BY DEF Steps
<1>b. \A p \in Parties : p[1] \in Runs /\ p[2] \in Hosts
  BY PartyFacts
<1>. USE <1>a, <1>b DEF TypeInv, Goto, runVars, partyVars, scopeVars, cancelVars, uiVars
<1>2. CASE UNCHANGED vars
  BY <1>1, <1>2 DEF vars, runVars, partyVars, scopeVars, cancelVars, uiVars
<1>3. ASSUME NEW hosts \in SUBSET Hosts, StartRun(hosts) PROVE TypeInv'
  BY <1>1, <1>3, TypeLaunch DEF StartRun
<1>4. ASSUME NEW h \in Hosts, CancelOne(h) PROVE TypeInv'
  BY <1>1, <1>4 DEF CancelOne, Click
<1>5. CASE CancelAll
  BY <1>1, <1>5 DEF CancelAll, Click
<1>6. CASE FinishStart
  BY <1>1, <1>6 DEF FinishStart
<1>7. CASE SkipTerminal
  BY <1>1, <1>7 DEF SkipTerminal
<1>8. CASE CallCancel
  BY <1>1, <1>8 DEF CallCancel
<1>9. CASE ReadThread
  BY <1>1, <1>9 DEF ReadThread
<1>10. CASE Interrupt
  BY <1>1, <1>10 DEF Interrupt
<1>11. CASE HandleStart
  <2>1. queue # <<>> /\ queue' = Tail(queue) /\ Head(queue).type = "start"
    BY <1>11 DEF HandleStart, Receive
  <2>2. queue' \in Seq(Events) /\ Head(queue) \in Events
    BY <1>1, <2>1, ReceiveFacts
  <2>3. uiRun' = Head(queue).run /\ Head(queue) = queue[1] /\ 1 \in 1 .. Len(queue)
    BY <1>1, <1>11, <2>1, ReceiveFacts DEF HandleStart
  <2>4. Head(queue).run \in Runs /\ Head(queue).run <= started
    BY <1>1, <2>2, <2>3, EventFacts DEF QueueInv
  <2>5. uiRun' \in 0 .. started
    BY <1>1, <2>3, <2>4, RunFacts
  <2>6. QED
    BY <1>1, <1>11, <2>2, <2>5 DEF HandleStart, Receive
<1>12. CASE HandleStatus
  <2>1. queue' \in Seq(Events)
    BY <1>1, <1>12, ReceiveFacts DEF HandleStatus, Receive
  <2>2. QED
    BY <1>1, <1>12, <2>1 DEF HandleStatus, Receive
<1>13. CASE HandleFinished
  <2>1. queue # <<>> /\ queue' = Tail(queue) /\ Head(queue).type = "finished"
    BY <1>13 DEF HandleFinished, Receive
  <2>2. queue' \in Seq(Events) /\ Head(queue).run \in Runs /\ Head(queue).value \in Hosts
    BY <1>1, <2>1, ReceiveFacts, EventFacts
  <2>3. QED
    BY <1>1, <1>13, <2>2 DEF HandleFinished, Receive
<1>14. ASSUME NEW p \in Parties, SetThread(p) PROVE TypeInv'
  BY <1>1, <1>14 DEF SetThread
<1>15. ASSUME NEW p \in Parties, TaskEnds(p) PROVE TypeInv'
  BY <1>1, <1>15 DEF TaskEnds
<1>16. ASSUME NEW p \in Parties, NothingRan(p) PROVE TypeInv'
  BY <1>1, <1>16 DEF NothingRan
<1>17. ASSUME NEW p \in Parties, CountParty(p) PROVE TypeInv'
  BY <1>1, <1>17 DEF CountParty
<1>18. ASSUME NEW p \in Parties, Snapshot(p) PROVE TypeInv'
  BY <1>1, <1>18 DEF Snapshot
<1>19. ASSUME NEW p \in Parties, SendStatus(p) PROVE TypeInv'
  <2>1. [type |-> "status", run |-> p[1], value |-> reg[p]] \in Events
    BY <1>1, <1>19 DEF Events
  <2>2. queue' \in Seq(Events)
    BY <1>1, <1>19, <2>1, SendFacts DEF SendStatus, Send
  <2>3. QED
    BY <1>1, <1>19, <2>2, SMTT(20) DEF SendStatus
<1>20. ASSUME NEW p \in Parties, FireArrival(p) PROVE TypeInv'
  BY <1>1, <1>20 DEF FireArrival
<1>21. ASSUME NEW p \in Parties, SendFinished(p) PROVE TypeInv'
  <2>1. [type |-> "finished", run |-> p[1], value |-> p[2]] \in Events
    BY <1>1, <1>21 DEF Events
  <2>2. queue' \in Seq(Events)
    BY <1>1, <1>21, <2>1, SendFacts DEF SendFinished, Send
  <2>3. QED
    BY <1>1, <1>21, <2>2 DEF SendFinished
<1>22. ASSUME NEW p \in Parties, FinishedLost(p) PROVE TypeInv'
  BY <1>1, <1>22 DEF FinishedLost
<1>23. QED
  BY <1>1, <1>2, <1>3, <1>4, <1>5, <1>6, <1>7, <1>8, <1>9, <1>10, <1>11, <1>12, <1>13, <1>14,
     <1>15, <1>16, <1>17, <1>18, <1>19, <1>20, <1>21, <1>22
  DEF Next, UserStep, CallStep, Dispatch, ListenerStep, PhasesEnd

\* The new terminals are those of hosts.
LEMMA NewTermsFacts ==
    ASSUME NEW hosts \in SUBSET Hosts
    PROVE  NewTerms(hosts) \in Seq(Hosts)
<1>. DEFINE S == {h \in hosts : term[h] = "absent"}
            n == Cardinality(S)
<1>1. IsFiniteSet(S)
  BY TerminalsAssumption, FS_Subset DEF TerminalsAssumption
<1>2. n \in Nat /\ ExistsBijection(1 .. n, S)
  BY <1>1, FS_CardinalityType
<1>3. \E f \in [1 .. n -> S] : IsInjective(f)
  <2>1. PICK f : f \in Bijection(1 .. n, S)
    BY <1>2 DEF ExistsBijection
  <2>2. QED
    BY <2>1 DEF Bijection, Injection, IsInjective
<1>4. NewTerms(hosts) \in [1 .. n -> S]
  <2>1. NewTerms(hosts) = CHOOSE f \in [1 .. n -> S] : IsInjective(f)
    BY DEF NewTerms, SetToSeq
  <2>. HIDE DEF S, n
  <2>2. QED
    BY <1>3, <2>1
<1>5. NewTerms(hosts) \in [1 .. n -> Hosts]
  BY <1>4
<1>. HIDE DEF n
<1>6. QED
  BY <1>2, <1>5, SeqDef

LEMMA CallTypeStep == TypeInv /\ CallInv /\ WorkerInv /\ [Next]_vars => CallInv'
<1>1. SUFFICES ASSUME TypeInv, CallInv, WorkerInv, [Next]_vars PROVE CallInv'
  OBVIOUS
<1>a. \A p \in Parties : p[1] \in Runs /\ p[2] \in Hosts
  BY PartyFacts
<1>b. todo # <<>> =>
        /\ Head(todo) \in Hosts /\ Tail(todo) \in Seq(Hosts)
        /\ Len(todo) # 1 => Tail(todo) # <<>>
  <2>1. SUFFICES ASSUME todo # <<>>
                 PROVE  /\ Head(todo) \in Hosts /\ Tail(todo) \in Seq(Hosts)
                        /\ Len(todo) # 1 => Tail(todo) # <<>>
    OBVIOUS
  <2>2. todo \in Seq(Hosts) /\ Len(todo) \in Nat
    BY <1>1, LenProperties DEF CallInv
  <2>3. /\ Head(todo) \in Hosts /\ Tail(todo) \in Seq(Hosts)
        /\ Len(Tail(todo)) = Len(todo) - 1
    BY <2>1, <2>2, HeadTailProperties
  <2>4. Tail(todo) = <<>> => Len(todo) = 1
    <3>1. SUFFICES ASSUME Tail(todo) = <<>> PROVE Len(todo) = 1
      OBVIOUS
    <3>2. Len(Tail(todo)) = Len(<<>>)
      BY <3>1, Zenon
    <3>3. Len(<<>>) = 0
      BY EmptySeq
    <3>4. Len(todo) - 1 = 0
      BY <2>3, <3>2, <3>3, Zenon
    <3>5. QED
      BY <2>2, <3>4
  <2>5. QED
    BY <2>3, <2>4
<1>c. <<>> \in Seq(Hosts) /\ \A h \in Hosts : <<h>> \in Seq(Hosts) /\ <<h>> # <<>>
  OBVIOUS
<1>d. NextTerminal /\ todo # <<>> =>
        /\ todo' \in Seq(Hosts)
        /\ fx' \in {"idle", "calling"} /\ (fx' = "calling" => todo' # <<>>)
  BY <1>b DEF NextTerminal
<1>. USE <1>c DEF CallInv, Goto, runVars, partyVars, scopeVars, cancelVars, uiVars
<1>2. CASE UNCHANGED vars
  BY <1>1, <1>2 DEF vars, runVars, partyVars, scopeVars, cancelVars, uiVars
<1>3. ASSUME NEW hosts \in SUBSET Hosts, StartRun(hosts) PROVE CallInv'
  <2>1. /\ started' \in Runs
        /\ UNCHANGED <<listening, interrupted, todo, target, victim, refused, terms, overall>>
    BY <1>1, <1>3, LaunchFacts DEF StartRun
  <2>2. started' # 0 /\ fx' = "starting"
    BY <1>3, <2>1, RunFacts DEF NoRun, StartRun
  <2>3. QED
    BY <1>1, <2>1, <2>2
<1>4. ASSUME NEW h \in Hosts, CancelOne(h) PROVE CallInv'
  BY <1>1, <1>4 DEF CancelOne, Click
<1>5. CASE CancelAll
  BY <1>1, <1>5 DEF CancelAll, Click
<1>6. CASE FinishStart
  <2>1. started \in Runs
    BY <1>1, <1>6, RunFacts DEF FinishStart, TypeInv
  <2>2. QED
    BY <1>1, <1>6, <2>1 DEF FinishStart
<1>7. CASE SkipTerminal
  BY <1>1, <1>d, <1>7 DEF SkipTerminal
<1>8. CASE CallCancel
  <2>1. fx = "calling" /\ Head(todo) \in Hosts /\ todo # <<>>
    BY <1>1, <1>b, <1>8 DEF CallCancel
  <2>2. UNCHANGED <<started, listening, interrupted, victim, terms, overall>>
    BY <1>8 DEF CallCancel
  <2>3. CASE refused' = refused \cup {Head(todo)} /\ NextTerminal /\ target' = NoRun
    BY <1>1, <1>d, <2>1, <2>2, <2>3
  <2>4. CASE CallThrows(Head(todo))
    BY <1>1, <2>1, <2>2, <2>4 DEF CallThrows
  <2>5. CASE fx' = "checked" /\ target' = current /\ UNCHANGED <<todo, refused>>
    BY <1>1, <2>1, <2>2, <2>5 DEF TypeInv
  <2>6. QED
    BY <1>8, <2>3, <2>4, <2>5 DEF CallCancel
<1>9. CASE ReadThread
  <2>. DEFINE p == <<target, Head(todo)>>
  <2>1. fx = "checked" /\ todo # <<>> /\ Head(todo) \in Hosts /\ p \in Parties
    BY <1>1, <1>b, <1>9 DEF ReadThread, WorkerInv
  <2>2. UNCHANGED <<started, listening, interrupted, terms, overall>>
    BY <1>9 DEF ReadThread
  <2>3. CASE victim' = worker[p] /\ fx' = "read" /\ UNCHANGED <<todo, target, refused>>
    BY <1>1, <2>1, <2>2, <2>3 DEF TypeInv
  <2>4. CASE CallThrows(Head(todo)) /\ victim' = victim
    BY <1>1, <2>1, <2>2, <2>4 DEF CallThrows
  <2>5. QED
    BY <1>9, <2>3, <2>4 DEF ReadThread
<1>10. CASE Interrupt
  BY <1>1, <1>d, <1>10 DEF Interrupt
<1>11. CASE HandleStart
  <2>1. queue # <<>> /\ Head(queue).type = "start"
    BY <1>11 DEF HandleStart, Receive
  <2>2. Head(queue).value \in SUBSET Hosts
    BY <1>1, <2>1, HeadTailProperties, EventFacts DEF TypeInv
  <2>3. terms' = terms \o NewTerms(Head(queue).value)
    BY <1>11 DEF HandleStart
  <2>4. NewTerms(Head(queue).value) \in Seq(Hosts)
    BY <2>2, NewTermsFacts
  <2>5. terms' \in Seq(Hosts)
    BY <1>1, <2>3, <2>4
  <2>6. QED
    BY <1>1, <1>11, <2>5 DEF HandleStart, Receive
<1>12. CASE HandleStatus
  BY <1>1, <1>12 DEF HandleStatus, Receive
<1>13. CASE HandleFinished
  BY <1>1, <1>13 DEF HandleFinished, Receive
<1>14. ASSUME NEW p \in Parties, SetThread(p) PROVE CallInv'
  BY <1>1, <1>14 DEF SetThread
<1>15. ASSUME NEW p \in Parties, TaskEnds(p) PROVE CallInv'
  BY <1>1, <1>15 DEF TaskEnds
<1>16. ASSUME NEW p \in Parties, NothingRan(p) PROVE CallInv'
  BY <1>1, <1>16 DEF NothingRan
<1>17. ASSUME NEW p \in Parties, CountParty(p) PROVE CallInv'
  BY <1>1, <1>17 DEF CountParty
<1>18. ASSUME NEW p \in Parties, Snapshot(p) PROVE CallInv'
  BY <1>1, <1>18 DEF Snapshot
<1>19. ASSUME NEW p \in Parties, SendStatus(p) PROVE CallInv'
  BY <1>1, <1>19 DEF SendStatus
<1>20. ASSUME NEW p \in Parties, FireArrival(p) PROVE CallInv'
  BY <1>1, <1>20 DEF FireArrival
<1>21. ASSUME NEW p \in Parties, SendFinished(p) PROVE CallInv'
  BY <1>1, <1>21 DEF SendFinished
<1>22. ASSUME NEW p \in Parties, FinishedLost(p) PROVE CallInv'
  BY <1>1, <1>22 DEF FinishedLost
<1>23. QED
  BY <1>1, <1>2, <1>3, <1>4, <1>5, <1>6, <1>7, <1>8, <1>9, <1>10, <1>11, <1>12, <1>13, <1>14,
     <1>15, <1>16, <1>17, <1>18, <1>19, <1>20, <1>21, <1>22
  DEF Next, UserStep, CallStep, Dispatch, ListenerStep, PhasesEnd

LEMMA MemberStep == TypeInv /\ MemberInv /\ [Next]_vars => MemberInv'
<1>1. SUFFICES ASSUME TypeInv, MemberInv, [Next]_vars PROVE MemberInv'
  OBVIOUS
<1>a. pc \in [Parties -> Steps]
  BY <1>1 DEF TypeInv
<1>. USE <1>a DEF MemberInv, Goto, runVars, partyVars
<1>2. CASE UNCHANGED vars
  BY <1>1, <1>2 DEF vars, runVars, partyVars, scopeVars, cancelVars, uiVars
<1>3. ASSUME NEW hosts \in SUBSET Hosts, StartRun(hosts) PROVE MemberInv'
  <2>1. Launch(hosts) /\ members \in [Runs -> SUBSET Hosts] /\ started' = started + 1
          /\ started \in Nat /\ started' \in Runs
    BY <1>1, <1>3, LaunchFacts DEF StartRun, TypeInv
  <2>2. members' = [members EXCEPT ![started'] = hosts]
    BY <1>1, <2>1, LaunchFacts
  <2>3. \A r \in Runs : members'[r] = IF r = started' THEN hosts ELSE members[r]
    BY <2>1, <2>2
  <2>4. \A p \in Parties :
          pc'[p] = IF p[1] = started' /\ p[2] \in hosts THEN "submitted" ELSE pc[p]
    BY <1>1, <2>1, LaunchFacts
  <2>5. \A r \in Runs : r <= started' <=> r <= started \/ r = started'
    BY <2>1, RunFacts
  <2>6. ~(started' <= started)
    BY <2>1
  <2>7. QED
    BY <1>1, <2>1, <2>3, <2>4, <2>5, <2>6, PartyFacts
<1>4. ASSUME NEW h \in Hosts, CancelOne(h) PROVE MemberInv'
  BY <1>1, <1>4 DEF CancelOne, Click
<1>5. CASE CancelAll
  BY <1>1, <1>5 DEF CancelAll, Click
<1>6. CASE FinishStart
  BY <1>1, <1>6 DEF FinishStart
<1>7. CASE SkipTerminal
  BY <1>1, <1>7 DEF SkipTerminal
<1>8. CASE CallCancel
  BY <1>1, <1>8 DEF CallCancel
<1>9. CASE ReadThread
  BY <1>1, <1>9 DEF ReadThread
<1>10. CASE Interrupt
  BY <1>1, <1>10 DEF Interrupt
<1>11. CASE HandleStart
  BY <1>1, <1>11 DEF HandleStart, Receive
<1>12. CASE HandleStatus
  BY <1>1, <1>12 DEF HandleStatus, Receive
<1>13. CASE HandleFinished
  BY <1>1, <1>13 DEF HandleFinished, Receive
<1>14. ASSUME NEW p \in Parties, SetThread(p) PROVE MemberInv'
  BY <1>1, <1>14 DEF SetThread
<1>15. ASSUME NEW p \in Parties, TaskEnds(p) PROVE MemberInv'
  BY <1>1, <1>15 DEF TaskEnds
<1>16. ASSUME NEW p \in Parties, NothingRan(p) PROVE MemberInv'
  BY <1>1, <1>16 DEF NothingRan
<1>17. ASSUME NEW p \in Parties, CountParty(p) PROVE MemberInv'
  BY <1>1, <1>17 DEF CountParty
<1>18. ASSUME NEW p \in Parties, Snapshot(p) PROVE MemberInv'
  BY <1>1, <1>18 DEF Snapshot
<1>19. ASSUME NEW p \in Parties, SendStatus(p) PROVE MemberInv'
  BY <1>1, <1>19 DEF SendStatus
<1>20. ASSUME NEW p \in Parties, FireArrival(p) PROVE MemberInv'
  BY <1>1, <1>20 DEF FireArrival
<1>21. ASSUME NEW p \in Parties, SendFinished(p) PROVE MemberInv'
  BY <1>1, <1>21 DEF SendFinished
<1>22. ASSUME NEW p \in Parties, FinishedLost(p) PROVE MemberInv'
  BY <1>1, <1>22 DEF FinishedLost
<1>23. QED
  BY <1>1, <1>2, <1>3, <1>4, <1>5, <1>6, <1>7, <1>8, <1>9, <1>10, <1>11, <1>12, <1>13, <1>14,
     <1>15, <1>16, <1>17, <1>18, <1>19, <1>20, <1>21, <1>22
  DEF Next, UserStep, CallStep, Dispatch, ListenerStep, PhasesEnd

\* A party that has ended works no more, and one of a run that goes on was there before.
LEMMA StableStep ==
    TypeInv /\ MemberInv /\ [Next]_vars =>
        /\ \A r \in Runs : r <= started => members'[r] = members[r]
        /\ \A r \in Runs : r <= started /\ NoneWorks(r) => NoneWorks(r)'
        /\ \A p \in Parties : p[1] <= started /\ ~Active(p) => ~Active(p)'
<1>1. SUFFICES ASSUME TypeInv, MemberInv, [Next]_vars
               PROVE  /\ \A r \in Runs : r <= started => members'[r] = members[r]
                      /\ \A r \in Runs : r <= started /\ NoneWorks(r) => NoneWorks(r)'
                      /\ \A p \in Parties : p[1] <= started /\ ~Active(p) => ~Active(p)'
  OBVIOUS
<1>. DEFINE Stable ==
        /\ \A r \in Runs : r <= started => members'[r] = members[r]
        /\ \A r \in Runs : r <= started /\ NoneWorks(r) => NoneWorks(r)'
        /\ \A p \in Parties : p[1] <= started /\ ~Active(p) => ~Active(p)'
<1>a. pc \in [Parties -> Steps]
  BY <1>1 DEF TypeInv
<1>. USE <1>a, PartyFacts DEF NoneWorks, Active, Working, Goto, runVars, partyVars
<1>2. CASE UNCHANGED vars
  BY <1>1, <1>2 DEF vars, runVars, partyVars, scopeVars, cancelVars, uiVars
<1>3. ASSUME NEW hosts \in SUBSET Hosts, StartRun(hosts) PROVE Stable
  <2>1. Launch(hosts) /\ members \in [Runs -> SUBSET Hosts] /\ started' = started + 1
          /\ started \in Nat /\ started' \in Runs
    BY <1>1, <1>3, LaunchFacts DEF StartRun, TypeInv
  <2>2. members' = [members EXCEPT ![started'] = hosts]
    BY <1>1, <2>1, LaunchFacts
  <2>3. \A p \in Parties :
          pc'[p] = IF p[1] = started' /\ p[2] \in hosts THEN "submitted" ELSE pc[p]
    BY <1>1, <2>1, LaunchFacts
  <2>4. \A r \in Runs : r <= started => r # started'
    BY <2>1, RunFacts
  <2>5. \A r \in Runs : r <= started => members'[r] = members[r]
    BY <2>1, <2>2, <2>4
  <2>6. \A p \in Parties : p[1] <= started => pc'[p] = pc[p]
    BY <2>3, <2>4
  <2>7. QED
    BY <2>5, <2>6
<1>4. ASSUME NEW h \in Hosts, CancelOne(h) PROVE Stable
  BY <1>1, <1>4 DEF CancelOne, Click
<1>5. CASE CancelAll
  BY <1>1, <1>5 DEF CancelAll, Click
<1>6. CASE FinishStart
  BY <1>1, <1>6 DEF FinishStart
<1>7. CASE SkipTerminal
  BY <1>1, <1>7 DEF SkipTerminal
<1>8. CASE CallCancel
  BY <1>1, <1>8 DEF CallCancel
<1>9. CASE ReadThread
  BY <1>1, <1>9 DEF ReadThread
<1>10. CASE Interrupt
  BY <1>1, <1>10 DEF Interrupt
<1>11. CASE HandleStart
  BY <1>1, <1>11 DEF HandleStart, Receive
<1>12. CASE HandleStatus
  BY <1>1, <1>12 DEF HandleStatus, Receive
<1>13. CASE HandleFinished
  BY <1>1, <1>13 DEF HandleFinished, Receive
<1>14. ASSUME NEW p \in Parties, SetThread(p) PROVE Stable
  BY <1>1, <1>14 DEF SetThread
<1>15. ASSUME NEW p \in Parties, TaskEnds(p) PROVE Stable
  BY <1>1, <1>15 DEF TaskEnds
<1>16. ASSUME NEW p \in Parties, NothingRan(p) PROVE Stable
  BY <1>1, <1>16 DEF NothingRan
<1>17. ASSUME NEW p \in Parties, CountParty(p) PROVE Stable
  BY <1>1, <1>17 DEF CountParty
<1>18. ASSUME NEW p \in Parties, Snapshot(p) PROVE Stable
  BY <1>1, <1>18 DEF Snapshot
<1>19. ASSUME NEW p \in Parties, SendStatus(p) PROVE Stable
  BY <1>1, <1>19 DEF SendStatus
<1>20. ASSUME NEW p \in Parties, FireArrival(p) PROVE Stable
  BY <1>1, <1>20 DEF FireArrival
<1>21. ASSUME NEW p \in Parties, SendFinished(p) PROVE Stable
  BY <1>1, <1>21 DEF SendFinished
<1>22. ASSUME NEW p \in Parties, FinishedLost(p) PROVE Stable
  BY <1>1, <1>22 DEF FinishedLost
<1>23. QED
  BY <1>1, <1>2, <1>3, <1>4, <1>5, <1>6, <1>7, <1>8, <1>9, <1>10, <1>11, <1>12, <1>13, <1>14,
     <1>15, <1>16, <1>17, <1>18, <1>19, <1>20, <1>21, <1>22
  DEF Next, UserStep, CallStep, Dispatch, ListenerStep, PhasesEnd

LEMMA WorkerStep == TypeInv /\ MemberInv /\ WorkerInv /\ [Next]_vars => WorkerInv'
<1>1. SUFFICES ASSUME TypeInv, MemberInv, WorkerInv, [Next]_vars PROVE WorkerInv'
  OBVIOUS
<1>a. pc \in [Parties -> Steps] /\ worker \in [Parties -> Workers \cup {NoWorker}]
  BY <1>1 DEF TypeInv
<1>. USE <1>a DEF WorkerInv, Active, Goto, runVars, partyVars, scopeVars, cancelVars, uiVars
<1>2. CASE UNCHANGED vars
  BY <1>1, <1>2 DEF vars, runVars, partyVars, scopeVars, cancelVars, uiVars
<1>3. ASSUME NEW hosts \in SUBSET Hosts, StartRun(hosts) PROVE WorkerInv'
  <2>1. Launch(hosts) /\ fx' = "starting"
    BY <1>3 DEF StartRun
  <2>2. Assign(started', hosts)
        /\ \A p \in Parties :
             pc'[p] = IF p[1] = started' /\ p[2] \in hosts THEN "submitted" ELSE pc[p]
    BY <1>1, <2>1, LaunchFacts
  <2>3. \A p \in Parties : Active(p)' => worker'[p] # NoWorker
    BY <1>1, <2>2, AssignFacts, WorkerFacts
  <2>4. \A p, q \in Parties : worker'[p] = worker'[q] /\ worker'[p] # NoWorker => p = q
    BY <1>1, <2>2, AssignFacts
  <2>5. QED
    BY <2>1, <2>3, <2>4
<1>4. ASSUME NEW h \in Hosts, CancelOne(h) PROVE WorkerInv'
  BY <1>1, <1>4 DEF CancelOne, Click
<1>5. CASE CancelAll
  BY <1>1, <1>5 DEF CancelAll, Click
<1>6. CASE FinishStart
  BY <1>1, <1>6 DEF FinishStart
<1>7. CASE SkipTerminal
  BY <1>1, <1>7 DEF SkipTerminal, NextTerminal
<1>8. CASE CallCancel
  <2>1. fx' # "read"
    BY <1>8 DEF CallCancel, NextTerminal, CallThrows
  <2>2. fx' = "checked" => <<target', Head(todo')>> \in Parties
    <3>1. SUFFICES ASSUME fx' = "checked" PROVE <<target', Head(todo')>> \in Parties
      OBVIOUS
    <3>2. CASE fx' \in {"idle", "calling"}
      BY <3>1, <3>2
    <3>3. CASE /\ current # NoRun /\ Head(todo) \in members[current]
               /\ target' = current /\ UNCHANGED todo
      BY <1>1, <3>3, PartyFacts DEF TypeInv
    <3>4. QED
      BY <1>8, <3>2, <3>3 DEF CallCancel, NextTerminal, CallThrows
  <2>3. QED
    BY <1>1, <1>8, <2>1, <2>2 DEF CallCancel
<1>9. CASE ReadThread
  <2>. DEFINE q == <<target, Head(todo)>>
  <2>1. CASE HasThread(q) /\ victim' = worker[q] /\ UNCHANGED <<todo, target>>
    <3>1. q \in Parties /\ worker[q] # NoWorker
      BY <1>1, <1>9, <2>1 DEF ReadThread, HasThread
    <3>2. \A p \in Parties : worker[p] = worker[q] => p = q
      BY <1>1, <3>1
    <3>3. QED
      BY <1>1, <1>9, <2>1, <3>1, <3>2 DEF ReadThread
  <2>2. CASE fx' = "idle"
    BY <1>1, <1>9, <2>2 DEF ReadThread
  <2>3. QED
    BY <1>9, <2>1, <2>2 DEF ReadThread, CallThrows
<1>10. CASE Interrupt
  <2>1. fx' # "read" /\ fx' # "checked"
    BY <1>10 DEF Interrupt, NextTerminal
  <2>2. QED
    BY <1>1, <1>10, <2>1 DEF Interrupt
<1>11. CASE HandleStart
  BY <1>1, <1>11 DEF HandleStart, Receive
<1>12. CASE HandleStatus
  BY <1>1, <1>12 DEF HandleStatus, Receive
<1>13. CASE HandleFinished
  BY <1>1, <1>13 DEF HandleFinished, Receive
<1>14. ASSUME NEW p \in Parties, SetThread(p) PROVE WorkerInv'
  BY <1>1, <1>14 DEF SetThread
<1>15. ASSUME NEW p \in Parties, TaskEnds(p) PROVE WorkerInv'
  BY <1>1, <1>15 DEF TaskEnds
<1>16. ASSUME NEW p \in Parties, NothingRan(p) PROVE WorkerInv'
  BY <1>1, <1>16 DEF NothingRan
<1>17. ASSUME NEW p \in Parties, CountParty(p) PROVE WorkerInv'
  BY <1>1, <1>17 DEF CountParty
<1>18. ASSUME NEW p \in Parties, Snapshot(p) PROVE WorkerInv'
  BY <1>1, <1>18 DEF Snapshot
<1>19. ASSUME NEW p \in Parties, SendStatus(p) PROVE WorkerInv'
  BY <1>1, <1>19 DEF SendStatus
<1>20. ASSUME NEW p \in Parties, FireArrival(p) PROVE WorkerInv'
  BY <1>1, <1>20 DEF FireArrival
<1>21. ASSUME NEW p \in Parties, SendFinished(p) PROVE WorkerInv'
  <2>1. \A q \in Parties : worker'[q] = IF q = p THEN NoWorker ELSE worker[q]
    BY <1>1, <1>21 DEF SendFinished
  <2>2. \A q \in Parties : pc'[q] = IF q = p THEN "done" ELSE pc[q]
    BY <1>1, <1>21 DEF SendFinished
  <2>3. QED
    BY <1>1, <1>21, <2>1, <2>2 DEF SendFinished
<1>22. ASSUME NEW p \in Parties, FinishedLost(p) PROVE WorkerInv'
  <2>1. \A q \in Parties : worker'[q] = IF q = p THEN NoWorker ELSE worker[q]
    BY <1>1, <1>22 DEF FinishedLost
  <2>2. \A q \in Parties : pc'[q] = IF q = p THEN "done" ELSE pc[q]
    BY <1>1, <1>22 DEF FinishedLost
  <2>3. QED
    BY <1>1, <1>22, <2>1, <2>2 DEF FinishedLost
<1>23. QED
  BY <1>1, <1>2, <1>3, <1>4, <1>5, <1>6, <1>7, <1>8, <1>9, <1>10, <1>11, <1>12, <1>13, <1>14,
     <1>15, <1>16, <1>17, <1>18, <1>19, <1>20, <1>21, <1>22
  DEF Next, UserStep, CallStep, Dispatch, ListenerStep, PhasesEnd

\* The set a counter counts is full only if all parties are there.
LEMMA FullFacts ==
    ASSUME TypeInv, MemberInv, NEW r \in Runs, NEW S \in SUBSET members[r],
           Cardinality(S) = Size(r), \A h \in S : pc[<<r, h>>] \notin Working
    PROVE  NoneWorks(r)
<1>1. IsFiniteSet(members[r])
  BY FS_Subset, TerminalsAssumption DEF TypeInv, TerminalsAssumption
<1>2. S = members[r]
  BY <1>1, FS_Subset DEF Size
<1>3. \A h \in Hosts : h \notin members[r] => pc[<<r, h>>] = "new"
  BY PartyFacts DEF MemberInv
<1>4. QED
  BY <1>2, <1>3 DEF NoneWorks, Working

LEMMA AllCounted ==
    ASSUME TypeInv, MemberInv, CountInv, NEW r \in Runs
    PROVE  /\ arrived[r] = Size(r) => NoneWorks(r)
           /\ arrivedCount[r] = Size(r) => NoneWorks(r)
<1>1. CountedIn(r) \in SUBSET members[r] /\ FiredIn(r) \in SUBSET members[r]
  BY DEF CountedIn, FiredIn
<1>2. \A h \in CountedIn(r) : pc[<<r, h>>] \notin Working
  BY DEF CountedIn, Counted, Fired, Working
<1>3. \A h \in FiredIn(r) : pc[<<r, h>>] \notin Working
  BY DEF FiredIn, Fired, Working
<1>4. arrived[r] = Size(r) => NoneWorks(r)
  BY <1>1, <1>2, FullFacts DEF CountInv
<1>5. arrivedCount[r] = Size(r) => NoneWorks(r)
  BY <1>1, <1>3, FullFacts DEF CountInv
<1>6. QED
  BY <1>4, <1>5

\* A party that comes to be counted was not counted before.
LEMMA OneMore ==
    ASSUME TypeInv, MemberInv, NEW p \in Parties, pc[p] # "new", NEW S \in SUBSET members[p[1]],
           p[2] \notin S
    PROVE  Cardinality(S \cup {p[2]}) = Cardinality(S) + 1
<1>1. IsFiniteSet(members[p[1]])
  BY FS_Subset, TerminalsAssumption, PartyFacts DEF TypeInv, TerminalsAssumption
<1>2. IsFiniteSet(S)
  BY <1>1, FS_Subset
<1>3. QED
  BY <1>2, FS_AddElement

LEMMA CountStep == TypeInv /\ MemberInv /\ CountInv /\ [Next]_vars => CountInv'
<1>1. SUFFICES ASSUME TypeInv, MemberInv, CountInv, [Next]_vars PROVE CountInv'
  OBVIOUS
<1>a. /\ pc \in [Parties -> Steps]
      /\ arrived \in [Runs -> Nat] /\ arrivedCount \in [Runs -> Nat]
      /\ members \in [Runs -> SUBSET Hosts]
  BY <1>1 DEF TypeInv
<1>. DEFINE SetsStay == \A r \in Runs : CountedIn(r)' = CountedIn(r) /\ FiredIn(r)' = FiredIn(r)
            Moved(p, to) == \A q \in Parties : pc'[q] = IF q = p THEN to ELSE pc[q]
<1>b. ASSUME SetsStay, UNCHANGED <<arrived, arrivedCount>> PROVE CountInv'
  BY <1>1, <1>b DEF CountInv
<1>c. ASSUME NEW p \in Parties, NEW to, Moved(p, to), members' = members,
             pc[p] \in Counted <=> to \in Counted, pc[p] \in Fired <=> to \in Fired
      PROVE  SetsStay
  BY <1>a, <1>c, PartyFacts DEF CountedIn, FiredIn
<1>d. ASSUME UNCHANGED <<members, pc, arrived, arrivedCount>> PROVE CountInv'
  BY <1>1, <1>d DEF CountInv, CountedIn, FiredIn
<1>. USE <1>a DEF Goto, runVars, partyVars, scopeVars, cancelVars, uiVars
<1>2. CASE UNCHANGED vars
  BY <1>d, <1>2 DEF vars, runVars, partyVars, scopeVars, cancelVars, uiVars
<1>3. ASSUME NEW hosts \in SUBSET Hosts, StartRun(hosts) PROVE CountInv'
  <2>1. Launch(hosts)
    BY <1>3 DEF StartRun
  <2>2. /\ started' \in Runs /\ started' = started + 1 /\ started \in Nat
        /\ members' = [members EXCEPT ![started'] = hosts]
        /\ \A q \in Parties :
             pc'[q] = IF q[1] = started' /\ q[2] \in hosts THEN "submitted" ELSE pc[q]
        /\ UNCHANGED <<arrived, arrivedCount>>
    BY <1>1, <2>1, LaunchFacts
  <2>3. \A h \in Hosts : pc[<<started', h>>] = "new"
    BY <1>1, <2>2, PartyFacts DEF MemberInv
  <2>4. {"new", "submitted"} \cap Counted = {} /\ {"new", "submitted"} \cap Fired = {}
    BY DEF Counted, Fired
  <2>5. CountedIn(started') = {} /\ FiredIn(started') = {}
    BY <2>2, <2>3, <2>4 DEF CountedIn, FiredIn
  <2>6. \A h \in Hosts : pc'[<<started', h>>] \in {"new", "submitted"}
    BY <2>2, <2>3, PartyFacts
  <2>7. {h \in members'[started'] : pc'[<<started', h>>] \in Counted} = {}
        /\ {h \in members'[started'] : pc'[<<started', h>>] \in Fired} = {}
    BY <2>2, <2>4, <2>6
  <2>8. SetsStay
    <3>1. SUFFICES ASSUME NEW r \in Runs
                   PROVE  CountedIn(r)' = CountedIn(r) /\ FiredIn(r)' = FiredIn(r)
      OBVIOUS
    <3>2. CASE r = started'
      BY <2>5, <2>7, <3>2 DEF CountedIn, FiredIn
    <3>3. CASE r # started'
      <4>1. members'[r] = members[r] /\ \A h \in Hosts : pc'[<<r, h>>] = pc[<<r, h>>]
        BY <2>2, <3>3, PartyFacts
      <4>2. QED
        BY <4>1 DEF CountedIn, FiredIn
    <3>4. QED
      BY <3>2, <3>3
  <2>9. QED
    BY <1>b, <2>2, <2>8
<1>4. ASSUME NEW h \in Hosts, CancelOne(h) PROVE CountInv'
  BY <1>d, <1>4 DEF CancelOne, Click
<1>5. CASE CancelAll
  BY <1>d, <1>5 DEF CancelAll, Click
<1>6. CASE FinishStart
  BY <1>d, <1>6 DEF FinishStart
<1>7. CASE SkipTerminal
  BY <1>d, <1>7 DEF SkipTerminal
<1>8. CASE CallCancel
  BY <1>d, <1>8 DEF CallCancel
<1>9. CASE ReadThread
  BY <1>d, <1>9 DEF ReadThread
<1>10. CASE Interrupt
  BY <1>d, <1>10 DEF Interrupt
<1>11. CASE HandleStart
  BY <1>d, <1>11 DEF HandleStart, Receive
<1>12. CASE HandleStatus
  BY <1>d, <1>12 DEF HandleStatus, Receive
<1>13. CASE HandleFinished
  BY <1>d, <1>13 DEF HandleFinished, Receive
<1>14. ASSUME NEW p \in Parties, SetThread(p) PROVE CountInv'
  <2>1. Moved(p, "running") /\ pc[p] = "submitted"
    BY <1>14 DEF SetThread
  <2>2. SetsStay
    BY <1>c, <1>14, <2>1 DEF Counted, Fired, SetThread
  <2>3. QED
    BY <1>b, <1>14, <2>2 DEF SetThread
<1>15. ASSUME NEW p \in Parties, TaskEnds(p) PROVE CountInv'
  <2>1. Moved(p, "ended") /\ pc[p] = "running"
    BY <1>15 DEF TaskEnds
  <2>2. SetsStay
    BY <1>c, <1>15, <2>1 DEF Counted, Fired, TaskEnds
  <2>3. QED
    BY <1>b, <1>15, <2>2 DEF TaskEnds
<1>16. ASSUME NEW p \in Parties, NothingRan(p) PROVE CountInv'
  <2>1. Moved(p, "ended") /\ pc[p] = "running"
    BY <1>16 DEF NothingRan
  <2>2. SetsStay
    BY <1>c, <1>16, <2>1 DEF Counted, Fired, NothingRan
  <2>3. QED
    BY <1>b, <1>16, <2>2 DEF NothingRan
<1>17. ASSUME NEW p \in Parties, CountParty(p) PROVE CountInv'
  <2>1. Moved(p, "counted") /\ pc[p] = "ended" /\ members' = members
    BY <1>17 DEF CountParty
  <2>2. CountedIn(p[1])' = CountedIn(p[1]) \cup {p[2]} /\ p[2] \notin CountedIn(p[1])
    <3>1. p[2] \in members[p[1]] /\ p = <<p[1], p[2]>>
      BY <1>1, <2>1, PartyFacts DEF MemberInv
    <3>2. \A h \in members[p[1]] : pc'[<<p[1], h>>] = IF h = p[2] THEN "counted" ELSE pc[<<p[1], h>>]
      BY <2>1, <3>1, PartyFacts
    <3>3. QED
      BY <2>1, <3>1, <3>2 DEF CountedIn, Counted, Fired
  <2>3. \A r \in Runs : r # p[1] => CountedIn(r)' = CountedIn(r)
    BY <2>1, PartyFacts DEF CountedIn
  <2>4. \A r \in Runs : FiredIn(r)' = FiredIn(r)
    BY <2>1, PartyFacts DEF FiredIn, Fired
  <2>5. Cardinality(CountedIn(p[1])') = Cardinality(CountedIn(p[1])) + 1
    <3>1. CountedIn(p[1]) \in SUBSET members[p[1]]
      BY DEF CountedIn
    <3>2. QED
      BY <1>1, <2>1, <2>2, <3>1, OneMore
  <2>6. /\ \A r \in Runs : arrived'[r] = IF r = p[1] THEN arrived[r] + 1 ELSE arrived[r]
        /\ arrivedCount' = arrivedCount
    BY <1>17 DEF CountParty
  <2>7. QED
    BY <1>1, <2>3, <2>4, <2>5, <2>6, PartyFacts DEF CountInv
<1>18. ASSUME NEW p \in Parties, Snapshot(p) PROVE CountInv'
  <2>1. Moved(p, "snapped") /\ pc[p] = "counted"
    BY <1>18 DEF Snapshot
  <2>2. SetsStay
    BY <1>c, <1>18, <2>1 DEF Counted, Fired, Snapshot
  <2>3. QED
    BY <1>b, <1>18, <2>2 DEF Snapshot
<1>19. ASSUME NEW p \in Parties, SendStatus(p) PROVE CountInv'
  <2>1. Moved(p, "firing") /\ pc[p] = "snapped" /\ members' = members
    BY <1>19 DEF SendStatus
  <2>2. FiredIn(p[1])' = FiredIn(p[1]) \cup {p[2]} /\ p[2] \notin FiredIn(p[1])
    <3>1. p[2] \in members[p[1]] /\ p = <<p[1], p[2]>>
      BY <1>1, <2>1, PartyFacts DEF MemberInv
    <3>2. \A h \in members[p[1]] : pc'[<<p[1], h>>] = IF h = p[2] THEN "firing" ELSE pc[<<p[1], h>>]
      BY <2>1, <3>1, PartyFacts
    <3>3. QED
      BY <2>1, <3>1, <3>2 DEF FiredIn, Fired
  <2>3. \A r \in Runs : r # p[1] => FiredIn(r)' = FiredIn(r)
    BY <2>1, PartyFacts DEF FiredIn
  <2>4. \A r \in Runs : CountedIn(r)' = CountedIn(r)
    BY <2>1, PartyFacts DEF CountedIn, Counted, Fired
  <2>5. Cardinality(FiredIn(p[1])') = Cardinality(FiredIn(p[1])) + 1
    <3>1. FiredIn(p[1]) \in SUBSET members[p[1]]
      BY DEF FiredIn
    <3>2. QED
      BY <1>1, <2>1, <2>2, <3>1, OneMore
  <2>6. /\ \A r \in Runs : arrivedCount'[r] = IF r = p[1] THEN arrivedCount[r] + 1 ELSE arrivedCount[r]
        /\ arrived' = arrived
    BY <1>19 DEF SendStatus
  <2>7. QED
    BY <1>1, <2>3, <2>4, <2>5, <2>6, PartyFacts DEF CountInv
<1>20. ASSUME NEW p \in Parties, FireArrival(p) PROVE CountInv'
  <2>1. Moved(p, "announcing") /\ pc[p] = "firing"
    BY <1>20 DEF FireArrival
  <2>2. SetsStay
    BY <1>c, <1>20, <2>1 DEF Counted, Fired, FireArrival
  <2>3. QED
    BY <1>b, <1>20, <2>2 DEF FireArrival
<1>21. ASSUME NEW p \in Parties, SendFinished(p) PROVE CountInv'
  <2>1. Moved(p, "done") /\ pc[p] = "announcing"
    BY <1>21 DEF SendFinished
  <2>2. SetsStay
    BY <1>c, <1>21, <2>1 DEF Counted, Fired, SendFinished
  <2>3. QED
    BY <1>b, <1>21, <2>2 DEF SendFinished
<1>22. ASSUME NEW p \in Parties, FinishedLost(p) PROVE CountInv'
  <2>1. Moved(p, "done") /\ pc[p] = "announcing"
    BY <1>22 DEF FinishedLost
  <2>2. SetsStay
    BY <1>c, <1>22, <2>1 DEF Counted, Fired, FinishedLost
  <2>3. QED
    BY <1>b, <1>22, <2>2 DEF FinishedLost
<1>23. QED
  BY <1>1, <1>2, <1>3, <1>4, <1>5, <1>6, <1>7, <1>8, <1>9, <1>10, <1>11, <1>12, <1>13, <1>14,
     <1>15, <1>16, <1>17, <1>18, <1>19, <1>20, <1>21, <1>22
  DEF Next, UserStep, CallStep, Dispatch, ListenerStep, PhasesEnd

LEMMA AloneStep == TypeInv /\ MemberInv /\ AloneInv /\ [Next]_vars => AloneInv'
<1>1. SUFFICES ASSUME TypeInv, MemberInv, AloneInv, [Next]_vars PROVE AloneInv'
  OBVIOUS
<1>2. \A p \in Parties : p[1] <= started /\ ~Active(p) => ~Active(p)'
  BY <1>1, StableStep
<1>a. \A r \in Runs, p \in Parties : r <= started /\ p[1] < r => p[1] <= started
  BY <1>1, PartyFacts, RunFacts DEF TypeInv
<1>3. ASSUME UNCHANGED <<started, overlapped>> PROVE AloneInv'
  BY <1>1, <1>2, <1>3, <1>a DEF AloneInv
<1>4. ASSUME NEW hosts \in SUBSET Hosts, StartRun(hosts) PROVE AloneInv'
  <2>1. Launch(hosts)
    BY <1>4 DEF StartRun
  <2>2. /\ started \in Nat /\ started' = started + 1 /\ overlapped \subseteq overlapped'
        /\ started' \notin overlapped' => \A p \in Parties : ~Active(p)
    BY <1>1, <2>1, LaunchFacts
  <2>3. SUFFICES ASSUME NEW r \in Runs, r \notin overlapped', r <= started',
                        NEW p \in Parties, p[1] < r
                 PROVE  ~Active(p)'
    BY DEF AloneInv
  <2>4. p[1] <= started
    BY <2>2, <2>3, PartyFacts, RunFacts
  <2>5. ~Active(p)
    <3>1. CASE r = started'
      BY <2>2, <2>3, <3>1
    <3>2. CASE r # started'
      <4>1. r <= started
        BY <2>2, <2>3, <3>2, RunFacts
      <4>2. QED
        BY <1>1, <2>2, <2>3, <4>1 DEF AloneInv
    <3>3. QED
      BY <3>1, <3>2
  <2>6. QED
    BY <1>2, <2>4, <2>5
<1>5. (\E hosts \in SUBSET Hosts : StartRun(hosts)) \/ UNCHANGED <<started, overlapped>>
  BY <1>1 DEF Next, UserStep, CallStep, Dispatch, ListenerStep, PhasesEnd, CancelOne, CancelAll, Click,
     FinishStart, SkipTerminal, CallCancel, ReadThread, Interrupt, HandleStart, HandleStatus,
     HandleFinished, Receive, SetThread, TaskEnds, CountParty, Snapshot, SendStatus, FireArrival, SendFinished,
     NothingRan, FinishedLost, runVars, vars
<1>6. QED
  BY <1>3, <1>4, <1>5

\* A party's event goes to the end of the queue.
LEMMA QueueGrows ==
    ASSUME TypeInv, MemberInv, AloneInv, QueueInv, NEW p \in Parties, Active(p), NEW e \in Events,
           e.type # "start", e.run = p[1], queue' = Append(queue, e),
           UNCHANGED <<started, uiRun, overlapped>>
    PROVE  QueueInv'
<1>. DEFINE n == Len(queue)
<1>1. /\ n \in Nat /\ Len(queue') = n + 1 /\ queue'[n + 1] = e
      /\ \A i \in 1 .. n : queue'[i] = queue[i]
  BY SendFacts DEF TypeInv
<1>2. \A i \in 1 .. n : queue[i] \in Events /\ queue[i].run \in Nat
  <2>1. \A i \in 1 .. n : queue[i] \in Events
    BY DEF TypeInv
  <2>2. QED
    BY <2>1, EventFacts, RunFacts
<1>3. p[1] \in Runs /\ p[1] \in Nat /\ p[1] <= started
  BY PartyFacts, RunFacts DEF MemberInv, Active
<1>4. started \in Nat /\ uiRun \in Nat /\ started <= MaxRuns /\ uiRun <= started
  BY RunFacts DEF TypeInv
<1>5. \A r \in Runs : r <= started /\ r \notin overlapped => r <= p[1]
  BY <1>3, RunFacts DEF AloneInv
<1>6. \A i \in 1 .. n + 1 : i \in 1 .. n \/ i = n + 1
  BY <1>1
<1>7. \A i \in 1 .. Len(queue') : queue'[i].run <= started'
  BY <1>1, <1>3, <1>6 DEF QueueInv
<1>8. \A i, j \in 1 .. Len(queue') :
        i < j /\ queue'[j].type = "start" => queue'[i].run < queue'[j].run
  BY <1>1, <1>6 DEF QueueInv
<1>9. \A i \in 1 .. Len(queue') : queue'[i].type = "start" => uiRun' < queue'[i].run
  BY <1>1, <1>6 DEF QueueInv
<1>10. \A i, j \in 1 .. Len(queue') :
         i < j /\ queue'[i].type = "start" /\ queue'[i].run \notin overlapped'
            => queue'[i].run <= queue'[j].run
  <2>1. SUFFICES ASSUME NEW i \in 1 .. n + 1, NEW j \in 1 .. n + 1, i < j,
                        queue'[i].type = "start", queue'[i].run \notin overlapped
                 PROVE  queue'[i].run <= queue'[j].run
    BY <1>1
  <2>2. i \in 1 .. n
    BY <1>1, <2>1
  <2>3. CASE j \in 1 .. n
    BY <1>1, <2>1, <2>2, <2>3 DEF QueueInv
  <2>4. CASE j = n + 1
    <3>1. queue[i].run \in Runs /\ queue[i].run <= started
      BY <1>2, <2>2, EventFacts DEF QueueInv
    <3>2. queue[i].run <= p[1]
      BY <1>1, <1>5, <2>1, <2>2, <3>1
    <3>3. QED
      BY <1>1, <2>2, <2>4, <3>2
  <2>5. QED
    BY <1>6, <2>3, <2>4
<1>11. uiRun' \notin overlapped' => \A i \in 1 .. Len(queue') : uiRun' <= queue'[i].run
  <2>1. SUFFICES ASSUME uiRun \notin overlapped, NEW i \in 1 .. n + 1
                 PROVE  uiRun <= queue'[i].run
    BY <1>1
  <2>2. CASE i \in 1 .. n
    BY <1>1, <2>1, <2>2 DEF QueueInv
  <2>3. CASE i = n + 1
    <3>1. uiRun = 0 \/ uiRun \in Runs
      BY <1>4, RunFacts
    <3>2. uiRun <= p[1]
      BY <1>3, <1>4, <1>5, <2>1, <3>1
    <3>3. QED
      BY <1>1, <2>3, <3>2
  <2>4. QED
    BY <1>6, <2>2, <2>3
<1>12. \A r \in 1 .. started' : r <= uiRun' \/ \E j \in 1 .. Len(queue') : StartOf(j, r)'
  BY <1>1 DEF QueueInv, StartOf
<1>13. \A i \in 1 .. Len(queue') :
         queue'[i].run <= uiRun' \/ \E j \in 1 .. i : StartOf(j, queue[i].run)'
  <2>1. SUFFICES ASSUME NEW i \in 1 .. n + 1
                 PROVE  queue'[i].run <= uiRun
                          \/ \E j \in 1 .. i : queue'[j].type = "start" /\ queue'[j].run = queue'[i].run
    BY <1>1 DEF StartOf
  <2>2. CASE i \in 1 .. n
    <3>1. queue[i].run <= uiRun
            \/ \E j \in 1 .. i : queue[j].type = "start" /\ queue[j].run = queue[i].run
      BY <2>2 DEF QueueInv, StartOf
    <3>2. \A j \in 1 .. i : j \in 1 .. n
      BY <1>1, <2>2
    <3>3. QED
      BY <1>1, <2>2, <3>1, <3>2
  <2>3. CASE i = n + 1
    <3>1. p[1] \in 1 .. started
      BY <1>3, <1>4, RunFacts
    <3>2. p[1] <= uiRun \/ \E j \in 1 .. n : queue[j].type = "start" /\ queue[j].run = p[1]
      BY <3>1 DEF QueueInv, StartOf
    <3>3. \A j \in 1 .. n : j \in 1 .. i
      BY <1>1, <2>3
    <3>4. QED
      BY <1>1, <2>3, <3>2, <3>3
  <2>4. QED
    BY <1>6, <2>2, <2>3
<1>14. QED
  BY <1>7, <1>8, <1>9, <1>10, <1>11, <1>12, <1>13 DEF QueueInv

\* A run begins: its start goes to the end of the queue.
LEMMA QueueOnStart ==
    ASSUME TypeInv, QueueInv, NEW hosts \in SUBSET Hosts, Launch(hosts)
    PROVE  QueueInv'
<1>. DEFINE n == Len(queue)
            e == [type |-> "start", run |-> started', value |-> hosts]
<1>1. /\ started \in Nat /\ started' = started + 1 /\ started' \in Runs
      /\ e \in Events /\ queue' = Append(queue, e)
      /\ overlapped \subseteq overlapped' /\ uiRun' = uiRun
  BY LaunchFacts
<1>2. /\ n \in Nat /\ Len(queue') = n + 1 /\ queue'[n + 1] = e
      /\ \A i \in 1 .. n : queue'[i] = queue[i]
  BY <1>1, SendFacts DEF TypeInv
<1>3. \A i \in 1 .. n : queue[i].run \in Nat /\ queue[i].run <= started
  <2>1. \A i \in 1 .. n : queue[i] \in Events
    BY DEF TypeInv
  <2>2. QED
    BY <2>1, EventFacts, RunFacts DEF QueueInv
<1>4. uiRun \in Nat /\ uiRun <= started
  BY <1>1 DEF TypeInv
<1>5. e.type = "start" /\ e.run = started + 1
  BY <1>1
<1>6. \A i \in 1 .. n + 1 : i \in 1 .. n \/ i = n + 1
  BY <1>2
<1>. HIDE DEF e
<1>7. \A i \in 1 .. Len(queue') : queue'[i].run <= started'
  BY <1>1, <1>2, <1>3, <1>5, <1>6
<1>8. \A i, j \in 1 .. Len(queue') :
        i < j /\ queue'[j].type = "start" => queue'[i].run < queue'[j].run
  <2>1. SUFFICES ASSUME NEW i \in 1 .. n + 1, NEW j \in 1 .. n + 1, i < j,
                        queue'[j].type = "start"
                 PROVE  queue'[i].run < queue'[j].run
    BY <1>2
  <2>2. i \in 1 .. n
    BY <1>2, <2>1
  <2>3. CASE j \in 1 .. n
    BY <1>2, <2>1, <2>2, <2>3 DEF QueueInv
  <2>4. CASE j = n + 1
    BY <1>1, <1>2, <1>3, <1>5, <2>2, <2>4
  <2>5. QED
    BY <1>6, <2>3, <2>4
<1>9. \A i \in 1 .. Len(queue') : queue'[i].type = "start" => uiRun' < queue'[i].run
  <2>1. \A i \in 1 .. n : queue[i].type = "start" => uiRun < queue[i].run
    BY DEF QueueInv
  <2>2. QED
    BY <1>1, <1>2, <1>4, <1>5, <1>6, <2>1
<1>10. \A i, j \in 1 .. Len(queue') :
         i < j /\ queue'[i].type = "start" /\ queue'[i].run \notin overlapped'
            => queue'[i].run <= queue'[j].run
  <2>1. SUFFICES ASSUME NEW i \in 1 .. n + 1, NEW j \in 1 .. n + 1, i < j,
                        queue'[i].type = "start", queue'[i].run \notin overlapped'
                 PROVE  queue'[i].run <= queue'[j].run
    BY <1>2
  <2>2. i \in 1 .. n
    BY <1>2, <2>1
  <2>3. CASE j \in 1 .. n
    BY <1>1, <1>2, <2>1, <2>2, <2>3 DEF QueueInv
  <2>4. CASE j = n + 1
    BY <1>1, <1>2, <1>3, <1>5, <2>2, <2>4
  <2>5. QED
    BY <1>6, <2>3, <2>4
<1>11. uiRun' \notin overlapped' => \A i \in 1 .. Len(queue') : uiRun' <= queue'[i].run
  <2>1. uiRun \notin overlapped => \A i \in 1 .. n : uiRun <= queue[i].run
    BY DEF QueueInv
  <2>2. QED
    BY <1>1, <1>2, <1>4, <1>5, <1>6, <2>1
<1>12. \A r \in 1 .. started' : r <= uiRun' \/ \E j \in 1 .. Len(queue') : StartOf(j, r)'
  <2>1. SUFFICES ASSUME NEW r \in 1 .. started + 1
                 PROVE  r <= uiRun
                          \/ \E j \in 1 .. n + 1 : queue'[j].type = "start" /\ queue'[j].run = r
    BY <1>1, <1>2 DEF StartOf
  <2>2. CASE r = started + 1
    BY <1>1, <1>2, <1>5, <2>2
  <2>3. CASE r # started + 1
    <3>1. r \in 1 .. started
      BY <1>1, <2>3
    <3>2. r <= uiRun \/ \E j \in 1 .. n : queue[j].type = "start" /\ queue[j].run = r
      BY <3>1 DEF QueueInv, StartOf
    <3>3. \A j \in 1 .. n : j \in 1 .. n + 1
      BY <1>2
    <3>4. QED
      BY <1>2, <3>2, <3>3
  <2>4. QED
    BY <2>2, <2>3
<1>13. \A i \in 1 .. Len(queue') :
         queue'[i].run <= uiRun' \/ \E j \in 1 .. i : StartOf(j, queue[i].run)'
  <2>1. SUFFICES ASSUME NEW i \in 1 .. n + 1
                 PROVE  queue'[i].run <= uiRun
                          \/ \E j \in 1 .. i : queue'[j].type = "start" /\ queue'[j].run = queue'[i].run
    BY <1>1, <1>2 DEF StartOf
  <2>2. CASE i \in 1 .. n
    <3>1. queue[i].run <= uiRun
            \/ \E j \in 1 .. i : queue[j].type = "start" /\ queue[j].run = queue[i].run
      BY <2>2 DEF QueueInv, StartOf
    <3>2. \A j \in 1 .. i : j \in 1 .. n
      BY <1>2, <2>2
    <3>3. QED
      BY <1>2, <2>2, <3>1, <3>2
  <2>3. CASE i = n + 1
    BY <1>2, <1>5, <2>3
  <2>4. QED
    BY <1>6, <2>2, <2>3
<1>14. QED
  BY <1>7, <1>8, <1>9, <1>10, <1>11, <1>12, <1>13 DEF QueueInv

\* The UI takes the event at the head: the last run whose start it handled is
\* that of the event, if the event is a start.
LEMMA QueueShrinks ==
    ASSUME TypeInv, QueueInv, queue # <<>>, queue' = Tail(queue), UNCHANGED <<started, overlapped>>,
           uiRun' = IF queue[1].type = "start" THEN queue[1].run ELSE uiRun
    PROVE  QueueInv'
<1>. DEFINE n == Len(queue')
<1>1. /\ Len(queue) = n + 1 /\ n \in Nat /\ 1 \in 1 .. Len(queue)
      /\ \A i \in 1 .. n : queue'[i] = queue[i + 1] /\ i + 1 \in 1 .. Len(queue)
  BY ReceiveFacts
<1>2. \A i \in 1 .. Len(queue) : queue[i].run \in Nat
  <2>1. \A i \in 1 .. Len(queue) : queue[i] \in Events
    BY DEF TypeInv
  <2>2. QED
    BY <2>1, EventFacts, RunFacts
<1>3. uiRun \in Nat /\ uiRun' \in Nat /\ started \in Nat
  BY <1>1, <1>2, RunFacts DEF TypeInv
<1>4. uiRun <= uiRun'
  BY <1>1, <1>2, <1>3 DEF QueueInv
<1>5. \A i \in 1 .. n : queue'[i].run <= started'
  BY <1>1 DEF QueueInv
<1>6. \A i, j \in 1 .. n : i < j => i + 1 < j + 1
  BY <1>1
<1>7. \A i, j \in 1 .. n : i < j /\ queue'[j].type = "start" => queue'[i].run < queue'[j].run
  BY <1>1, <1>6 DEF QueueInv
<1>8. \A i \in 1 .. n : 1 < i + 1
  BY <1>1
<1>9. \A i \in 1 .. n : queue'[i].type = "start" => uiRun' < queue'[i].run
  BY <1>1, <1>8 DEF QueueInv
<1>10. \A i, j \in 1 .. n :
         i < j /\ queue'[i].type = "start" /\ queue'[i].run \notin overlapped'
            => queue'[i].run <= queue'[j].run
  BY <1>1, <1>6 DEF QueueInv
<1>11. uiRun' \notin overlapped' => \A i \in 1 .. n : uiRun' <= queue'[i].run
  BY <1>1, <1>8 DEF QueueInv
<1>12. \A j \in 1 .. n + 1 : j = 1 \/ (j - 1 \in 1 .. n /\ queue'[j - 1] = queue[j])
  BY <1>1
<1>13. \A r \in 1 .. started' : r <= uiRun' \/ \E j \in 1 .. n : StartOf(j, r)'
  <2>1. SUFFICES ASSUME NEW r \in 1 .. started
                 PROVE  r <= uiRun' \/ \E j \in 1 .. n : queue'[j].type = "start" /\ queue'[j].run = r
    BY DEF StartOf
  <2>2. CASE r <= uiRun
    BY <1>3, <1>4, <2>2
  <2>3. ASSUME NEW j \in 1 .. n + 1, queue[j].type = "start", queue[j].run = r
        PROVE  r <= uiRun' \/ \E k \in 1 .. n : queue'[k].type = "start" /\ queue'[k].run = r
    <3>1. CASE j = 1
      BY <1>3, <2>3, <3>1
    <3>2. CASE j # 1
      BY <1>12, <2>3, <3>2
    <3>3. QED
      BY <3>1, <3>2
  <2>4. r <= uiRun \/ \E j \in 1 .. n + 1 : queue[j].type = "start" /\ queue[j].run = r
    BY <1>1 DEF QueueInv, StartOf
  <2>5. QED
    BY <2>2, <2>3, <2>4
<1>14. \A i \in 1 .. n :
         queue'[i].run <= uiRun' \/ \E j \in 1 .. i : StartOf(j, queue[i].run)'
  <2>1. SUFFICES ASSUME NEW i \in 1 .. n
                 PROVE  queue'[i].run <= uiRun'
                          \/ \E j \in 1 .. i : queue'[j].type = "start" /\ queue'[j].run = queue'[i].run
    BY DEF StartOf
  <2>2. CASE queue[i + 1].run <= uiRun
    BY <1>1, <1>2, <1>3, <1>4, <2>2
  <2>3. ASSUME NEW j \in 1 .. i + 1, queue[j].type = "start", queue[j].run = queue[i + 1].run
        PROVE  queue'[i].run <= uiRun'
                 \/ \E k \in 1 .. i : queue'[k].type = "start" /\ queue'[k].run = queue'[i].run
    <3>1. CASE j = 1
      BY <1>1, <1>2, <2>3, <3>1
    <3>2. CASE j # 1
      <4>1. j - 1 \in 1 .. i /\ queue'[j - 1] = queue[j]
        BY <1>1, <1>12, <3>2
      <4>2. QED
        BY <1>1, <2>3, <4>1
    <3>3. QED
      BY <3>1, <3>2
  <2>4. queue[i + 1].run <= uiRun
          \/ \E j \in 1 .. i + 1 : queue[j].type = "start" /\ queue[j].run = queue[i + 1].run
    BY <1>1 DEF QueueInv, StartOf
  <2>5. QED
    BY <2>2, <2>3, <2>4
<1>15. QED
  BY <1>5, <1>7, <1>9, <1>10, <1>11, <1>13, <1>14 DEF QueueInv

LEMMA QueueStep ==
    TypeInv /\ MemberInv /\ AloneInv /\ QueueInv /\ [Next]_vars => QueueInv'
<1>1. SUFFICES ASSUME TypeInv, MemberInv, AloneInv, QueueInv, [Next]_vars PROVE QueueInv'
  OBVIOUS
<1>a. pc \in [Parties -> Steps]
  BY <1>1 DEF TypeInv
<1>b. ASSUME UNCHANGED <<started, overlapped, queue, uiRun>> PROVE QueueInv'
  BY <1>1, <1>b DEF QueueInv, StartOf
<1>. USE DEF Goto, runVars, partyVars, scopeVars, cancelVars, uiVars
<1>2. CASE UNCHANGED vars
  BY <1>b, <1>2 DEF vars, runVars, partyVars, scopeVars, cancelVars, uiVars
<1>3. ASSUME NEW hosts \in SUBSET Hosts, StartRun(hosts) PROVE QueueInv'
  BY <1>1, <1>3, QueueOnStart DEF StartRun
<1>4. ASSUME NEW h \in Hosts, CancelOne(h) PROVE QueueInv'
  BY <1>b, <1>4 DEF CancelOne, Click
<1>5. CASE CancelAll
  BY <1>b, <1>5 DEF CancelAll, Click
<1>6. CASE FinishStart
  BY <1>b, <1>6 DEF FinishStart
<1>7. CASE SkipTerminal
  BY <1>b, <1>7 DEF SkipTerminal
<1>8. CASE CallCancel
  BY <1>b, <1>8 DEF CallCancel
<1>9. CASE ReadThread
  BY <1>b, <1>9 DEF ReadThread
<1>10. CASE Interrupt
  BY <1>b, <1>10 DEF Interrupt
<1>11. CASE HandleStart
  <2>1. queue # <<>> /\ queue' = Tail(queue) /\ Head(queue).type = "start"
          /\ uiRun' = Head(queue).run /\ UNCHANGED <<started, overlapped>>
    BY <1>11 DEF HandleStart, Receive
  <2>2. Head(queue) = queue[1]
    BY <1>1, <2>1, ReceiveFacts
  <2>3. QED
    BY <1>1, <2>1, <2>2, QueueShrinks
<1>12. CASE HandleStatus
  <2>1. queue # <<>> /\ queue' = Tail(queue) /\ Head(queue).type = "status"
          /\ uiRun' = uiRun /\ UNCHANGED <<started, overlapped>>
    BY <1>12 DEF HandleStatus, Receive
  <2>2. Head(queue) = queue[1]
    BY <1>1, <2>1, ReceiveFacts
  <2>3. QED
    BY <1>1, <2>1, <2>2, QueueShrinks
<1>13. CASE HandleFinished
  <2>1. queue # <<>> /\ queue' = Tail(queue) /\ Head(queue).type = "finished"
          /\ uiRun' = uiRun /\ UNCHANGED <<started, overlapped>>
    BY <1>13 DEF HandleFinished, Receive
  <2>2. Head(queue) = queue[1]
    BY <1>1, <2>1, ReceiveFacts
  <2>3. QED
    BY <1>1, <2>1, <2>2, QueueShrinks
<1>14. ASSUME NEW p \in Parties, SetThread(p) PROVE QueueInv'
  BY <1>b, <1>14 DEF SetThread
<1>15. ASSUME NEW p \in Parties, TaskEnds(p) PROVE QueueInv'
  BY <1>b, <1>15 DEF TaskEnds
<1>16. ASSUME NEW p \in Parties, NothingRan(p) PROVE QueueInv'
  BY <1>b, <1>16 DEF NothingRan
<1>17. ASSUME NEW p \in Parties, CountParty(p) PROVE QueueInv'
  BY <1>b, <1>17 DEF CountParty
<1>18. ASSUME NEW p \in Parties, Snapshot(p) PROVE QueueInv'
  BY <1>b, <1>18 DEF Snapshot
<1>19. ASSUME NEW p \in Parties, SendStatus(p) PROVE QueueInv'
  <2>. DEFINE e == [type |-> "status", run |-> p[1], value |-> reg[p]]
  <2>1. e \in Events
    BY <1>1, PartyFacts DEF Events, TypeInv
  <2>2. Active(p) /\ e.type # "start" /\ e.run = p[1] /\ queue' = Append(queue, e)
          /\ UNCHANGED <<started, uiRun, overlapped>>
    BY <1>19 DEF SendStatus, Send, Active
  <2>. HIDE DEF e
  <2>3. QED
    BY <1>1, <2>1, <2>2, QueueGrows
<1>20. ASSUME NEW p \in Parties, FireArrival(p) PROVE QueueInv'
  BY <1>b, <1>20 DEF FireArrival
<1>21. ASSUME NEW p \in Parties, SendFinished(p) PROVE QueueInv'
  <2>. DEFINE e == [type |-> "finished", run |-> p[1], value |-> p[2]]
  <2>1. e \in Events
    BY <1>1, PartyFacts DEF Events
  <2>2. Active(p) /\ e.type # "start" /\ e.run = p[1] /\ queue' = Append(queue, e)
          /\ UNCHANGED <<started, uiRun, overlapped>>
    BY <1>21 DEF SendFinished, Send, Active
  <2>. HIDE DEF e
  <2>3. QED
    BY <1>1, <2>1, <2>2, QueueGrows
<1>22. ASSUME NEW p \in Parties, FinishedLost(p) PROVE QueueInv'
  BY <1>b, <1>22 DEF FinishedLost
<1>23. QED
  BY <1>1, <1>2, <1>3, <1>4, <1>5, <1>6, <1>7, <1>8, <1>9, <1>10, <1>11, <1>12, <1>13, <1>14,
     <1>15, <1>16, <1>17, <1>18, <1>19, <1>20, <1>21, <1>22
  DEF Next, UserStep, CallStep, Dispatch, ListenerStep, PhasesEnd

\* Numbers that say that all parties are there stay true while they are under way.
LEMMA NumbersStep ==
    TypeInv /\ MemberInv /\ CountInv /\ QueueInv /\ NumbersInv /\ [Next]_vars => NumbersInv'
<1>1. SUFFICES ASSUME TypeInv, MemberInv, CountInv, QueueInv, NumbersInv, [Next]_vars
               PROVE  NumbersInv'
  OBVIOUS
<1>a. pc \in [Parties -> Steps] /\ reg \in [Parties -> Nat]
  BY <1>1 DEF TypeInv
<1>. DEFINE NewSize(r) == Cardinality(members'[r])
            StillNone(r) == \A h \in Hosts : pc'[<<r, h>>] \notin Working
<1>b. /\ \A r \in Runs : r <= started => NewSize(r) = Size(r)
      /\ \A r \in Runs : r <= started /\ NoneWorks(r) => StillNone(r)
  BY <1>1, StableStep DEF Size, NoneWorks
<1>c. \A p \in Parties : pc[p] # "new" => p[1] \in Runs /\ p[1] <= started
  BY <1>1, PartyFacts DEF MemberInv
<1>d. \A i \in 1 .. Len(queue) : queue[i].run \in Runs /\ queue[i].run <= started
  <2>1. \A i \in 1 .. Len(queue) : queue[i] \in Events
    BY <1>1 DEF TypeInv
  <2>2. QED
    BY <1>1, <2>1, EventFacts DEF QueueInv
<1>. DEFINE RegsStay == \A p \in Parties :
                          pc'[p] = "snapped" => pc[p] = "snapped" /\ reg'[p] = reg[p]
            QueueStays == \A i \in 1 .. Len(queue') : \E j \in 1 .. Len(queue) : queue'[i] = queue[j]
            Regs == \A p \in Parties :
                      pc[p] = "snapped" /\ reg[p] = Size(p[1]) => NoneWorks(p[1])
            Queued == \A i \in 1 .. Len(queue) :
                        queue[i].type = "status" /\ queue[i].value = Size(queue[i].run)
                            => NoneWorks(queue[i].run)
<1>e. ASSUME RegsStay PROVE Regs'
  BY <1>1, <1>b, <1>c, <1>e DEF NumbersInv, Size, NoneWorks
<1>f. ASSUME QueueStays PROVE Queued'
  <2>1. SUFFICES ASSUME NEW i \in 1 .. Len(queue'), queue'[i].type = "status",
                        queue'[i].value = NewSize(queue'[i].run)
                 PROVE  StillNone(queue'[i].run)
    BY DEF Size, NoneWorks
  <2>2. PICK j \in 1 .. Len(queue) : queue'[i] = queue[j]
    BY <1>f, <2>1
  <2>3. queue[j].value = Size(queue[j].run)
    BY <1>b, <1>d, <2>1, <2>2
  <2>4. QED
    BY <1>1, <1>b, <1>d, <2>1, <2>2, <2>3 DEF NumbersInv
<1>g. ASSUME RegsStay, QueueStays PROVE NumbersInv'
  BY <1>e, <1>f, <1>g DEF NumbersInv
<1>h. ASSUME NEW e, e \in Events, e.type # "status", queue' = Append(queue, e)
      PROVE  Queued'
  <2>1. /\ Len(queue) \in Nat /\ Len(queue') = Len(queue) + 1 /\ queue'[Len(queue) + 1] = e
        /\ \A i \in 1 .. Len(queue) : queue'[i] = queue[i]
    BY <1>1, <1>h, SendFacts DEF TypeInv
  <2>2. SUFFICES ASSUME NEW i \in 1 .. Len(queue'), queue'[i].type = "status",
                        queue'[i].value = NewSize(queue'[i].run)
                 PROVE  StillNone(queue'[i].run)
    BY DEF Size, NoneWorks
  <2>3. i \in 1 .. Len(queue) /\ queue'[i] = queue[i]
    BY <1>h, <2>1, <2>2
  <2>4. queue[i].value = Size(queue[i].run)
    BY <1>b, <1>d, <2>2, <2>3
  <2>5. QED
    BY <1>1, <1>b, <1>d, <2>2, <2>3, <2>4 DEF NumbersInv
<1>i. ASSUME queue # <<>>, queue' = Tail(queue), UNCHANGED <<pc, reg>> PROVE NumbersInv'
  <2>1. QueueStays
    BY <1>1, <1>i, ReceiveFacts
  <2>2. QED
    BY <1>i, <1>g, <2>1
<1>j. ASSUME UNCHANGED <<pc, reg, queue>> PROVE NumbersInv'
  BY <1>j, <1>g
<1>. USE DEF Goto, runVars, partyVars, scopeVars, cancelVars, uiVars
<1>. HIDE DEF RegsStay, QueueStays, Regs, Queued, NewSize, StillNone
<1>2. CASE UNCHANGED vars
  BY <1>j, <1>2 DEF vars, runVars, partyVars, scopeVars, cancelVars, uiVars
<1>3. ASSUME NEW hosts \in SUBSET Hosts, StartRun(hosts) PROVE NumbersInv'
  <2>. DEFINE e == [type |-> "start", run |-> started', value |-> hosts]
  <2>1. Launch(hosts)
    BY <1>3 DEF StartRun
  <2>2. e \in Events /\ queue' = Append(queue, e) /\ reg' = reg
        /\ \A q \in Parties :
             pc'[q] = IF q[1] = started' /\ q[2] \in hosts THEN "submitted" ELSE pc[q]
    BY <1>1, <2>1, LaunchFacts
  <2>3. e.type # "status"
    OBVIOUS
  <2>4. RegsStay
    BY <2>2 DEF RegsStay
  <2>. HIDE DEF e
  <2>5. Queued'
    BY <1>h, <2>2, <2>3
  <2>6. QED
    BY <1>e, <2>4, <2>5 DEF NumbersInv, Regs, Queued
<1>4. ASSUME NEW h \in Hosts, CancelOne(h) PROVE NumbersInv'
  BY <1>j, <1>4 DEF CancelOne, Click
<1>5. CASE CancelAll
  BY <1>j, <1>5 DEF CancelAll, Click
<1>6. CASE FinishStart
  BY <1>j, <1>6 DEF FinishStart
<1>7. CASE SkipTerminal
  BY <1>j, <1>7 DEF SkipTerminal
<1>8. CASE CallCancel
  BY <1>j, <1>8 DEF CallCancel
<1>9. CASE ReadThread
  BY <1>j, <1>9 DEF ReadThread
<1>10. CASE Interrupt
  BY <1>j, <1>10 DEF Interrupt
<1>11. CASE HandleStart
  BY <1>i, <1>11 DEF HandleStart, Receive
<1>12. CASE HandleStatus
  BY <1>i, <1>12 DEF HandleStatus, Receive
<1>13. CASE HandleFinished
  BY <1>i, <1>13 DEF HandleFinished, Receive
<1>14. ASSUME NEW p \in Parties, SetThread(p) PROVE NumbersInv'
  <2>1. RegsStay /\ QueueStays
    BY <1>a, <1>14 DEF SetThread, RegsStay, QueueStays
  <2>2. QED
    BY <1>g, <2>1
<1>15. ASSUME NEW p \in Parties, TaskEnds(p) PROVE NumbersInv'
  <2>1. RegsStay /\ QueueStays
    BY <1>a, <1>15 DEF TaskEnds, RegsStay, QueueStays
  <2>2. QED
    BY <1>g, <2>1
<1>16. ASSUME NEW p \in Parties, NothingRan(p) PROVE NumbersInv'
  <2>1. RegsStay /\ QueueStays
    BY <1>a, <1>16 DEF NothingRan, RegsStay, QueueStays
  <2>2. QED
    BY <1>g, <2>1
<1>17. ASSUME NEW p \in Parties, CountParty(p) PROVE NumbersInv'
  <2>1. RegsStay /\ QueueStays
    BY <1>a, <1>17 DEF CountParty, RegsStay, QueueStays
  <2>2. QED
    BY <1>g, <2>1
<1>18. ASSUME NEW p \in Parties, Snapshot(p) PROVE NumbersInv'
  <2>1. Queued'
    <3>1. QueueStays
      BY <1>18 DEF Snapshot, QueueStays
    <3>2. QED
      BY <1>f, <3>1
  <2>2. Regs'
    <3>1. SUFFICES ASSUME NEW q \in Parties, pc'[q] = "snapped", reg'[q] = NewSize(q[1])
                   PROVE  StillNone(q[1])
      BY DEF Regs, Size, NoneWorks, NewSize, StillNone
    <3>2. CASE q = p
      <4>1. p[1] \in Runs /\ p[1] <= started /\ reg'[p] = arrived[p[1]]
        BY <1>a, <1>c, <1>18 DEF Snapshot
      <4>2. arrived[p[1]] = Size(p[1])
        BY <1>b, <3>1, <3>2, <4>1
      <4>3. QED
        BY <1>1, <1>b, <3>2, <4>1, <4>2, AllCounted
    <3>3. CASE q # p
      <4>1. pc[q] = "snapped" /\ reg[q] = reg'[q]
        BY <1>a, <1>18, <3>1, <3>3 DEF Snapshot
      <4>2. q[1] \in Runs /\ q[1] <= started
        BY <1>c, <4>1
      <4>3. QED
        BY <1>1, <1>b, <3>1, <4>1, <4>2 DEF NumbersInv
    <3>4. QED
      BY <3>2, <3>3
  <2>3. QED
    BY <2>1, <2>2 DEF NumbersInv, Regs, Queued
<1>19. ASSUME NEW p \in Parties, SendStatus(p) PROVE NumbersInv'
  <2>. DEFINE e == [type |-> "status", run |-> p[1], value |-> reg[p]]
  <2>1. e \in Events
    BY <1>a, PartyFacts DEF Events
  <2>2. e.run = p[1] /\ e.value = reg[p] /\ queue' = Append(queue, e) /\ pc[p] = "snapped"
    BY <1>19 DEF SendStatus, Send
  <2>. HIDE DEF e
  <2>3. Regs'
    <3>1. RegsStay
      BY <1>a, <1>19 DEF SendStatus, RegsStay
    <3>2. QED
      BY <1>e, <3>1
  <2>4. /\ Len(queue) \in Nat /\ Len(queue') = Len(queue) + 1 /\ queue'[Len(queue) + 1] = e
        /\ \A i \in 1 .. Len(queue) : queue'[i] = queue[i]
    BY <1>1, <2>1, <2>2, SendFacts DEF TypeInv
  <2>5. Queued'
    <3>1. SUFFICES ASSUME NEW i \in 1 .. Len(queue'), queue'[i].type = "status",
                          queue'[i].value = NewSize(queue'[i].run)
                   PROVE  StillNone(queue'[i].run)
      BY DEF Queued, Size, NoneWorks, NewSize, StillNone
    <3>2. CASE i \in 1 .. Len(queue)
      <4>1. queue'[i] = queue[i] /\ queue[i].value = Size(queue[i].run)
        BY <1>b, <1>d, <2>4, <3>1, <3>2
      <4>2. QED
        BY <1>1, <1>b, <1>d, <3>1, <3>2, <4>1 DEF NumbersInv
    <3>3. CASE i = Len(queue) + 1
      <4>1. queue'[i] = e
        BY <2>4, <3>3
      <4>2. reg[p] = Size(p[1]) /\ p[1] \in Runs /\ p[1] <= started
        BY <1>b, <1>c, <2>2, <3>1, <4>1
      <4>3. QED
        BY <1>1, <1>b, <2>2, <4>1, <4>2 DEF NumbersInv
    <3>4. QED
      BY <2>4, <3>2, <3>3
  <2>6. QED
    BY <2>3, <2>5 DEF NumbersInv, Regs, Queued
<1>20. ASSUME NEW p \in Parties, FireArrival(p) PROVE NumbersInv'
  <2>1. RegsStay /\ QueueStays
    BY <1>a, <1>20 DEF FireArrival, RegsStay, QueueStays
  <2>2. QED
    BY <1>g, <2>1
<1>21. ASSUME NEW p \in Parties, SendFinished(p) PROVE NumbersInv'
  <2>. DEFINE e == [type |-> "finished", run |-> p[1], value |-> p[2]]
  <2>1. e \in Events
    BY PartyFacts DEF Events
  <2>2. e.type # "status" /\ queue' = Append(queue, e)
    BY <1>21 DEF SendFinished, Send
  <2>. HIDE DEF e
  <2>3. RegsStay
    BY <1>a, <1>21 DEF SendFinished, RegsStay
  <2>4. Queued'
    BY <1>h, <2>1, <2>2
  <2>5. QED
    BY <1>e, <2>3, <2>4 DEF NumbersInv, Regs, Queued
<1>22. ASSUME NEW p \in Parties, FinishedLost(p) PROVE NumbersInv'
  <2>1. RegsStay /\ QueueStays
    BY <1>a, <1>22 DEF FinishedLost, RegsStay, QueueStays
  <2>2. QED
    BY <1>g, <2>1
<1>23. QED
  BY <1>1, <1>2, <1>3, <1>4, <1>5, <1>6, <1>7, <1>8, <1>9, <1>10, <1>11, <1>12, <1>13, <1>14,
     <1>15, <1>16, <1>17, <1>18, <1>19, <1>20, <1>21, <1>22
  DEF Next, UserStep, CallStep, Dispatch, ListenerStep, PhasesEnd

\* The event the UI handles in a run that was alone is an event of that run.
LEMMA HeadIsOfTheRun ==
    ASSUME TypeInv, QueueInv, queue # <<>>, queue[1].type # "start", uiRun \notin overlapped
    PROVE  queue[1].run = uiRun /\ uiRun \in Runs
<1>1. 1 \in 1 .. Len(queue) /\ queue[1] \in Events
  BY EmptySeq DEF TypeInv
<1>2. queue[1].run \in Runs /\ queue[1].run \in Nat /\ uiRun \in Nat
  BY <1>1, EventFacts, RunFacts DEF TypeInv
<1>3. uiRun <= queue[1].run
  BY <1>1 DEF QueueInv
<1>4. queue[1].run <= uiRun
  <2>1. \A j \in 1 .. 1 : j = 1
    OBVIOUS
  <2>2. queue[1].run <= uiRun \/ \E j \in 1 .. 1 : queue[j].type = "start"
    BY <1>1 DEF QueueInv, StartOf
  <2>3. QED
    BY <2>1, <2>2
<1>5. QED
  BY <1>2, <1>3, <1>4

LEMMA CurrentStep ==
    TypeInv /\ MemberInv /\ CountInv /\ AloneInv /\ RunningIsCurrent /\ [Next]_vars
        => RunningIsCurrent'
<1>1. SUFFICES ASSUME TypeInv, MemberInv, CountInv, AloneInv, RunningIsCurrent, [Next]_vars
               PROVE  RunningIsCurrent'
  OBVIOUS
<1>a. pc \in [Parties -> Steps]
  BY <1>1 DEF TypeInv
<1>. DEFINE Holds(p) == pc[p] \in {"submitted", "running", "ended"}
            Still == \A h \in Hosts :
                       pc'[<<started, h>>] \in Working => pc[<<started, h>>] \in Working
<1>b. ASSUME UNCHANGED <<started, overlapped, current>>, Still PROVE RunningIsCurrent'
  BY <1>1, <1>b DEF RunningIsCurrent, Working
<1>c. ASSUME UNCHANGED <<started, overlapped, current, pc>> PROVE RunningIsCurrent'
  BY <1>1, <1>c DEF RunningIsCurrent
<1>. USE DEF Goto, runVars, partyVars, scopeVars, cancelVars, uiVars
<1>2. CASE UNCHANGED vars
  BY <1>c, <1>2 DEF vars, runVars, partyVars, scopeVars, cancelVars, uiVars
<1>3. ASSUME NEW hosts \in SUBSET Hosts, StartRun(hosts) PROVE RunningIsCurrent'
  <2>1. current' = started'
    BY <1>1, <1>3, LaunchFacts DEF StartRun
  <2>2. QED
    BY <2>1 DEF RunningIsCurrent
<1>4. ASSUME NEW h \in Hosts, CancelOne(h) PROVE RunningIsCurrent'
  BY <1>c, <1>4 DEF CancelOne, Click
<1>5. CASE CancelAll
  BY <1>c, <1>5 DEF CancelAll, Click
<1>6. CASE FinishStart
  BY <1>c, <1>6 DEF FinishStart
<1>7. CASE SkipTerminal
  BY <1>c, <1>7 DEF SkipTerminal
<1>8. CASE CallCancel
  BY <1>c, <1>8 DEF CallCancel
<1>9. CASE ReadThread
  BY <1>c, <1>9 DEF ReadThread
<1>10. CASE Interrupt
  BY <1>c, <1>10 DEF Interrupt
<1>11. CASE HandleStart
  BY <1>c, <1>11 DEF HandleStart, Receive
<1>12. CASE HandleStatus
  BY <1>c, <1>12 DEF HandleStatus, Receive
<1>13. CASE HandleFinished
  BY <1>c, <1>13 DEF HandleFinished, Receive
<1>14. ASSUME NEW p \in Parties, SetThread(p) PROVE RunningIsCurrent'
  <2>1. Still
    BY <1>a, <1>14 DEF SetThread, Working
  <2>2. QED
    BY <1>b, <1>14, <2>1 DEF SetThread
<1>15. ASSUME NEW p \in Parties, TaskEnds(p) PROVE RunningIsCurrent'
  <2>1. Still
    BY <1>a, <1>15 DEF TaskEnds, Working
  <2>2. QED
    BY <1>b, <1>15, <2>1 DEF TaskEnds
<1>16. ASSUME NEW p \in Parties, NothingRan(p) PROVE RunningIsCurrent'
  <2>1. Still
    BY <1>a, <1>16 DEF NothingRan, Working
  <2>2. QED
    BY <1>b, <1>16, <2>1 DEF NothingRan
<1>17. ASSUME NEW p \in Parties, CountParty(p) PROVE RunningIsCurrent'
  <2>1. Still
    BY <1>a, <1>17 DEF CountParty, Working
  <2>2. QED
    BY <1>b, <1>17, <2>1 DEF CountParty
<1>18. ASSUME NEW p \in Parties, Snapshot(p) PROVE RunningIsCurrent'
  <2>1. Still
    BY <1>a, <1>18 DEF Snapshot, Working
  <2>2. QED
    BY <1>b, <1>18, <2>1 DEF Snapshot
<1>19. ASSUME NEW p \in Parties, SendStatus(p) PROVE RunningIsCurrent'
  <2>1. Still
    BY <1>a, <1>19 DEF SendStatus, Working
  <2>2. QED
    BY <1>b, <1>19, <2>1 DEF SendStatus
<1>20. ASSUME NEW p \in Parties, FireArrival(p) PROVE RunningIsCurrent'
  <2>1. pc[p] = "firing" /\ Still /\ UNCHANGED <<started, overlapped>>
    BY <1>a, <1>20 DEF FireArrival, Working
  <2>2. CASE current' = current
    BY <1>b, <2>1, <2>2
  <2>3. CASE arrivedCount[p[1]] = Size(p[1])
    <3>1. p[1] \in Runs /\ p[1] <= started
      BY <1>1, <2>1, PartyFacts DEF MemberInv
    <3>2. SUFFICES ASSUME started \notin overlapped, started # NoRun
                   PROVE  \A h \in Hosts : pc'[<<started, h>>] \notin Working
      BY <2>1 DEF RunningIsCurrent, Working
    <3>3. started \in Runs
      BY <1>1, <3>1, RunFacts DEF TypeInv
    <3>4. p[1] = started
      <4>1. ~(p[1] < started)
        BY <1>1, <2>1, <3>2, <3>3, RunFacts DEF AloneInv, Active
      <4>2. QED
        BY <3>1, <3>3, <4>1, RunFacts
    <3>5. NoneWorks(started)
      BY <1>1, <2>3, <3>1, <3>4, AllCounted
    <3>6. QED
      BY <2>1, <3>5 DEF NoneWorks
  <2>4. QED
    BY <1>20, <2>2, <2>3 DEF FireArrival
<1>21. ASSUME NEW p \in Parties, SendFinished(p) PROVE RunningIsCurrent'
  <2>1. Still
    BY <1>a, <1>21 DEF SendFinished, Working
  <2>2. QED
    BY <1>b, <1>21, <2>1 DEF SendFinished
<1>22. ASSUME NEW p \in Parties, FinishedLost(p) PROVE RunningIsCurrent'
  <2>1. Still
    BY <1>a, <1>22 DEF FinishedLost, Working
  <2>2. QED
    BY <1>b, <1>22, <2>1 DEF FinishedLost
<1>23. QED
  BY <1>1, <1>2, <1>3, <1>4, <1>5, <1>6, <1>7, <1>8, <1>9, <1>10, <1>11, <1>12, <1>13, <1>14,
     <1>15, <1>16, <1>17, <1>18, <1>19, <1>20, <1>21, <1>22
  DEF Next, UserStep, CallStep, Dispatch, ListenerStep, PhasesEnd

LEMMA IdleStep ==
    TypeInv /\ MemberInv /\ NumbersInv /\ QueueInv /\ IdleMeansIdle /\ [Next]_vars
        => IdleMeansIdle'
<1>1. SUFFICES ASSUME TypeInv, MemberInv, NumbersInv, QueueInv, IdleMeansIdle, [Next]_vars
               PROVE  IdleMeansIdle'
  OBVIOUS
<1>. DEFINE StillNone(r) == \A h \in Hosts : pc'[<<r, h>>] \notin Working
<1>a. uiRun \in 0 .. started /\ started \in 0 .. MaxRuns /\ members \in [Runs -> SUBSET Hosts]
  BY <1>1 DEF TypeInv
<1>b. uiRun # NoRun => uiRun \in Runs /\ uiRun <= started
  BY <1>a, RunFacts DEF NoRun
<1>c. /\ \A r \in Runs : r <= started => members'[r] = members[r]
      /\ \A r \in Runs : r <= started /\ NoneWorks(r) => StillNone(r)
  BY <1>1, StableStep DEF NoneWorks
<1>d. uiRun # NoRun /\ (\A h \in members[uiRun] : pc[<<uiRun, h>>] \notin Working)
        => NoneWorks(uiRun)
  BY <1>1, <1>b, PartyFacts DEF NoneWorks, MemberInv, Working
<1>e. ASSUME uiRun' = uiRun, uiRun \in Runs, StillNone(uiRun) PROVE IdleMeansIdle'
  <2>1. members[uiRun] \subseteq Hosts /\ members'[uiRun] = members[uiRun]
    BY <1>a, <1>b, <1>c, <1>e, RunFacts
  <2>2. QED
    BY <1>e, <2>1 DEF IdleMeansIdle, Working
<1>f. ASSUME uiRun' = uiRun, overall' = overall, overlapped \subseteq overlapped'
      PROVE  IdleMeansIdle'
  <2>1. SUFFICES ASSUME overall = "not.running", uiRun \notin overlapped, uiRun # NoRun
                 PROVE  IdleMeansIdle'
    BY <1>f DEF IdleMeansIdle
  <2>2. StillNone(uiRun)
    BY <1>1, <1>b, <1>c, <1>d, <2>1 DEF IdleMeansIdle, Working
  <2>3. QED
    BY <1>b, <1>e, <1>f, <2>1, <2>2
<1>. HIDE DEF StillNone
<1>. USE DEF Goto, runVars, partyVars, scopeVars, cancelVars, uiVars
<1>2. CASE UNCHANGED vars
  BY <1>f, <1>2 DEF vars, runVars, partyVars, scopeVars, cancelVars, uiVars
<1>3. ASSUME NEW hosts \in SUBSET Hosts, StartRun(hosts) PROVE IdleMeansIdle'
  <2>1. overlapped \subseteq overlapped' /\ uiRun' = uiRun /\ overall' = overall
    BY <1>1, <1>3, LaunchFacts DEF StartRun
  <2>2. QED
    BY <1>f, <2>1
<1>4. ASSUME NEW h \in Hosts, CancelOne(h) PROVE IdleMeansIdle'
  BY <1>f, <1>4 DEF CancelOne, Click
<1>5. CASE CancelAll
  BY <1>f, <1>5 DEF CancelAll, Click
<1>6. CASE FinishStart
  BY <1>f, <1>6 DEF FinishStart
<1>7. CASE SkipTerminal
  BY <1>f, <1>7 DEF SkipTerminal
<1>8. CASE CallCancel
  BY <1>f, <1>8 DEF CallCancel
<1>9. CASE ReadThread
  BY <1>f, <1>9 DEF ReadThread
<1>10. CASE Interrupt
  BY <1>f, <1>10 DEF Interrupt
<1>11. CASE HandleStart
  BY <1>11 DEF HandleStart, IdleMeansIdle
<1>12. CASE HandleStatus
  <2>1. /\ queue # <<>> /\ queue' = Tail(queue) /\ Head(queue).type = "status"
        /\ UNCHANGED <<uiRun, overlapped>>
        /\ overall' = IF Head(queue).value = Size(Head(queue).run) THEN "not.running" ELSE overall
    BY <1>12 DEF HandleStatus, Receive
  <2>2. Head(queue) = queue[1] /\ 1 \in 1 .. Len(queue)
    BY <1>1, <2>1, ReceiveFacts
  <2>3. CASE overall' = overall
    BY <1>f, <2>1, <2>3
  <2>4. CASE queue[1].value = Size(queue[1].run)
    <3>1. SUFFICES ASSUME uiRun \notin overlapped PROVE IdleMeansIdle'
      BY <2>1 DEF IdleMeansIdle
    <3>2. queue[1].run = uiRun /\ uiRun \in Runs
      BY <1>1, <2>1, <2>2, <3>1, HeadIsOfTheRun
    <3>3. NoneWorks(uiRun)
      BY <1>1, <2>1, <2>2, <2>4, <3>2 DEF NumbersInv
    <3>4. StillNone(uiRun)
      BY <1>b, <1>c, <3>2, <3>3, RunFacts
    <3>5. QED
      BY <1>e, <2>1, <3>2, <3>4
  <2>5. QED
    BY <2>1, <2>2, <2>3, <2>4
<1>13. CASE HandleFinished
  BY <1>f, <1>13 DEF HandleFinished, Receive
<1>14. ASSUME NEW p \in Parties, SetThread(p) PROVE IdleMeansIdle'
  BY <1>f, <1>14 DEF SetThread
<1>15. ASSUME NEW p \in Parties, TaskEnds(p) PROVE IdleMeansIdle'
  BY <1>f, <1>15 DEF TaskEnds
<1>16. ASSUME NEW p \in Parties, NothingRan(p) PROVE IdleMeansIdle'
  BY <1>f, <1>16 DEF NothingRan
<1>17. ASSUME NEW p \in Parties, CountParty(p) PROVE IdleMeansIdle'
  BY <1>f, <1>17 DEF CountParty
<1>18. ASSUME NEW p \in Parties, Snapshot(p) PROVE IdleMeansIdle'
  BY <1>f, <1>18 DEF Snapshot
<1>19. ASSUME NEW p \in Parties, SendStatus(p) PROVE IdleMeansIdle'
  BY <1>f, <1>19 DEF SendStatus
<1>20. ASSUME NEW p \in Parties, FireArrival(p) PROVE IdleMeansIdle'
  BY <1>f, <1>20 DEF FireArrival
<1>21. ASSUME NEW p \in Parties, SendFinished(p) PROVE IdleMeansIdle'
  BY <1>f, <1>21 DEF SendFinished
<1>22. ASSUME NEW p \in Parties, FinishedLost(p) PROVE IdleMeansIdle'
  BY <1>f, <1>22 DEF FinishedLost
<1>23. QED
  BY <1>1, <1>2, <1>3, <1>4, <1>5, <1>6, <1>7, <1>8, <1>9, <1>10, <1>11, <1>12, <1>13, <1>14,
     <1>15, <1>16, <1>17, <1>18, <1>19, <1>20, <1>21, <1>22
  DEF Next, UserStep, CallStep, Dispatch, ListenerStep, PhasesEnd

LEMMA LatestStep ==
    TypeInv /\ QueueInv /\ LatestResult /\ [Next]_vars => LatestResult'
<1>1. SUFFICES ASSUME TypeInv, QueueInv, LatestResult, [Next]_vars PROVE LatestResult'
  OBVIOUS
<1>a. term \in [Hosts -> {"absent", "pending", "cancelling", "complete"}]
        /\ shown \in [Hosts -> Runs \cup {NoRun, Cancelled}]
  BY <1>1 DEF TypeInv
<1>b. ASSUME UNCHANGED <<term, shown, uiRun>>, overlapped \subseteq overlapped'
      PROVE  LatestResult'
  BY <1>1, <1>b DEF LatestResult
<1>. USE DEF Goto, runVars, partyVars, scopeVars, cancelVars, uiVars
<1>2. CASE UNCHANGED vars
  BY <1>b, <1>2 DEF vars, runVars, partyVars, scopeVars, cancelVars, uiVars
<1>3. ASSUME NEW hosts \in SUBSET Hosts, StartRun(hosts) PROVE LatestResult'
  <2>1. overlapped \subseteq overlapped' /\ UNCHANGED <<term, shown, uiRun>>
    BY <1>1, <1>3, LaunchFacts DEF StartRun
  <2>2. QED
    BY <1>b, <2>1
<1>4. ASSUME NEW h \in Hosts, CancelOne(h) PROVE LatestResult'
  BY <1>b, <1>4 DEF CancelOne, Click
<1>5. CASE CancelAll
  BY <1>b, <1>5 DEF CancelAll, Click
<1>6. CASE FinishStart
  BY <1>b, <1>6 DEF FinishStart
<1>7. CASE SkipTerminal
  BY <1>b, <1>7 DEF SkipTerminal
<1>8. CASE CallCancel
  <2>. DEFINE h == Head(todo)
  <2>1. UNCHANGED <<uiRun, overlapped>> /\ term' = [term EXCEPT ![h] = "cancelling"]
          /\ shown' = [shown EXCEPT ![h] = Cancelled]
    BY <1>8 DEF CallCancel
  <2>2. \A g \in Hosts : term'[g] = "complete" => term[g] = "complete" /\ shown'[g] = shown[g]
    BY <1>a, <2>1
  <2>3. QED
    BY <1>1, <2>1, <2>2 DEF LatestResult
<1>9. CASE ReadThread
  BY <1>b, <1>9 DEF ReadThread
<1>10. CASE Interrupt
  BY <1>b, <1>10 DEF Interrupt
<1>11. CASE HandleStart
  <2>1. \A h \in Hosts : term'[h] # "complete"
    BY <1>11 DEF HandleStart
  <2>2. QED
    BY <2>1 DEF LatestResult
<1>12. CASE HandleStatus
  BY <1>b, <1>12 DEF HandleStatus, Receive
<1>13. CASE HandleFinished
  <2>1. /\ queue # <<>> /\ queue' = Tail(queue) /\ Head(queue).type = "finished"
        /\ UNCHANGED <<uiRun, overlapped>>
        /\ term' = [term EXCEPT ![Head(queue).value] = "complete"]
        /\ shown' = [shown EXCEPT ![Head(queue).value] = Head(queue).run]
    BY <1>13 DEF HandleFinished, Receive
  <2>2. Head(queue) = queue[1]
    BY <1>1, <2>1, ReceiveFacts
  <2>3. SUFFICES ASSUME NEW h \in Hosts, term'[h] = "complete", uiRun \notin overlapped
                 PROVE  shown'[h] = uiRun
    BY <2>1 DEF LatestResult
  <2>4. queue[1].run = uiRun
    BY <1>1, <2>1, <2>2, <2>3, HeadIsOfTheRun
  <2>5. CASE h = queue[1].value
    BY <1>a, <2>1, <2>2, <2>4, <2>5
  <2>6. CASE h # queue[1].value
    BY <1>1, <1>a, <2>1, <2>2, <2>3, <2>6 DEF LatestResult
  <2>7. QED
    BY <2>5, <2>6
<1>14. ASSUME NEW p \in Parties, SetThread(p) PROVE LatestResult'
  BY <1>b, <1>14 DEF SetThread
<1>15. ASSUME NEW p \in Parties, TaskEnds(p) PROVE LatestResult'
  BY <1>b, <1>15 DEF TaskEnds
<1>16. ASSUME NEW p \in Parties, NothingRan(p) PROVE LatestResult'
  BY <1>b, <1>16 DEF NothingRan
<1>17. ASSUME NEW p \in Parties, CountParty(p) PROVE LatestResult'
  BY <1>b, <1>17 DEF CountParty
<1>18. ASSUME NEW p \in Parties, Snapshot(p) PROVE LatestResult'
  BY <1>b, <1>18 DEF Snapshot
<1>19. ASSUME NEW p \in Parties, SendStatus(p) PROVE LatestResult'
  BY <1>b, <1>19 DEF SendStatus
<1>20. ASSUME NEW p \in Parties, FireArrival(p) PROVE LatestResult'
  BY <1>b, <1>20 DEF FireArrival
<1>21. ASSUME NEW p \in Parties, SendFinished(p) PROVE LatestResult'
  BY <1>b, <1>21 DEF SendFinished
<1>22. ASSUME NEW p \in Parties, FinishedLost(p) PROVE LatestResult'
  BY <1>b, <1>22 DEF FinishedLost
<1>23. QED
  BY <1>1, <1>2, <1>3, <1>4, <1>5, <1>6, <1>7, <1>8, <1>9, <1>10, <1>11, <1>12, <1>13, <1>14,
     <1>15, <1>16, <1>17, <1>18, <1>19, <1>20, <1>21, <1>22
  DEF Next, UserStep, CallStep, Dispatch, ListenerStep, PhasesEnd

LEMMA InitInv == Init => IInv
<1>1. SUFFICES ASSUME Init PROVE IInv
  OBVIOUS
<1>2. TypeInv
  BY <1>1, RunFacts DEF Init, TypeInv, Steps, NoRun
<1>3. MemberInv
  BY <1>1, PartyFacts DEF Init, MemberInv
<1>4. WorkerInv
  BY <1>1 DEF Init, WorkerInv, Active
<1>5. CountInv
  <2>1. \A r \in Runs : CountedIn(r) = {} /\ FiredIn(r) = {}
    BY <1>1 DEF Init, CountedIn, FiredIn
  <2>2. QED
    BY <1>1, <2>1, FS_EmptySet DEF Init, CountInv
<1>6. queue = <<>> /\ Len(queue) = 0 /\ uiRun = 0 /\ started = 0
  BY <1>1 DEF Init, NoRun
<1>7. NumbersInv
  BY <1>1, <1>6 DEF Init, NumbersInv
<1>8. AloneInv
  BY <1>1 DEF Init, AloneInv, Active
<1>9. QueueInv
  BY <1>6 DEF QueueInv
<1>10. RunningIsCurrent /\ IdleMeansIdle
  BY <1>1 DEF Init, RunningIsCurrent, IdleMeansIdle, NoRun
<1>11. LatestResult
  BY <1>1 DEF Init, LatestResult
<1>12. CallInv
  BY <1>1 DEF Init, CallInv
<1>13. QED
  BY <1>2, <1>3, <1>4, <1>5, <1>7, <1>8, <1>9, <1>10, <1>11, <1>12 DEF IInv

\* The inductive invariant holds for every set of hosts and number of runs.
THEOREM Invariance == Spec => []IInv
<1>1. IInv /\ [Next]_vars => IInv'
  BY TypeStep, CallTypeStep, MemberStep, WorkerStep, CountStep, NumbersStep, AloneStep, QueueStep,
     CurrentStep, IdleStep, LatestStep DEF IInv
<1>2. QED
  BY <1>1, InitInv, PTL DEF Spec

\* The types, and that no counter runs ahead: GlobalTaskRunner.arrivedCount is
\* never above Stats.partiesArrived, nor that above the number of parties.
THEOREM TypeCorrect == Spec => []TypeOK
<1>1. ASSUME IInv, NEW r \in Runs
      PROVE  arrived[r] \in 0 .. Size(r) /\ arrivedCount[r] \in 0 .. arrived[r]
  <2>1. members[r] \subseteq Hosts
    BY <1>1 DEF IInv, TypeInv
  <2>2. CountedIn(r) \subseteq members[r] /\ FiredIn(r) \subseteq CountedIn(r)
    BY DEF CountedIn, FiredIn, Counted
  <2>3. IsFiniteSet(members[r])
    BY <2>1, TerminalsAssumption, FS_Subset DEF TerminalsAssumption
  <2>4. IsFiniteSet(CountedIn(r)) /\ Cardinality(CountedIn(r)) <= Cardinality(members[r])
    BY <2>2, <2>3, FS_Subset
  <2>5. IsFiniteSet(FiredIn(r)) /\ Cardinality(FiredIn(r)) <= Cardinality(CountedIn(r))
    BY <2>2, <2>4, FS_Subset
  <2>6. /\ Cardinality(members[r]) \in Nat /\ Cardinality(CountedIn(r)) \in Nat
        /\ Cardinality(FiredIn(r)) \in Nat
    BY <2>3, <2>4, <2>5, FS_CardinalityType
  <2>7. arrived[r] = Cardinality(CountedIn(r)) /\ arrivedCount[r] = Cardinality(FiredIn(r))
    BY <1>1 DEF IInv, CountInv
  <2>8. QED
    BY <2>4, <2>5, <2>6, <2>7 DEF Size
<1>2. ASSUME IInv PROVE TypeOK
  <2>1. uiRun \in Runs \cup {NoRun} /\ overlapped \subseteq Runs
    BY <1>2, RunFacts DEF IInv, TypeInv, NoRun
  <2>2. QED
    BY <1>1, <1>2, <2>1 DEF IInv, TypeInv, CallInv, Steps, TypeOK
<1>3. QED
  BY <1>2, Invariance, PTL

\* FXConf.cancelThread interrupts the thread of the party that the button was
\* for, or none: a thread works for one party at a time and is not handed on
\* between terminate's two looks at it.
THEOREM OnlyTheMeantOne == Spec => OnlyMeantIsInterrupted
<1>1. IInv /\ [Next]_vars
        => [\A p \in interrupted' \ interrupted : p = <<target, Head(todo)>>]_vars
  <2>1. SUFFICES ASSUME IInv, [Next]_vars
                 PROVE  \A p \in interrupted' \ interrupted : p = <<target, Head(todo)>>
    OBVIOUS
  <2>2. CASE Interrupt
    <3>1. \A p \in Parties : worker[p] = victim => p = <<target, Head(todo)>>
      BY <2>1, <2>2 DEF IInv, WorkerInv, Interrupt
    <3>2. interrupted' = interrupted \cup {p \in Parties : worker[p] = victim}
      BY <2>2 DEF Interrupt
    <3>3. QED
      BY <3>1, <3>2
  <2>3. CASE ~Interrupt
    <3>1. interrupted' \subseteq interrupted
      BY <2>1, <2>3 DEF Next, UserStep, CallStep, Dispatch, ListenerStep, PhasesEnd, CancelOne,
         CancelAll, NothingRan, FinishedLost, Click, StartRun, Launch, FinishStart, SkipTerminal, CallCancel, ReadThread, HandleStart,
         HandleStatus, HandleFinished, Receive, SetThread, TaskEnds, CountParty, Snapshot, SendStatus,
         FireArrival, SendFinished, vars
    <3>2. QED
      BY <3>1
  <2>4. QED
    BY <2>2, <2>3
<1>2. QED
  BY <1>1, Invariance, PTL DEF Spec, OnlyMeantIsInterrupted

\* While a party of the last run works the run is in the global scope, so that a
\* cancel button finds it, unless the run began while another one went on.
THEOREM WorkingIsCurrent == Spec => []RunningIsCurrent
BY Invariance, PTL DEF IInv

\* When the UI says that nothing runs, no party of the last run works, however
\* the status events overtake each other.
THEOREM IdleIsTrue == Spec => []IdleMeansIdle
BY Invariance, PTL DEF IInv

\* A terminal that is complete shows the result of the last run.
THEOREM ShowsTheLatest == Spec => []LatestResult
BY Invariance, PTL DEF IInv
=============================================================================
