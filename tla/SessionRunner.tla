---------------------------- MODULE SessionRunner ----------------------------
(***************************************************************************)
(* The tasks of one session: bear.task.SessionRunner, which runs the task  *)
(* definition of each phase with the tasks it depends on, its before tasks,*)
(* its own callables, its after tasks and, when its own part fails, its    *)
(* rollback - each of them a run of the same kind, on one thread, so that  *)
(* the state is that thread's stack of runWithDependencies calls.          *)
(* GlobalTaskRunner and Releases rest on what it promises: the last result *)
(* decides whether Stats counts the party as failed, and a deployment that *)
(* fails is rolled back once.                                              *)
(*                                                                         *)
(* tasksExecuted, which is consulted but never filled, is left out, and so *)
(* is the result of verifyPlugins, which precedes the first run.           *)
(***************************************************************************)
EXTENDS Integers, Sequences

CONSTANTS
    Defs,       \* task definitions
    Tasks,      \* per section and definition: the sequence of tasks to run there
    Callables,  \* per definition: the number of callables, one unless it is a multitask
    Inner,      \* per definition: what its callables may run themselves with runner.run
    Rollback,   \* per definition: its rollback or NoDef
    NoDef,
    Here,       \* definitions without roles, or with one that the host has
    Script,     \* the definitions of the phases
    MaxInner    \* bound on what one callable runs itself

Sections == {"depends", "before", "after"}

ASSUME SessionAssumption ==
    /\ NoDef \notin Defs
    /\ Tasks \in [Sections -> [Defs -> Seq(Defs)]]
    /\ Callables \in [Defs -> Nat]
    /\ Inner \in [Defs -> SUBSET Defs]
    /\ Rollback \in [Defs -> Defs \cup {NoDef}]
    /\ Here \subseteq Defs
    /\ Script \in Seq(Defs)
    /\ MaxInner \in Nat

VARIABLES
    stack,                  \* the calls of runWithDependencies under way, the last one on top
    returned,               \* how the call that has just ended did so, if it is not taken yet
    state,                  \* SessionRunner.state
    myLastResult,           \* SessionRunner.myLastResult
    myLastRollbackResult,   \* SessionRunner.myLastRollbackResult
    phase,                  \* number of phases begun
    latest,                 \* history: per definition, what its last run returned
    culprit,                \* history: the definition whose own part was the first to fail
    undone,                 \* history: the definitions rolled back, but for those within a rollback
    forgiven                \* history: a callable went on after a run of its own had not gone well

results == <<state, myLastResult, myLastRollbackResult>>
history == <<latest, culprit, undone, forgiven>>
vars == <<stack, returned, results, phase, history>>

(* A call of runWithDependencies: its definition, where it is, the index   *)
(* there, last, myResult, and how much the callable under way has run.     *)
Call(def) ==
    [def |-> def, at |-> "depends", next |-> 1, last |-> "ok", mine |-> "ok", inner |-> 0]

Top == stack[Len(stack)]
Change(frame) == stack' = [stack EXCEPT ![Len(stack)] = frame]
Push(def) == stack' = Append(stack, Call(def))
PushAfter(frame, def) == stack' = Append([stack EXCEPT ![Len(stack)] = frame], Call(def))
Pop == stack' = SubSeq(stack, 1, Len(stack) - 1)

\* The top call goes on by itself; there is no result to be taken.
Busy == stack # <<>> /\ returned = "none"

InSection == Top.at \in Sections

\* Some call is waiting for its rollback.
RollingBack == \E i \in 1 .. Len(stack) : stack[i].at = "rolling"

Init ==
    /\ stack = <<>>
    /\ returned = "none"
    /\ state = "NOT_RUNNING"
    /\ myLastResult = "ok"
    /\ myLastRollbackResult = "ok"
    /\ phase = 0
    /\ latest = [d \in Defs |-> "none"]
    /\ culprit = NoDef
    /\ undone = <<>>
    /\ forgiven = FALSE

\* Faulty: each run of a phase starts anew.
BeginPhaseAnew ==
    /\ stack = <<>> /\ returned \in {"none", "ok"}
    /\ phase < Len(Script)
    /\ phase' = phase + 1
    /\ returned' = "none"
    /\ Push(Script[phase + 1])
    /\ state' = "RUNNING"
    /\ UNCHANGED <<myLastResult, myLastRollbackResult, history>>

\* The callable of the next phase: $.run(def). A party that broke has no next one.
BeginPhase ==
    /\ stack = <<>> /\ returned \in {"none", "ok"}
    /\ phase < Len(Script)
    /\ phase' = phase + 1
    /\ returned' = "none"
    /\ Push(Script[phase + 1])
    /\ state' = IF state = "NOT_RUNNING" THEN "RUNNING" ELSE state
    /\ UNCHANGED <<myLastResult, myLastRollbackResult, history>>

-----------------------------------------------------------------------------
(* runCollectionOfTasks: the tasks of a section *)

List == Tasks[Top.at][Top.def]

\* A task whose roles the host does not have is left out.
SkipTask ==
    /\ Busy /\ InSection /\ Top.next <= Len(List)
    /\ List[Top.next] \notin Here
    /\ Change([Top EXCEPT !.next = @ + 1])
    /\ UNCHANGED <<returned, results, phase, history>>

RunTask ==
    /\ Busy /\ InSection /\ Top.next <= Len(List)
    /\ List[Top.next] \in Here
    /\ Push(List[Top.next])
    /\ UNCHANGED <<returned, results, phase, history>>

\* Faulty: the next task is run all the same.
TaskEndsGoesOn ==
    /\ stack # <<>> /\ returned \in {"ok", "error"} /\ InSection
    /\ Change([Top EXCEPT !.next = @ + 1, !.last = returned])
    /\ returned' = "none"
    /\ UNCHANGED <<results, phase, history>>

\* Its result: one that is not ok ends the collection and all the others.
TaskEnds ==
    /\ stack # <<>> /\ returned \in {"ok", "error"} /\ InSection
    /\ Change(IF returned = "ok" THEN [Top EXCEPT !.next = @ + 1]
                                 ELSE [Top EXCEPT !.last = "error", !.at = "storing"])
    /\ returned' = "none"
    /\ UNCHANGED <<results, phase, history>>

\* Faulty: the before tasks are forgotten.
EndSectionSkipsBefore ==
    /\ Busy /\ InSection /\ Top.next > Len(List)
    /\ Change([Top EXCEPT !.next = 1, !.at = IF @ = "after" THEN "storing" ELSE "own"])
    /\ UNCHANGED <<returned, results, phase, history>>

\* On to the next section.
EndSection ==
    /\ Busy /\ InSection /\ Top.next > Len(List)
    /\ Change([Top EXCEPT !.next = 1,
                          !.at = CASE Top.at = "depends" -> "before"
                                   [] Top.at = "before" -> "own"
                                   [] Top.at = "after" -> "storing"])
    /\ UNCHANGED <<returned, results, phase, history>>

-----------------------------------------------------------------------------
(* runMe: the definition's own callables, if it is for this host *)

MoreCallables == Top.next <= Callables[Top.def] /\ Top.def \in Here

\* A callable returns a result that is ok.
CallableOk ==
    /\ Busy /\ Top.at = "own" /\ MoreCallables
    /\ Change([Top EXCEPT !.next = @ + 1, !.inner = 0])
    /\ UNCHANGED <<returned, results, phase, history>>

\* Its result is not ok, it throws an Exception, which Task.run turns into such
\* a result, or its dependencies are not there.
CallableFails ==
    /\ Busy /\ Top.at = "own" /\ MoreCallables
    /\ Change([Top EXCEPT !.mine = "error", !.last = "error", !.at = "storing"])
    /\ UNCHANGED <<returned, results, phase, history>>

\* It runs a task itself, ...
CallableRuns ==
    /\ Busy /\ Top.at = "own" /\ MoreCallables
    /\ Top.inner < MaxInner
    /\ \E d \in Inner[Top.def] : PushAfter([Top EXCEPT !.inner = @ + 1], d)
    /\ UNCHANGED <<returned, results, phase, history>>

\* ... and does with the result, or the Exception, what it likes.
InnerEnds ==
    /\ stack # <<>> /\ returned \in {"ok", "error", "BearException"} /\ Top.at = "own"
    /\ returned' = "none"
    /\ forgiven' = (forgiven \/ returned # "ok")
    /\ UNCHANGED <<stack, results, phase, latest, culprit, undone>>

\* An Error of the callable, or a BearException before it is called: the one
\* thing _runSingleTask does not turn into a result.
CallableThrows ==
    /\ Busy /\ Top.at = "own" /\ MoreCallables
    /\ \/ returned' = "Error"
       \/ returned' = "BearException" /\ Top.inner = 0
    /\ Pop
    /\ UNCHANGED <<results, phase, history>>

EndOwn ==
    /\ Busy /\ Top.at = "own" /\ ~MoreCallables
    /\ Change([Top EXCEPT !.next = 1, !.inner = 0, !.at = "after"])
    /\ UNCHANGED <<returned, results, phase, history>>

-----------------------------------------------------------------------------
(* The end of runWithDependencies *)

\* Faulty: whatever the state.
StoreResultAlways(mine) == myLastResult' = mine /\ UNCHANGED myLastRollbackResult

StoreResult(mine) ==
    IF state # "ROLLBACK"
      THEN myLastResult' = mine /\ UNCHANGED myLastRollbackResult
      ELSE myLastRollbackResult' = mine /\ UNCHANGED myLastResult

\* The own part went well or was not reached.
Store ==
    /\ Busy /\ Top.at = "storing" /\ Top.mine = "ok"
    /\ StoreResult("ok")
    /\ Change([Top EXCEPT !.at = "returning"])
    /\ UNCHANGED <<returned, state, phase, history>>

\* Faulty: last is not ok.
StoreFailureOfOthers ==
    /\ Busy /\ Top.at = "storing" /\ Top.last = "error"
    /\ StoreResult(Top.mine)
    /\ state' = "ROLLBACK"
    /\ culprit' = IF culprit = NoDef THEN Top.def ELSE culprit
    /\ IF Rollback[Top.def] = NoDef
         THEN /\ Change([Top EXCEPT !.at = "returning"])
              /\ undone' = undone
         ELSE /\ PushAfter([Top EXCEPT !.at = "rolling"], Rollback[Top.def])
              /\ undone' = IF RollingBack THEN undone ELSE Append(undone, Top.def)
    /\ UNCHANGED <<returned, phase, latest, forgiven>>

\* It did not: the rollback is run, if there is one.
StoreFailure ==
    /\ Busy /\ Top.at = "storing" /\ Top.mine = "error"
    /\ StoreResult("error")
    /\ state' = "ROLLBACK"
    /\ culprit' = IF culprit = NoDef THEN Top.def ELSE culprit
    /\ IF Rollback[Top.def] = NoDef
         THEN /\ Change([Top EXCEPT !.at = "returning"])
              /\ undone' = undone
         ELSE /\ PushAfter([Top EXCEPT !.at = "rolling"], Rollback[Top.def])
              /\ undone' = IF RollingBack THEN undone ELSE Append(undone, Top.def)
    /\ UNCHANGED <<returned, phase, latest, forgiven>>

\* Nobody looks at the rollback's result.
RollbackEnds ==
    /\ stack # <<>> /\ returned \in {"ok", "error"} /\ Top.at = "rolling"
    /\ Change([Top EXCEPT !.at = "returning"])
    /\ returned' = "none"
    /\ UNCHANGED <<results, phase, history>>

Return ==
    /\ Busy /\ Top.at = "returning"
    /\ Pop
    /\ returned' = Top.last
    /\ latest' = [latest EXCEPT ![Top.def] = Top.last]
    /\ UNCHANGED <<results, phase, culprit, undone, forgiven>>

\* A Throwable passes through a call, but a BearException not through a callable.
Unwind ==
    /\ stack # <<>>
    /\ \/ returned = "Error"
       \/ returned = "BearException" /\ Top.at # "own"
    /\ Pop
    /\ UNCHANGED <<returned, results, phase, history>>

-----------------------------------------------------------------------------
Next ==
    \/ BeginPhase
    \/ SkipTask \/ RunTask \/ TaskEnds \/ EndSection
    \/ CallableOk \/ CallableFails \/ CallableRuns \/ InnerEnds \/ CallableThrows \/ EndOwn
    \/ Store \/ StoreFailure \/ RollbackEnds \/ Return \/ Unwind

Spec == Init /\ [][Next]_vars

-----------------------------------------------------------------------------
Frames ==
    [def : Defs, at : Sections \cup {"own", "storing", "rolling", "returning"},
     next : Nat \ {0}, last : {"ok", "error"}, mine : {"ok", "error"}, inner : 0 .. MaxInner]

TypeOK ==
    /\ stack \in Seq(Frames)
    /\ returned \in {"none", "ok", "error", "BearException", "Error"}
    /\ state \in {"NOT_RUNNING", "RUNNING", "ROLLBACK"}
    /\ {myLastResult, myLastRollbackResult} \subseteq {"ok", "error"}
    /\ phase \in 0 .. Len(Script)
    /\ latest \in [Defs -> {"none", "ok", "error"}]
    /\ culprit \in Defs \cup {NoDef}
    /\ undone \in Seq(Defs)
    /\ forgiven \in BOOLEAN

\* What whenSessionComplete and GridBuilder read as the last result agrees with
\* what run has returned, although the calls that return after a failure and
\* the rollbacks store results, too: a party that breaks because a task was not
\* ok is counted as failed, one that does not is counted as ok unless a
\* callable went on after a failed run of its own.
FailureIsKept ==
    stack = <<>> =>
        /\ returned = "error" => myLastResult = "error"
        /\ returned = "ok" /\ ~forgiven => myLastResult = "ok"

\* When a part of a session has failed, no callable is called any more except
\* by a rollback, unless a callable went on after a failed run of its own.
NothingGoesOn ==
    state = "ROLLBACK" /\ ~forgiven /\ Busy /\ Top.at = "own" => RollingBack

\* Whenever a definition's own callables run, the tasks it depends on and its
\* before tasks have gone well, those that were run again by other tasks, and
\* those of a rollback, included.
PrerequisitesMet ==
    Busy /\ Top.at = "own" /\ ~forgiven =>
        \A section \in {"depends", "before"} :
        \A i \in 1 .. Len(Tasks[section][Top.def]) :
            Tasks[section][Top.def][i] \in Here
                => latest[Tasks[section][Top.def][i]] = "ok"

\* The one definition whose own part failed is rolled back, if it can be, and
\* once: neither the definitions that needed it are, nor the later phases, nor
\* what has gone well before.
RolledBackOnce ==
    ~forgiven => undone = IF culprit # NoDef /\ Rollback[culprit] # NoDef
                            THEN <<culprit>> ELSE <<>>
=============================================================================
