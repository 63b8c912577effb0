------------------------- MODULE OnceEnteredCallable -------------------------
(***************************************************************************)
(* bear.main.phaser.OnceEnteredCallable: several threads offer a callable  *)
(* each, at most one of the callables is to run and every caller is to get *)
(* its outcome through one shared future.  The guard is a ReentrantLock    *)
(* taken with tryLock and a flag; each field access is a step of its own.  *)
(*                                                                         *)
(* A thread that finds the flag set returns while it still holds the lock  *)
(* (lines 33-35), so the lock is never free again; what keeps the class    *)
(* correct in spite of that is part of the invariant below.                *)
(***************************************************************************)
EXTENDS Integers, Sequences

CONSTANTS
    Threads,        \* the pool threads that call runOnce
    NoThread,       \* no thread: the initial lock holder and owner
    Pending,        \* the future has no outcome yet
    MaxCalls,       \* bound: how often a pool thread is reused for a call
    Errors,         \* BOOLEAN: the callable may throw an Error
    GetTimesOut     \* BOOLEAN: callers use get(timeout) and may give up

ASSUME ConstantsAssumption ==
    /\ NoThread \notin Threads
    /\ Pending \notin Threads \X {"value", "exception"}
    /\ MaxCalls \in Nat \ {0}
    /\ Errors \in BOOLEAN
    /\ GetTimesOut \in BOOLEAN

VARIABLES
    pc,             \* where each thread stands in runOnce, or "idle"
    lockHolder,     \* the thread that holds the ReentrantLock
    holds,          \* its hold count
    owner,          \* the field owner
    called,         \* the volatile flag called
    future,         \* Pending, or the outcome and the thread that produced it
    got,            \* what each thread's latest get() returned
    calls,          \* number of runOnce calls each thread has made
    died,           \* history: a callable ended with an Error
    executions      \* history: the threads that ran their callable, in order

vars == <<pc, lockHolder, holds, owner, called, future, got, calls, died, executions>>

Outcomes == Threads \X {"value", "exception"}

Init ==
    /\ pc = [t \in Threads |-> "idle"]
    /\ lockHolder = NoThread
    /\ holds = 0
    /\ owner = NoThread
    /\ called = FALSE
    /\ future = Pending
    /\ got = [t \in Threads |-> Pending]
    /\ calls = [t \in Threads |-> 0]
    /\ died = FALSE
    /\ executions = <<>>

Goto(t, from, to) ==
    /\ pc[t] = from
    /\ pc' = [pc EXCEPT ![t] = to]

\* lock.tryLock() succeeds: the lock is free, or this thread holds it already.
TryLockSucceeds(t) ==
    /\ Goto(t, "idle", "locked")
    /\ calls[t] < MaxCalls
    /\ lockHolder \in {NoThread, t}
    /\ lockHolder' = t
    /\ holds' = holds + 1
    /\ calls' = [calls EXCEPT ![t] = @ + 1]
    /\ UNCHANGED <<owner, called, future, got, died, executions>>

\* lock.tryLock() fails: runOnce returns the shared future at once.
TryLockFails(t) ==
    /\ Goto(t, "idle", "returned")
    /\ calls[t] < MaxCalls
    /\ lockHolder \notin {NoThread, t}
    /\ calls' = [calls EXCEPT ![t] = @ + 1]
    /\ UNCHANGED <<lockHolder, holds, owner, called, future, got, died, executions>>

SetOwner(t) ==
    /\ Goto(t, "locked", "owning")
    /\ owner' = t
    /\ UNCHANGED <<lockHolder, holds, called, future, got, calls, died, executions>>

\* Faulty: returns whatever the flag says.
ReturnAlways(t) ==
    /\ Goto(t, "owning", "returned")
    /\ UNCHANGED <<lockHolder, holds, owner, called, future, got, calls, died, executions>>

\* The flag is set: return the future, and keep the lock.
ReturnCalled(t) ==
    /\ Goto(t, "owning", "returned")
    /\ called
    /\ UNCHANGED <<lockHolder, holds, owner, called, future, got, calls, died, executions>>

\* Faulty: does not look at the flag.
StartUnchecked(t) ==
    /\ Goto(t, "owning", "running")
    /\ executions' = Append(executions, t)
    /\ UNCHANGED <<lockHolder, holds, owner, called, future, got, calls, died>>

StartCallable(t) ==
    /\ Goto(t, "owning", "running")
    /\ ~called
    /\ executions' = Append(executions, t)
    /\ UNCHANGED <<lockHolder, holds, owner, called, future, got, calls, died>>

\* Faulty: an Exception is swallowed, as without the catch clause's body.
SettleValueOnly(t) ==
    /\ Goto(t, "running", "settled")
    /\ future' \in {future, <<t, "value">>}
    /\ UNCHANGED <<lockHolder, holds, owner, called, got, calls, died, executions>>

\* callable.call() ends and its value or its Exception goes to the future.
Settle(t) ==
    /\ Goto(t, "running", "settled")
    /\ \E kind \in {"value", "exception"} :
          future' = IF future = Pending THEN <<t, kind>> ELSE future
    /\ UNCHANGED <<lockHolder, holds, owner, called, got, calls, died, executions>>

\* callable.call() throws an Error: no catch clause applies, the future stays.
ThrowError(t) ==
    /\ Errors
    /\ Goto(t, "running", "settled")
    /\ died' = TRUE
    /\ UNCHANGED <<lockHolder, holds, owner, called, future, got, calls, executions>>

\* Faulty: the flag is never set.
CalledForgotten(t) ==
    /\ Goto(t, "settled", "leaving")
    /\ UNCHANGED <<lockHolder, holds, owner, called, future, got, calls, died, executions>>

SetCalled(t) ==
    /\ Goto(t, "settled", "leaving")
    /\ called' = TRUE
    /\ UNCHANGED <<lockHolder, holds, owner, future, got, calls, died, executions>>

\* lock.unlock(), and the return; after an Error the thread's task dies here.
Unlock(t) ==
    /\ Goto(t, "leaving", IF future = Pending THEN "idle" ELSE "returned")
    /\ holds' = holds - 1
    /\ lockHolder' = IF holds = 1 THEN NoThread ELSE lockHolder
    /\ UNCHANGED <<owner, called, future, got, calls, died, executions>>

\* The caller's future.get(); the pool may then reuse the thread.
Get(t) ==
    /\ Goto(t, "returned", "idle")
    /\ future # Pending
    /\ got' = [got EXCEPT ![t] = future]
    /\ UNCHANGED <<lockHolder, holds, owner, called, future, calls, died, executions>>

\* future.get(timeout) gives up.
GetTimeout(t) ==
    /\ GetTimesOut
    /\ Goto(t, "returned", "idle")
    /\ future = Pending
    /\ UNCHANGED <<lockHolder, holds, owner, called, future, got, calls, died, executions>>

\* amIOwner(thread)
AmIOwner(t) == owner = t

\* What a thread does once it has called runOnce.
Step(t) ==
    \/ SetOwner(t) \/ ReturnCalled(t) \/ StartCallable(t)
    \/ Settle(t) \/ ThrowError(t) \/ SetCalled(t) \/ Unlock(t)
    \/ Get(t) \/ GetTimeout(t)

Next == \E t \in Threads : TryLockSucceeds(t) \/ TryLockFails(t) \/ Step(t)

\* The scheduler runs every thread and every callable ends; nobody is obliged
\* to call runOnce, and no get() is obliged to time out.
Fairness ==
    \A t \in Threads : WF_vars(Step(t) /\ ~(pc[t] = "returned" /\ future = Pending))

Spec == Init /\ [][Next]_vars

FairSpec == Spec /\ Fairness

-----------------------------------------------------------------------------
Inside == {"locked", "owning", "running", "settled", "leaving"}

TypeOK ==
    /\ pc \in [Threads -> Inside \cup {"idle", "returned"}]
    /\ lockHolder \in Threads \cup {NoThread}
    /\ holds \in Nat
    /\ owner \in Threads \cup {NoThread}
    /\ called \in BOOLEAN
    /\ future \in Outcomes \cup {Pending}
    /\ got \in [Threads -> Outcomes \cup {Pending}]
    /\ calls \in [Threads -> Nat]
    /\ died \in BOOLEAN
    /\ executions \in Seq(Threads)

\* However the calls interleave, and although the lock is left held by a late
\* caller, no second callable ever runs (lines 30-46).
AtMostOneExecution == Len(executions) <= 1

\* All callers see one and the same outcome, that of the one thread whose
\* callable ran: nobody gets the value of a callable that lost the race.
SharedResult ==
    \A t \in Threads : got[t] # Pending =>
        /\ got[t] = future
        /\ executions = <<got[t][1]>>

\* A caller that waits on the future waits for a thread that has the lock and
\* is on its way to run or running the callable; the only exception is a
\* callable that died of an Error, after which nobody completes the future.
NobodyWaitsForNothing ==
    \A t \in Threads : pc[t] = "returned" /\ future = Pending =>
        \/ \E u \in Threads : pc[u] \in {"locked", "owning", "running"}
        \/ died

\* Every call of runOnce and the get() on its future end, in whatever order the
\* callers come and without the help of a timeout, unless a callable has died
\* of an Error.
EveryCallerServed ==
    \A t \in Threads : pc[t] # "idle" ~> pc[t] = "idle" \/ died

\* The meaning ComputingGridTest.java:212 gives to amIOwner: the owner is the
\* thread that ran its callable.
OwnerRanItsCallable ==
    \A t \in Threads : pc[t] = "returned" /\ AmIOwner(t) => executions = <<t>>
=============================================================================
