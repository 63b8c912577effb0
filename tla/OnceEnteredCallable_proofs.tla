--------------------- MODULE OnceEnteredCallable_proofs ---------------------
(***************************************************************************)
(* OnceEnteredCallable for any set of threads and any number of calls.     *)
(* The inductive invariant says who may be where while the flag is not     *)
(* set: the lock then really excludes the others, because only a thread    *)
(* that found the flag set leaves it held.                                 *)
(***************************************************************************)
EXTENDS MCOnceEnteredCallable, TLAPS

\* The lock: held exactly when somebody is inside runOnce, as long as the flag
\* is not set; leaked or taken twice only afterwards.
LockInv ==
    /\ holds = 0 <=> lockHolder = NoThread
    /\ \A t \in Threads : pc[t] \in Inside => lockHolder = t
    /\ holds > 1 => called
    /\ \A t \in Threads : lockHolder = t /\ pc[t] \notin Inside => called

\* Who executes, and what that means for the flag and the future.
RunnerInv ==
    /\ executions = <<>> => ~called /\ future = Pending /\ ~died
    /\ \A t \in Threads :
         /\ pc[t] = "running" => ~called /\ future = Pending /\ ~died /\ executions = <<t>>
         /\ pc[t] = "settled" => ~called /\ executions = <<t>> /\ (future # Pending \/ died)
         /\ pc[t] = "leaving" => called
    /\ ~called /\ executions # <<>> => \E t \in Threads : pc[t] \in {"running", "settled"}
    /\ called => future # Pending \/ died

\* The outcome is the outcome of the one execution, and what callers received.
OutcomeInv ==
    /\ AtMostOneExecution
    /\ future # Pending => executions = <<future[1]>>
    /\ \A t \in Threads : got[t] # Pending => got[t] = future

\* Somebody has the lock while a caller waits.
WaitInv ==
    \A t \in Threads :
        pc[t] = "returned" /\ future = Pending /\ ~died => lockHolder # NoThread

IInv == TypeOK /\ LockInv /\ RunnerInv /\ OutcomeInv /\ WaitInv

LEMMA InitInv == Init => IInv
<1>1. SUFFICES ASSUME Init PROVE IInv
  OBVIOUS
<1>2. TypeOK
  <2>1. executions \in Seq(Threads)
    BY <1>1 DEF Init
  <2>2. QED
    BY <1>1, <2>1 DEF Init, TypeOK, Inside
<1>3. LockInv
  BY <1>1, ConstantsAssumption DEF ConstantsAssumption, Init, LockInv, Inside
<1>4. RunnerInv /\ OutcomeInv /\ WaitInv
  BY <1>1 DEF Init, RunnerInv, OutcomeInv, WaitInv, AtMostOneExecution
<1>5. QED
  BY <1>2, <1>3, <1>4 DEF IInv

LEMMA TypeStep == TypeOK /\ LockInv /\ [Next]_vars => TypeOK'
<1>1. SUFFICES ASSUME TypeOK, LockInv, [Next]_vars PROVE TypeOK'
  OBVIOUS
<1>. USE ConstantsAssumption DEF ConstantsAssumption, TypeOK, Inside, Outcomes, Goto
<1>2. CASE UNCHANGED vars
  BY <1>1, <1>2 DEF vars
<1>3. ASSUME NEW t \in Threads, TryLockSucceeds(t) PROVE TypeOK'
  BY <1>1, <1>3 DEF TryLockSucceeds
<1>4. ASSUME NEW t \in Threads, TryLockFails(t) PROVE TypeOK'
  BY <1>1, <1>4 DEF TryLockFails
<1>5. ASSUME NEW t \in Threads, SetOwner(t) PROVE TypeOK'
  BY <1>1, <1>5 DEF SetOwner
<1>6. ASSUME NEW t \in Threads, ReturnCalled(t) PROVE TypeOK'
  BY <1>1, <1>6 DEF ReturnCalled
<1>7. ASSUME NEW t \in Threads, StartCallable(t) PROVE TypeOK'
  BY <1>1, <1>7 DEF StartCallable
<1>8. ASSUME NEW t \in Threads, Settle(t) PROVE TypeOK'
  BY <1>1, <1>8 DEF Settle
<1>9. ASSUME NEW t \in Threads, ThrowError(t) PROVE TypeOK'
  BY <1>1, <1>9 DEF ThrowError
<1>10. ASSUME NEW t \in Threads, SetCalled(t) PROVE TypeOK'
  BY <1>1, <1>10 DEF SetCalled
<1>11. ASSUME NEW t \in Threads, Unlock(t) PROVE TypeOK'
  <2>1. holds \in Nat \ {0}
    BY <1>1, <1>11 DEF Unlock, LockInv
  <2>2. QED
    BY <1>1, <1>11, <2>1 DEF Unlock
<1>12. ASSUME NEW t \in Threads, Get(t) PROVE TypeOK'
  BY <1>1, <1>12 DEF Get
<1>13. ASSUME NEW t \in Threads, GetTimeout(t) PROVE TypeOK'
  BY <1>1, <1>13 DEF GetTimeout
<1>14. QED
  BY <1>1, <1>2, <1>3, <1>4, <1>5, <1>6, <1>7, <1>8, <1>9, <1>10, <1>11, <1>12, <1>13
  DEF Next, Step

\* The lock is released only by the thread that holds it, and it is left held
\* only when the flag is set.
LEMMA LockStep == IInv /\ [Next]_vars => LockInv'
<1>1. SUFFICES ASSUME IInv, [Next]_vars PROVE LockInv'
  OBVIOUS
<1>. USE ConstantsAssumption DEF ConstantsAssumption, TypeOK, Inside, Goto, LockInv
<1>2. CASE UNCHANGED vars
  BY <1>1, <1>2 DEF vars, IInv
<1>3. ASSUME NEW t \in Threads, TryLockSucceeds(t) PROVE LockInv'
  BY <1>1, <1>3 DEF TryLockSucceeds, IInv
<1>4. ASSUME NEW t \in Threads, TryLockFails(t) PROVE LockInv'
  BY <1>1, <1>4 DEF TryLockFails, IInv
<1>5. ASSUME NEW t \in Threads, SetOwner(t) PROVE LockInv'
  BY <1>1, <1>5 DEF SetOwner, IInv
<1>6. ASSUME NEW t \in Threads, ReturnCalled(t) PROVE LockInv'
  BY <1>1, <1>6 DEF ReturnCalled, IInv
<1>7. ASSUME NEW t \in Threads, StartCallable(t) PROVE LockInv'
  BY <1>1, <1>7 DEF StartCallable, IInv
<1>8. ASSUME NEW t \in Threads, Settle(t) PROVE LockInv'
  BY <1>1, <1>8 DEF Settle, IInv
<1>9. ASSUME NEW t \in Threads, ThrowError(t) PROVE LockInv'
  BY <1>1, <1>9 DEF ThrowError, IInv
<1>10. ASSUME NEW t \in Threads, SetCalled(t) PROVE LockInv'
  BY <1>1, <1>10 DEF SetCalled, IInv
<1>11. ASSUME NEW t \in Threads, Unlock(t) PROVE LockInv'
  <2>1. called /\ lockHolder = t /\ holds \in Nat \ {0}
    BY <1>1, <1>11 DEF Unlock, IInv, RunnerInv
  <2>2. QED
    BY <1>1, <1>11, <2>1 DEF Unlock, IInv
<1>12. ASSUME NEW t \in Threads, Get(t) PROVE LockInv'
  BY <1>1, <1>12 DEF Get, IInv
<1>13. ASSUME NEW t \in Threads, GetTimeout(t) PROVE LockInv'
  BY <1>1, <1>13 DEF GetTimeout, IInv
<1>14. QED
  BY <1>1, <1>2, <1>3, <1>4, <1>5, <1>6, <1>7, <1>8, <1>9, <1>10, <1>11, <1>12, <1>13
  DEF Next, Step

\* A thread that is about to call its callable is the first to do so: an earlier
\* one would still be inside, and would hold the lock.
LEMMA FirstToStart ==
  ASSUME IInv, NEW t \in Threads, pc[t] = "owning", ~called
  PROVE  executions = <<>> /\ future = Pending /\ ~died
<1>1. \A u \in Threads : pc[u] \in {"running", "settled"} => FALSE
  BY DEF IInv, LockInv, Inside
<1>2. QED
  BY <1>1 DEF IInv, RunnerInv

LEMMA RunnerStep == IInv /\ [Next]_vars => RunnerInv'
<1>1. SUFFICES ASSUME IInv, [Next]_vars PROVE RunnerInv'
  OBVIOUS
<1>. USE ConstantsAssumption DEF ConstantsAssumption, TypeOK, Goto, RunnerInv
<1>2. CASE UNCHANGED vars
  BY <1>1, <1>2 DEF vars, IInv
<1>3. ASSUME NEW t \in Threads, TryLockSucceeds(t) PROVE RunnerInv'
  BY <1>1, <1>3 DEF TryLockSucceeds, IInv
<1>4. ASSUME NEW t \in Threads, TryLockFails(t) PROVE RunnerInv'
  BY <1>1, <1>4 DEF TryLockFails, IInv
<1>5. ASSUME NEW t \in Threads, SetOwner(t) PROVE RunnerInv'
  BY <1>1, <1>5 DEF SetOwner, IInv
<1>6. ASSUME NEW t \in Threads, ReturnCalled(t) PROVE RunnerInv'
  BY <1>1, <1>6 DEF ReturnCalled, IInv
<1>7. ASSUME NEW t \in Threads, StartCallable(t) PROVE RunnerInv'
  <2>1. executions = <<>> /\ future = Pending /\ ~died /\ ~called
    BY <1>1, <1>7, FirstToStart DEF StartCallable
  <2>2. executions' = <<t>>
    BY <1>7, <2>1 DEF StartCallable
  <2>3. \A u \in Threads : pc[u] \notin {"running", "settled", "leaving"}
    BY <1>1, <2>1 DEF IInv
  <2>4. QED
    BY <1>1, <1>7, <2>1, <2>2, <2>3 DEF StartCallable, IInv
<1>8. ASSUME NEW t \in Threads, Settle(t) PROVE RunnerInv'
  <2>1. future = Pending /\ ~called /\ ~died /\ executions = <<t>> /\ future' # Pending
    BY <1>1, <1>8 DEF Settle, IInv
  <2>2. \A u \in Threads : pc[u] \in {"running", "settled", "leaving"} => u = t
    BY <1>1, <1>8 DEF Settle, IInv, LockInv, Inside
  <2>3. QED
    BY <1>1, <1>8, <2>1, <2>2 DEF Settle, IInv
<1>9. ASSUME NEW t \in Threads, ThrowError(t) PROVE RunnerInv'
  <2>1. \A u \in Threads : pc[u] \in {"running", "settled", "leaving"} => u = t
    BY <1>1, <1>9 DEF ThrowError, IInv, LockInv, Inside
  <2>2. ~called /\ ~called' /\ executions' = <<t>> /\ died' /\ pc'[t] = "settled"
    BY <1>1, <1>9 DEF ThrowError, IInv
  <2>3. executions' # <<>>
    BY <2>2
  <2>4. QED
    BY <1>1, <1>9, <2>1, <2>2, <2>3 DEF ThrowError, IInv
<1>10. ASSUME NEW t \in Threads, SetCalled(t) PROVE RunnerInv'
  <2>1. \A u \in Threads : pc[u] \in {"running", "settled", "leaving"} => u = t
    BY <1>1, <1>10 DEF SetCalled, IInv, LockInv, Inside
  <2>2. QED
    BY <1>1, <1>10, <2>1 DEF SetCalled, IInv
<1>11. ASSUME NEW t \in Threads, Unlock(t) PROVE RunnerInv'
  BY <1>1, <1>11 DEF Unlock, IInv
<1>12. ASSUME NEW t \in Threads, Get(t) PROVE RunnerInv'
  BY <1>1, <1>12 DEF Get, IInv
<1>13. ASSUME NEW t \in Threads, GetTimeout(t) PROVE RunnerInv'
  BY <1>1, <1>13 DEF GetTimeout, IInv
<1>14. QED
  BY <1>1, <1>2, <1>3, <1>4, <1>5, <1>6, <1>7, <1>8, <1>9, <1>10, <1>11, <1>12, <1>13
  DEF Next, Step

\* Only three actions touch the execution, the future or what was received.
LEMMA OutcomeStep == IInv /\ [Next]_vars => OutcomeInv'
<1>1. SUFFICES ASSUME IInv, [Next]_vars PROVE OutcomeInv'
  OBVIOUS
<1>. USE ConstantsAssumption DEF ConstantsAssumption, TypeOK, Goto, OutcomeInv, AtMostOneExecution, Outcomes
<1>2. CASE UNCHANGED <<executions, future, got>>
  BY <1>1, <1>2 DEF IInv
<1>3. ASSUME NEW t \in Threads, StartCallable(t) PROVE OutcomeInv'
  <2>1. executions = <<>> /\ future = Pending
    BY <1>1, <1>3, FirstToStart DEF StartCallable
  <2>2. executions' = <<t>>
    BY <1>3, <2>1 DEF StartCallable
  <2>3. QED
    BY <1>1, <1>3, <2>1, <2>2 DEF StartCallable, IInv
<1>4. ASSUME NEW t \in Threads, Settle(t) PROVE OutcomeInv'
  <2>1. future = Pending /\ executions = <<t>>
    BY <1>1, <1>4 DEF Settle, IInv, RunnerInv
  <2>2. future'[1] = t /\ executions' = <<t>>
    BY <1>4, <2>1 DEF Settle
  <2>3. \A u \in Threads : got'[u] = Pending
    BY <1>1, <1>4, <2>1 DEF Settle, IInv
  <2>4. QED
    BY <2>2, <2>3
<1>5. ASSUME NEW t \in Threads, Get(t) PROVE OutcomeInv'
  BY <1>1, <1>5 DEF Get, IInv
<1>6. QED
  BY <1>1, <1>2, <1>3, <1>4, <1>5
  DEF Next, Step, vars, TryLockSucceeds, TryLockFails, SetOwner, ReturnCalled, ThrowError,
      SetCalled, Unlock, GetTimeout

\* The lock is not released before the future has its outcome.
LEMMA WaitStep == IInv /\ [Next]_vars => WaitInv'
<1>1. SUFFICES ASSUME IInv, [Next]_vars PROVE WaitInv'
  OBVIOUS
<1>. USE ConstantsAssumption DEF ConstantsAssumption, TypeOK, Goto, WaitInv
<1>2. ASSUME NEW t \in Threads, Unlock(t) PROVE WaitInv'
  <2>1. future # Pending \/ died
    BY <1>1, <1>2 DEF Unlock, IInv, RunnerInv
  <2>2. QED
    BY <1>2, <2>1 DEF Unlock
<1>3. ASSUME NEW t \in Threads, TryLockFails(t) PROVE WaitInv'
  BY <1>1, <1>3 DEF TryLockFails, IInv
<1>4. ASSUME NEW t \in Threads, TryLockSucceeds(t) PROVE WaitInv'
  BY <1>1, <1>4 DEF TryLockSucceeds, IInv
<1>5. ASSUME NEW t \in Threads, ReturnCalled(t) PROVE WaitInv'
  <2>1. future # Pending \/ died
    BY <1>1, <1>5 DEF ReturnCalled, IInv, RunnerInv
  <2>2. QED
    BY <1>5, <2>1 DEF ReturnCalled
<1>6. ASSUME NEW t \in Threads,
             SetOwner(t) \/ StartCallable(t) \/ SetCalled(t) \/ Get(t) \/ GetTimeout(t)
      PROVE  WaitInv'
  BY <1>1, <1>6 DEF SetOwner, StartCallable, SetCalled, Get, GetTimeout, IInv
<1>7. ASSUME NEW t \in Threads, Settle(t) \/ ThrowError(t) PROVE WaitInv'
  <2>1. future' # Pending \/ died'
    BY <1>1, <1>7 DEF Settle, ThrowError, IInv, RunnerInv
  <2>2. QED
    BY <2>1
<1>8. CASE UNCHANGED vars
  BY <1>1, <1>8 DEF IInv, vars
<1>9. QED
  BY <1>1, <1>2, <1>3, <1>4, <1>5, <1>6, <1>7, <1>8 DEF Next, Step

\* The inductive invariant holds throughout.
THEOREM Invariant == Spec => []IInv
<1>1. IInv /\ [Next]_vars => IInv'
  BY TypeStep, LockStep, RunnerStep, OutcomeStep, WaitStep DEF IInv
<1>2. QED
  BY InitInv, <1>1, PTL DEF Spec

\* Every field keeps to its type; the hold count never becomes negative, that
\* is, unlock() (line 45) never throws IllegalMonitorStateException.
THEOREM TypeCorrect == Spec => []TypeOK
<1>1. IInv => TypeOK
  BY DEF IInv
<1>2. QED
  BY Invariant, <1>1, PTL

\* At most one of the callables that any number of threads offer is ever run.
THEOREM RunsOnce == Spec => []AtMostOneExecution
<1>1. IInv => AtMostOneExecution
  BY DEF IInv, OutcomeInv
<1>2. QED
  BY Invariant, <1>1, PTL

\* Everybody receives the outcome of that one callable.
THEOREM OneOutcome == Spec => []SharedResult
<1>1. IInv => SharedResult
  BY DEF IInv, OutcomeInv, SharedResult
<1>2. QED
  BY Invariant, <1>1, PTL

\* A caller that waits waits for somebody who is about to complete the future,
\* unless the callable has died of an Error.
THEOREM WaitsForSomebody == Spec => []NobodyWaitsForNothing
<1>1. ASSUME IInv PROVE NobodyWaitsForNothing
  <2>1. SUFFICES ASSUME NEW t \in Threads, pc[t] = "returned", future = Pending, ~died
                 PROVE  \E u \in Threads : pc[u] \in {"locked", "owning", "running"}
    BY DEF NobodyWaitsForNothing
  <2>2. PICK u \in Threads : lockHolder = u
    BY <1>1, <2>1 DEF IInv, WaitInv, TypeOK
  <2>3. ~called
    BY <1>1, <2>1 DEF IInv, RunnerInv
  <2>4. pc[u] \in Inside
    BY <1>1, <2>2, <2>3 DEF IInv, LockInv
  <2>5. pc[u] \notin {"settled", "leaving"}
    BY <1>1, <2>1, <2>3 DEF IInv, RunnerInv
  <2>6. QED
    BY <2>4, <2>5 DEF Inside
<1>2. QED
  BY Invariant, <1>1, PTL
-----------------------------------------------------------------------------

\* The step to prove for the refinement: an execution chooses the runner, a
\* settled future is the result, get() is a delivery, and nothing else shows.
LEMMA PromiseStep == IInv /\ [Next]_vars => [Promise!Next]_(Promise!promiseVars)
<1>1. SUFFICES ASSUME IInv, [Next]_vars
               PROVE  Promise!Next \/ UNCHANGED <<executions, future, got>>
  BY DEF Promise!promiseVars
<1>. USE ConstantsAssumption DEF ConstantsAssumption, TypeOK, Goto
<1>2. ASSUME NEW t \in Threads, StartCallable(t) PROVE Promise!Next
  <2>1. executions = <<>>
    BY <1>1, <1>2, FirstToStart DEF StartCallable
  <2>2. executions' = <<t>> /\ Head(executions') = t /\ executions' # <<>>
    BY <1>2, <2>1 DEF StartCallable
  <2>3. Promise!Choose(t)
    BY <1>2, <2>1, <2>2 DEF StartCallable, Promise!Choose
  <2>4. QED
    BY <2>3 DEF Promise!Next
<1>3. ASSUME NEW t \in Threads, Settle(t) PROVE Promise!Next
  <2>1. future = Pending /\ executions = <<t>>
    BY <1>1, <1>3 DEF Settle, IInv, RunnerInv
  <2>2. executions # <<>> /\ Head(executions) = t
    BY <2>1
  <2>3. Promise!Finish
    BY <1>3, <2>1, <2>2 DEF Settle, Promise!Finish
  <2>4. QED
    BY <2>3 DEF Promise!Next
<1>4. ASSUME NEW t \in Threads, Get(t) PROVE Promise!Next
  <2>1. Promise!Deliver(t)
    BY <1>4 DEF Get, Promise!Deliver
  <2>2. QED
    BY <2>1 DEF Promise!Next
<1>5. QED
  BY <1>1, <1>2, <1>3, <1>4
  DEF Next, Step, vars, TryLockSucceeds, TryLockFails, SetOwner, ReturnCalled, ThrowError,
      SetCalled, Unlock, GetTimeout

\* runOnce implements the promise, for every number of threads and calls, with
\* or without Errors and timeouts.
THEOREM Implementation == Spec => ImplementsPromise
<1>1. Init => Promise!Init
  BY DEF Init, Promise!Init
<1>2. QED
  BY Invariant, PromiseStep, <1>1, PTL DEF Spec, ImplementsPromise, Promise!Spec
=============================================================================
