----------------------------- MODULE OncePromise -----------------------------
(***************************************************************************)
(* What OnceEnteredCallable promises its callers, without locks and flags: *)
(* one thread is chosen, its callable yields one outcome, and everybody    *)
(* who asks receives that outcome.                                         *)
(***************************************************************************)
CONSTANTS Threads, NoThread, Pending

VARIABLES
    runner,         \* the thread chosen to run its callable
    result,         \* Pending, or the outcome and who produced it
    delivered       \* what each thread has received

promiseVars == <<runner, result, delivered>>

Init ==
    /\ runner = NoThread
    /\ result = Pending
    /\ delivered = [t \in Threads |-> Pending]

Choose(t) ==
    /\ runner = NoThread
    /\ runner' = t
    /\ UNCHANGED <<result, delivered>>

Finish ==
    /\ runner # NoThread
    /\ result = Pending
    /\ \E kind \in {"value", "exception"} : result' = <<runner, kind>>
    /\ UNCHANGED <<runner, delivered>>

Deliver(t) ==
    /\ result # Pending
    /\ delivered' = [delivered EXCEPT ![t] = result]
    /\ UNCHANGED <<runner, result>>

Next == Finish \/ \E t \in Threads : Choose(t) \/ Deliver(t)

Spec == Init /\ [][Next]_promiseVars
=============================================================================
