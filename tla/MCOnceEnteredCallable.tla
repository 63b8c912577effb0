----------------------- MODULE MCOnceEnteredCallable -----------------------
(***************************************************************************)
(* Instances of OnceEnteredCallable for TLC, and the refinement mapping    *)
(* onto OncePromise.                                                       *)
(***************************************************************************)
EXTENDS OnceEnteredCallable

Promise == INSTANCE OncePromise WITH
    runner    <- IF executions = <<>> THEN NoThread ELSE Head(executions),
    result    <- future,
    delivered <- got

\* runOnce implements the promise: one runner, one outcome, and deliveries of
\* that outcome only.
ImplementsPromise == Promise!Spec
=============================================================================
