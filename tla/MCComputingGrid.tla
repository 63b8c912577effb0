-------------------------- MODULE MCComputingGrid --------------------------
(***************************************************************************)
(* Instances of ComputingGrid for TLC, and the refinement mapping onto     *)
(* GridPromise.                                                            *)
(***************************************************************************)
EXTENDS ComputingGrid

\* Task.awaitOthers: a cell waits for the whole previous row.
AwaitOthers == [c \in Cells |-> {d \in Cells : d[1] = c[1] - 1}]

Promise == INSTANCE GridPromise WITH
    cell <- fut,
    over <- allFinished # <<>> /\ escaped = {}

\* The grid implements the promise: the cells are decided in order and for good,
\* and the end is declared when all are, provided no Throwable has escaped the
\* catch clause of startParties.
ImplementsPromise == Promise!Spec
=============================================================================
