------------------------- MODULE MCGlobalTaskRunner -------------------------
(***************************************************************************)
(* Instances of GlobalTaskRunner for TLC.                                  *)
(***************************************************************************)
EXTENDS GlobalTaskRunner

NoAwaits == [c \in Cells |-> {}]

AwaitOthers == [c \in Cells |-> {d \in Cells : d[1] = c[1] - 1}]
=============================================================================
