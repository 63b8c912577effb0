---------------------------- MODULE MCTerminals ----------------------------
(***************************************************************************)
(* The user starts a run on any one host and then another one on the same  *)
(* or on another host, or one run on all hosts.                            *)
(***************************************************************************)
EXTENDS Terminals

SmallPlans == {<<{first}, {second}>> : first, second \in Hosts} \cup {<<Hosts>>}
=============================================================================
