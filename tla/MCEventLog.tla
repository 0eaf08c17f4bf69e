----------------------------- MODULE MCEventLog -----------------------------
(***************************************************************************)
(* Two writers beside the worker's truncation, and a node that follows one *)
(* of two topics.                                                          *)
(***************************************************************************)
EXTENDS EventLog

CONSTANTS w1, w2, a, b, n1

OneFollower == [n \in {n1} |-> {a}]
=============================================================================
