------------------------------ MODULE MCOrdering ------------------------------
(* Instance of Ordering for TLC. *)
EXTENDS Ordering
=============================================================================
