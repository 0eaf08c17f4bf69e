----------------------------- MODULE MCSupervisor -----------------------------
(* Instance of Supervisor for TLC: three modules of one kind, one of another. *)
EXTENDS Supervisor, TLC

CONSTANTS a, b, c, d, storage, vmm

KindOf == [m \in Modules |-> IF m = d THEN vmm ELSE storage]

Symmetry == Permutations({a, b, c})
=============================================================================
