------------------------------- MODULE MCVmm --------------------------------
(* VmmService on a small instance: see the cfg of each run for its bounds. *)
EXTENDS VmmService

CONSTANTS c1, c2, w1

OneCaller == {c1}
TwoCallers == {c1, c2}
OneWorker == {w1}
=============================================================================
