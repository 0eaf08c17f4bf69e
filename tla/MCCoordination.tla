--------------------------- MODULE MCCoordination ---------------------------
(* Two replicas contending for one lease.                                  *)
EXTENDS Coordination

CONSTANTS r1, r2

MCReplicas == {r1, r2}

(* Every property of the passing run excepts a lease row that was          *)
(* overwritten unread: the states that follow the first such write are not *)
(* expanded.                                                               *)
UpToOverwritten == "lease" \notin blind
=============================================================================
