--------------------------- MODULE MCPublicAction ---------------------------
(***************************************************************************)
(* Two requests that repeat one another and one that reuses their key for  *)
(* another body.                                                           *)
(***************************************************************************)
EXTENDS PublicAction

CONSTANTS r1, r2, r3, d1, d2

TwoBodies == [r \in {r1, r2, r3} |-> IF r = r3 THEN d2 ELSE d1]

OneBody == [r \in {r1, r2} |-> d1]
=============================================================================
