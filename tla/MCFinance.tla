----------------------------- MODULE MCFinance -----------------------------
(***************************************************************************)
(* Instances of FinanceNode for TLC.                                       *)
(***************************************************************************)
EXTENDS FinanceNode, TLC

\* Nothing is claimed of what follows a row that was written over.
UpToRaced == ~raced

\* The holds are alike: all of them are the project's.
HoldSymmetry == Permutations(Holds)
=============================================================================
