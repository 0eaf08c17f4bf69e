---------------------------- MODULE FinanceNode ----------------------------
(***************************************************************************)
(* How the money actions of Finance meet in one storage.                   *)
(*                                                                         *)
(* An action reads its rows, decides, and commits what it decided          *)
(* (run_action).  Nothing keeps two actions apart: each write carries the  *)
(* revision of a second read made by the write itself, so an action that   *)
(* decided on older rows either meets a conflict and is refused, or writes *)
(* what it decided over what the others committed since.  A balance is     *)
(* written whole by set_balance, a counter field by field, a document      *)
(* whole.                                                                  *)
(*                                                                         *)
(* Most actions are one step here: one that no other overtakes has the     *)
(* rows to itself.  One at a time may be slow: it decides on the rows as   *)
(* they are (Decide), others commit before it (Overtaken, then their       *)
(* steps), and it commits on top of them or is refused.  What a slow       *)
(* action changes and nobody else did is merged; `raced` records that it   *)
(* wrote over a row, and from then on nothing is claimed.                  *)
(***************************************************************************)
EXTENDS Finance

CONSTANTS
    MaxBehind,      \* bound on the actions that overtake a slow one
    MaxEarlier      \* bound on the requests before a slow one

VARIABLES
    phase,          \* of the slow action: "none", "decided" or "overtaken"
    before,         \* the rows it read
    after,          \* the rows as it decided them
    behind,         \* how many actions overtook it
    raced           \* history: an action wrote over what another one changed

Rows == [wallets |-> wallets, holds |-> holds, pools |-> pools,
         reservations |-> reservations, debits |-> debits, payouts |-> payouts,
         locks |-> locks, project |-> project, budget |-> budget,
         applied |-> applied, external |-> external]

slow == <<phase, before, after, behind>>

nodeVars == <<vars, slow, raced>>

\* There is no slow action.
NoRows == <<>>

NodeInit ==
    /\ Init
    /\ phase = "none"
    /\ before = NoRows /\ after = NoRows
    /\ behind = 0
    /\ raced = FALSE

\* The rows are those of the record.
SetRows(rows) ==
    /\ wallets' = rows.wallets
    /\ holds' = rows.holds
    /\ pools' = rows.pools
    /\ reservations' = rows.reservations
    /\ debits' = rows.debits
    /\ payouts' = rows.payouts
    /\ locks' = rows.locks
    /\ project' = rows.project
    /\ budget' = rows.budget
    /\ applied' = rows.applied
    /\ external' = rows.external

-----------------------------------------------------------------------------
(* Rows that two actions write *)

\* An action that writes every row it read.
Mutant_Overlay(b, a, x) == a

\* What is stored of the rows x: those that the action moved from b to a are as
\* it decided them, the others as they are.
Overlay(b, a, x) == [k \in DOMAIN x |-> IF a[k] # b[k] THEN a[k] ELSE x[k]]

\* The action writes a row that is not as it read it any more.
Clash(b, a, x) == \E k \in DOMAIN x : a[k] # b[k] /\ x[k] # b[k]

Overwrites ==
    \/ Clash(before.wallets, after.wallets, wallets)
    \/ Clash(before.holds, after.holds, holds)
    \/ Clash(before.pools, after.pools, pools)
    \/ Clash(before.reservations, after.reservations, reservations)
    \/ Clash(before.debits, after.debits, debits)
    \/ Clash(before.payouts, after.payouts, payouts)
    \/ Clash(before.locks, after.locks, locks)
    \/ after.budget # before.budget /\ budget # before.budget
    \/ (after.applied \ before.applied) \cap applied # {}

\* put_marker writes the marker whether it is there or not; an entry of the
\* journal is a document of its own.
Merged ==
    [wallets |-> [u \in Users |->
         Overlay(before.wallets[u], after.wallets[u], wallets[u])],
     holds |-> Overlay(before.holds, after.holds, holds),
     pools |-> Overlay(before.pools, after.pools, pools),
     reservations |-> Overlay(before.reservations, after.reservations, reservations),
     debits |-> Overlay(before.debits, after.debits, debits),
     payouts |-> Overlay(before.payouts, after.payouts, payouts),
     locks |-> Overlay(before.locks, after.locks, locks),
     project |-> project,
     budget |-> IF after.budget # before.budget THEN after.budget ELSE budget,
     applied |-> applied \cup after.applied,
     external |->
         [payments |-> external.payments + after.external.payments
                       - before.external.payments,
          payouts |-> external.payouts + after.external.payouts
                      - before.external.payouts]]

-----------------------------------------------------------------------------
(* Actions that overlap *)

\* An action that no other overtakes.
Alone ==
    /\ phase = "none" \/ (phase = "overtaken" /\ behind < MaxBehind)
    /\ Next
    /\ behind' = IF phase = "none" THEN behind ELSE behind + 1
    /\ UNCHANGED <<phase, before, after, raced>>

\* A slow action reads and decides: for the moment the rows are its view of them.
Decide ==
    /\ phase = "none"
    /\ Requests <= MaxEarlier
    /\ MoneyStep
    /\ phase' = "decided"
    /\ before' = Rows
    /\ UNCHANGED <<after, behind, raced>>

\* It is over.
Ended ==
    /\ phase' = "none"
    /\ before' = NoRows /\ after' = NoRows
    /\ behind' = 0

\* It has not committed yet.
Overtaken ==
    /\ phase = "decided"
    /\ phase' = "overtaken"
    /\ after' = Rows
    /\ SetRows(before)
    /\ UNCHANGED <<clock, before, behind, raced>>

\* run_action commits, over whatever was committed since the action read.
Commit ==
    /\ phase = "overtaken"
    /\ SetRows(Merged)
    /\ raced' = (raced \/ Overwrites)
    /\ Ended
    /\ UNCHANGED clock

\* The commit meets a conflict, or the action is refused: it is rolled back.
Refused ==
    /\ phase = "overtaken"
    /\ Ended
    /\ UNCHANGED <<vars, raced>>

NodeNext == Alone \/ Decide \/ Overtaken \/ Commit \/ Refused

Spec == NodeInit /\ [][NodeNext]_nodeVars

-----------------------------------------------------------------------------
(* Properties *)

\* What may be paid out of a wallet stays covered by its balance and by what its
\* creature locked, whatever order the actions come in and however they overlap,
\* until one writes over a row that another one changed.
WithdrawableStaysCovered == raced \/ WithdrawableIsCovered

\* The audit finds nothing in any state, with actions overlapping, until one
\* writes over a row that another one changed: actions that share no row leave
\* counters and documents that add up, although each wrote what it computed on
\* older rows.
BooksStayInOrder == raced \/ BooksAddUp

\* Money is neither made nor lost by actions that overlap, until one writes over
\* a row that another one changed.
MoneyStaysConserved == raced \/ MoneyIsConserved

\* The project stays within the budgets it was given, although a slow action
\* checks a budget that has changed when it commits, until one writes over a row
\* that another one changed.
BudgetStaysKept == raced \/ BudgetIsKept
=============================================================================
