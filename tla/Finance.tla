------------------------------ MODULE Finance ------------------------------
(***************************************************************************)
(* The money actions of a node: wallets, holds, shared pools, payouts,     *)
(* payments, transfers, token locks and project budgets                    *)
(* (crates/aseman-application/src/finance, aseman-node/src/actions).       *)
(*                                                                         *)
(* Every action of the source runs in one transaction of the node, which   *)
(* an error rolls back: an operation below is what one of them does to the *)
(* rows it read, and its guard is the conjunction of the source's          *)
(* refusals.  Nothing keeps the transactions apart: module FinanceNode     *)
(* has what they do when they overlap.  What the operations share, and can *)
(* therefore disagree about, is a wallet: its available balance, the part  *)
(* of it that may be paid out, and the counters that say how much of it a  *)
(* hold, a pool or a payout has set aside.                                 *)
(*                                                                         *)
(* A quote is the document a node signed to price a request; the model     *)
(* lets every request it enumerates have one, and keeps from it the caps   *)
(* of the beneficiaries, with one role per beneficiary.  Amounts are far   *)
(* from the width of i64: the checked additions of the source never fail.  *)
(* A request repeated with the key it was applied under is answered from   *)
(* its marker and changes nothing (Repeat); marker kinds whose key also    *)
(* names the record it made (a hold, a pool, a payout, a reservation) are  *)
(* that record's status.                                                   *)
(***************************************************************************)
EXTENDS Integers, FiniteSets, Functions

CONSTANTS
    Users,          \* creatures with a wallet
    Payers,         \* those for whom quotes are signed and who open pools
    Authority,      \* the settlement authority the requests name
    Holds,          \* idempotency keys of create_hold, one hold each
    ProjectHolds,   \* those whose quote names the project
    Pools,          \* idempotency keys of open_pool
    Runs,           \* run identifiers, which are the settlement identifiers
    Payouts,        \* request identifiers of request_payout
    Locks,          \* identifiers of token locks
    Keys,           \* the keys of the other idempotent requests
    Amounts,        \* what one request may ask to move
    Expiries,       \* the instants requests name as their expiry
    Budgets,        \* values given to budgetMinor in the project's metadata, 0 for none
    Spendings,      \* values given to spentMinor
    OpeningBalance, \* what a wallet is opened with
    OpeningBudget,  \* budgetMinor that the project is created with
    HoldTtl,        \* FINANCE_HOLD_MAX_TTL_MS
    MaxClock,       \* bound on the clock
    MaxRequests,    \* bound on the requests that leave a document or a marker
    None            \* no user, no run, no pool

ASSUME PartiesAssumption ==
    /\ IsFiniteSet(Users)
    /\ Payers \subseteq Users
    /\ Authority \in Users
    /\ ProjectHolds \subseteq Holds
    /\ None \notin Users \cup Pools \cup Runs

\* The requests that a node ever sees are finitely many.
ASSUME DocumentsAssumption ==
    /\ IsFiniteSet(Holds) /\ IsFiniteSet(Pools) /\ IsFiniteSet(Runs) /\ IsFiniteSet(Payouts)
    /\ IsFiniteSet(Locks)

ASSUME AmountsAssumption ==
    /\ Amounts \subseteq Nat \ {0}
    /\ Expiries \subseteq Nat \ {0}
    /\ Budgets \subseteq Nat /\ Spendings \subseteq Nat
    /\ {OpeningBalance, OpeningBudget, HoldTtl, MaxClock} \subseteq Nat

VARIABLES
    clock,          \* ports.clock.unix_millis()
    wallets,        \* the balance and the counters of each creature
    holds,          \* FinanceDoc::Hold
    pools,          \* FinanceDoc::Pool
    reservations,   \* FinanceDoc::PoolReservation, by run
    debits,         \* FinanceDoc::LiveDebit, by run
    payouts,        \* FinanceDoc::Payout
    locks,          \* token locks
    project,        \* the project's metadata, and history: its budgets so far
    budget,         \* FinanceDoc::ProjectBudget of the one project
    applied,        \* FinanceMarkers written, with their kind
    external        \* the journal's accounts external:payments, external:payouts

vars == <<clock, wallets, holds, pools, reservations, debits, payouts, locks,
          project, budget, applied, external>>

-----------------------------------------------------------------------------
(* Records *)

NoLines == [u \in Users |-> 0]

\* The last one is history: what the creature locked so far.
Wallet == [balance : Nat, withdrawable : Nat, held : Nat, debt : Nat,
           payoutHeld : Nat, earned : Nat, spent : Nat, locked : Nat]

OpenWallet == [balance |-> OpeningBalance, withdrawable |-> 0, held |-> 0,
               debt |-> 0, payoutHeld |-> 0, earned |-> 0, spent |-> 0, locked |-> 0]

NoHold == [status |-> "none", payer |-> None, max |-> 0, withdrawable |-> 0,
           caps |-> NoLines, expires |-> 0, run |-> None, lines |-> NoLines]

NoPool == [status |-> "none", payer |-> None, max |-> 0, remaining |-> 0,
           reserved |-> 0, spent |-> 0, refunded |-> 0, withdrawable |-> 0,
           expires |-> 0]

NoReservation == [status |-> "none", pool |-> None, payer |-> None,
                  amount |-> 0, caps |-> NoLines, lines |-> NoLines]

NoDebit == [payer |-> None, credits |-> NoLines]

NoPayout == [status |-> "none", user |-> None, amount |-> 0]

NoLock == [status |-> "none", payee |-> None, amount |-> 0, unlocks |-> 0]

Init ==
    /\ clock = 0
    /\ wallets = [u \in Users |-> OpenWallet]
    /\ holds = [h \in Holds |-> NoHold]
    /\ pools = [p \in Pools |-> NoPool]
    /\ reservations = [r \in Runs |-> NoReservation]
    /\ debits = [r \in Runs |-> NoDebit]
    /\ payouts = [q \in Payouts |-> NoPayout]
    /\ locks = [l \in Locks |-> NoLock]
    /\ project = [budget |-> OpeningBudget, spent |-> 0, budgets |-> {OpeningBudget}]
    /\ budget = [spent |-> 0, reserved |-> 0]
    /\ applied = {}
    /\ external = [payments |-> 0, payouts |-> 0]

-----------------------------------------------------------------------------
(* Idempotency markers *)

Requests ==
    Cardinality(applied) + Cardinality({h \in Holds : holds[h].status # "none"})
    + Cardinality({p \in Pools : pools[p].status # "none"})
    + Cardinality({q \in Payouts : payouts[q].status # "none"})
    + Cardinality({l \in Locks : locks[l].status # "none"})

MoreRequests == Requests < MaxRequests

\* The marker of the request is not written yet.
Fresh(kind, key) ==
    /\ <<kind, key>> \notin applied
    /\ MoreRequests

-----------------------------------------------------------------------------
(* Wallets *)

Lesser(a, b) == IF a < b THEN a ELSE b

\* What users are to get of `total`: the lines of a settlement, or the caps of
\* a quote, in which the payer has no part.
Shares(payer, total) ==
    {lines \in [Users -> 0..total] : lines[payer] = 0}

\* withdrawable_debit_portion.  `saturating_sub` on i64 saturates at the least
\* i64, not at zero: the portion is negative when the part of the balance that
\* may not be paid out exceeds the amount.
DebitPortion(w, amount) == amount - (w.balance - w.withdrawable)

\* The wallet can lose the amount to a hold or a pool.  Nothing compares the
\* amount with the balance: `set_counter` refuses a negative withdrawable.
CanSetAside(w, amount) ==
    /\ w.debt = 0
    /\ w.withdrawable <= w.balance
    /\ w.withdrawable - DebitPortion(w, amount) >= 0

SetAside(w, amount) ==
    [w EXCEPT !.balance = @ - amount,
              !.withdrawable = @ - DebitPortion(w, amount),
              !.held = @ + amount]

\* The wallet can end a hold or close a pool: `set_counter` refuses negatives.
CanGiveBack(w, withdrawable, ended) ==
    /\ w.withdrawable + withdrawable >= 0
    /\ w.held - ended >= 0

\* `ended` leaves the held counter, `amount` of it comes back as balance.
GiveBack(w, amount, withdrawable, ended) ==
    [w EXCEPT !.balance = @ + amount,
              !.withdrawable = @ + withdrawable,
              !.held = @ - ended]

\* A beneficiary is credited: a debt is repaid first, the rest is balance that
\* may be paid out.
Earn(w, amount) ==
    LET credit == amount - Lesser(w.debt, amount)
    IN  [w EXCEPT !.earned = @ + amount,
                  !.debt = @ - Lesser(w.debt, amount),
                  !.balance = @ + credit,
                  !.withdrawable = @ + credit]

\* A payment from outside is credited: a debt is repaid first, the rest is
\* balance that may not be paid out.
TopUp(w, amount) ==
    LET repaid == Lesser(w.debt, amount)
    IN  [w EXCEPT !.debt = @ - repaid, !.balance = @ + amount - repaid]

-----------------------------------------------------------------------------
(* Holds *)

\* The metadata's amount alone.
Mutant_ProjectSpent == project.spent

\* reserve_project_budget: the metadata may know of more spending than the
\* ledger.
ProjectSpent == IF budget.spent < project.spent THEN project.spent ELSE budget.spent

CanReserveBudget(h, amount) ==
    h \in ProjectHolds /\ project.budget > 0
        => ProjectSpent + budget.reserved + amount <= project.budget

ReserveBudget(h, amount) ==
    budget' = IF h \in ProjectHolds
              THEN [spent |-> ProjectSpent, reserved |-> budget.reserved + amount]
              ELSE budget

\* finalize_project_budget
FinalizeBudget(h, amount, spent) ==
    budget' = IF h \in ProjectHolds
              THEN [budget EXCEPT !.reserved = @ - amount, !.spent = @ + spent]
              ELSE budget

CreateHold(h, payer, max, expires) ==
    /\ holds[h].status = "none" /\ MoreRequests
    /\ expires > clock /\ expires <= clock + HoldTtl
    /\ CanSetAside(wallets[payer], max)
    /\ CanReserveBudget(h, max)
    /\ \E caps \in Shares(payer, max) :
         /\ SumFunction(caps) = max
         /\ holds' = [holds EXCEPT ![h] =
                [NoHold EXCEPT !.status = "open", !.payer = payer, !.max = max,
                               !.withdrawable = DebitPortion(wallets[payer], max),
                               !.caps = caps, !.expires = expires]]
    /\ wallets' = [wallets EXCEPT ![payer] = SetAside(@, max)]
    /\ ReserveBudget(h, max)
    /\ UNCHANGED <<clock, pools, reservations, debits, payouts, locks, project,
                   applied, external>>

\* The run marker of the authority is written with the first start: a run names
\* one hold for good.
StartHold(h, run) ==
    /\ \A other \in Holds : holds[other].run # run
    /\ holds[h].status = "open"
    /\ clock <= holds[h].expires
    /\ holds' = [holds EXCEPT ![h].status = "running", ![h].run = run]
    /\ UNCHANGED <<clock, wallets, pools, reservations, debits, payouts, locks,
                   project, budget, applied, external>>

Active(h) == holds[h].status \in {"open", "running"}

SettleHold(h) ==
    /\ holds[h].status = "running"
    /\ clock <= holds[h].expires
    /\ \E actual \in 0..holds[h].max, lines \in Shares(holds[h].payer, holds[h].max) :
         LET payer  == holds[h].payer
             refund == holds[h].max - actual
             withdrawable == Lesser(refund, holds[h].withdrawable)
         IN  /\ \A u \in Users : lines[u] <= holds[h].caps[u]
             /\ actual = SumFunction(lines)
             /\ CanGiveBack(wallets[payer], withdrawable, holds[h].max)
             /\ wallets' = [u \in Users |->
                    IF u = payer
                    THEN [GiveBack(wallets[u], refund, withdrawable, holds[h].max)
                            EXCEPT !.spent = @ + actual]
                    ELSE Earn(wallets[u], lines[u])]
             /\ holds' = [holds EXCEPT ![h].status = "settled", ![h].lines = lines]
             /\ FinalizeBudget(h, holds[h].max, actual)
    /\ UNCHANGED <<clock, pools, reservations, debits, payouts, locks, project,
                   applied, external>>

\* The authority may release at any time, the payer while the run has not
\* started or once the hold has expired.
ReleaseHold(h, caller) ==
    /\ Active(h)
    /\ \/ caller = Authority
       \/ /\ caller = holds[h].payer
          /\ holds[h].status = "open" \/ clock >= holds[h].expires
    /\ CanGiveBack(wallets[holds[h].payer], holds[h].withdrawable, holds[h].max)
    /\ wallets' = [wallets EXCEPT ![holds[h].payer] =
            GiveBack(@, holds[h].max, holds[h].withdrawable, holds[h].max)]
    /\ holds' = [holds EXCEPT ![h].status =
            IF clock >= holds[h].expires THEN "expired" ELSE "released"]
    /\ FinalizeBudget(h, holds[h].max, 0)
    /\ UNCHANGED <<clock, pools, reservations, debits, payouts, locks, project,
                   applied, external>>

-----------------------------------------------------------------------------
(* Pools *)

OpenPool(p, payer, amount, expires) ==
    /\ pools[p].status = "none" /\ MoreRequests
    /\ expires > clock
    /\ CanSetAside(wallets[payer], amount)
    /\ pools' = [pools EXCEPT ![p] =
           [status |-> "open", payer |-> payer, max |-> amount, remaining |-> amount,
            reserved |-> 0, spent |-> 0, refunded |-> 0,
            withdrawable |-> DebitPortion(wallets[payer], amount),
            expires |-> expires]]
    /\ wallets' = [wallets EXCEPT ![payer] = SetAside(@, amount)]
    /\ UNCHANGED <<clock, holds, reservations, debits, payouts, locks, project,
                   budget, applied, external>>

\* An expiry that is not in the future leaves the old one.
RefreshPool(p, key, amount, expires) ==
    /\ Fresh("refresh", key)
    /\ pools[p].status = "open"
    /\ CanSetAside(wallets[pools[p].payer], amount)
    /\ pools' = [pools EXCEPT
           ![p].max = @ + amount,
           ![p].remaining = @ + amount,
           ![p].withdrawable = @ + DebitPortion(wallets[pools[p].payer], amount),
           ![p].expires = IF expires > clock THEN expires ELSE @]
    /\ wallets' = [wallets EXCEPT ![pools[p].payer] = SetAside(@, amount)]
    /\ applied' = applied \cup {<<"refresh", key>>}
    /\ UNCHANGED <<clock, holds, reservations, debits, payouts, locks, project,
                   budget, external>>

\* close_pool that does not look for reservations in flight.
Mutant_InFlight(p) == FALSE

InFlight(p) == pools[p].reserved # 0

ClosePool(p, caller) ==
    /\ pools[p].status = "open"
    /\ caller \in {pools[p].payer, Authority}
    /\ ~InFlight(p)
    /\ pools' = [pools EXCEPT ![p].status = "closed", ![p].remaining = 0,
                              ![p].refunded = @ + pools[p].remaining]
    /\ \/ /\ pools[p].remaining > 0
          /\ LET back == Lesser(pools[p].remaining, pools[p].withdrawable)
             IN  /\ CanGiveBack(wallets[pools[p].payer], back, pools[p].remaining)
                 /\ wallets' = [wallets EXCEPT ![pools[p].payer] =
                        GiveBack(@, pools[p].remaining, back, pools[p].remaining)]
       \/ /\ pools[p].remaining <= 0
          /\ UNCHANGED wallets
    /\ UNCHANGED <<clock, holds, reservations, debits, payouts, locks, project,
                   budget, applied, external>>

\* The reservation is kept under the run alone, whatever became of it.
ReservePool(p, run, amount) ==
    /\ reservations[run].status = "none"
    /\ pools[p].status = "open"
    /\ clock <= pools[p].expires
    /\ pools[p].remaining >= amount
    /\ pools' = [pools EXCEPT ![p].remaining = @ - amount, ![p].reserved = @ + amount]
    /\ \E caps \in Shares(pools[p].payer, amount) :
         reservations' = [reservations EXCEPT ![run] =
             [NoReservation EXCEPT !.status = "reserved", !.pool = p,
                                   !.payer = pools[p].payer, !.amount = amount,
                                   !.caps = caps]]
    /\ UNCHANGED <<clock, wallets, holds, debits, payouts, locks, project, budget,
                   applied, external>>

\* The expiry of the pool is not looked at.
SettlePool(run) ==
    LET p == reservations[run].pool
        payer == reservations[run].payer
    IN  /\ reservations[run].status = "reserved"
        /\ pools[p].status = "open"
        /\ \E actual \in 0..reservations[run].amount,
              lines \in Shares(payer, reservations[run].amount) :
             /\ \A u \in Users : lines[u] <= reservations[run].caps[u]
             /\ actual = SumFunction(lines)
             /\ wallets[payer].held - actual >= 0
             /\ wallets' = [u \in Users |->
                    IF u = payer
                    THEN [wallets[u] EXCEPT !.held = @ - actual, !.spent = @ + actual]
                    ELSE Earn(wallets[u], lines[u])]
             /\ pools' = [pools EXCEPT
                    ![p].remaining = @ + reservations[run].amount - actual,
                    ![p].reserved = @ - reservations[run].amount,
                    ![p].spent = @ + actual]
             /\ reservations' = [reservations EXCEPT ![run].status = "settled",
                                                     ![run].lines = lines]
        /\ UNCHANGED <<clock, holds, debits, payouts, locks, project, budget,
                       applied, external>>

\* The authority may release at any time, the payer once the pool has expired.
ReleasePool(run, caller) ==
    LET p == reservations[run].pool
    IN  /\ reservations[run].status = "reserved"
        /\ \/ caller = Authority
           \/ caller = reservations[run].payer /\ clock > pools[p].expires
        /\ pools' = [pools EXCEPT ![p].remaining = @ + reservations[run].amount,
                                  ![p].reserved = @ - reservations[run].amount]
        /\ reservations' = [reservations EXCEPT ![run].status = "released"]
        /\ UNCHANGED <<clock, wallets, holds, debits, payouts, locks, project,
                       budget, applied, external>>

\* A run is charged as it goes.  Its record is kept under the run alone, with
\* the payer of its first debit; a debit that exceeds what remains is answered
\* and changes nothing.
DebitPool(p, run, key) ==
    /\ Fresh("debit", key)
    /\ pools[p].status = "open"
    /\ clock <= pools[p].expires
    /\ \E delta \in 1..pools[p].remaining,
          lines \in Shares(pools[p].payer, pools[p].remaining) :
         /\ delta = SumFunction(lines)
         /\ wallets[pools[p].payer].held - delta >= 0
         /\ wallets' = [u \in Users |->
                IF u = pools[p].payer
                THEN [wallets[u] EXCEPT !.held = @ - delta, !.spent = @ + delta]
                ELSE Earn(wallets[u], lines[u])]
         /\ pools' = [pools EXCEPT ![p].remaining = @ - delta, ![p].spent = @ + delta]
         /\ debits' = [debits EXCEPT ![run] =
                [payer |-> IF debits[run].payer = None THEN pools[p].payer
                                                       ELSE debits[run].payer,
                 credits |-> [u \in Users |-> debits[run].credits[u] + lines[u]]]]
    /\ applied' = applied \cup {<<"debit", key>>}
    /\ UNCHANGED <<clock, holds, reservations, payouts, locks, project, budget,
                   external>>

-----------------------------------------------------------------------------
(* Payments, transfers and payouts *)

Mint(user, key, amount) ==
    /\ Fresh("mint", key)
    /\ wallets' = [wallets EXCEPT ![user] = TopUp(@, amount)]
    /\ external' = [external EXCEPT !.payments = @ + amount]
    /\ applied' = applied \cup {<<"mint", key>>}
    /\ UNCHANGED <<clock, holds, pools, reservations, debits, payouts, locks,
                   project, budget>>

\* A reversal that leaves the withdrawable counter as it was.
Mutant_Reverse(w, amount) ==
    LET taken == Lesser(w.balance, amount)
    IN  [w EXCEPT !.balance = @ - taken, !.debt = @ + amount - taken]

\* A refund, chargeback, dispute or manual debit: what the balance cannot bear
\* becomes a debt.
Reverse(w, amount) ==
    LET taken == Lesser(w.balance, amount)
    IN  [w EXCEPT !.balance = @ - taken,
                  !.withdrawable = Lesser(@, w.balance - taken),
                  !.debt = @ + amount - taken]

PaymentAdjustment(user, key, amount) ==
    /\ Fresh("adjust", key)
    /\ wallets[user].withdrawable <= wallets[user].balance
    /\ \/ /\ wallets' = [wallets EXCEPT ![user] = Reverse(@, amount)]
          /\ external' = [external EXCEPT !.payments = @ - amount]
       \/ /\ wallets' = [wallets EXCEPT ![user] = TopUp(@, amount)]
          /\ external' = [external EXCEPT !.payments = @ + amount]
    /\ applied' = applied \cup {<<"adjust", key>>}
    /\ UNCHANGED <<clock, holds, pools, reservations, debits, payouts, locks,
                   project, budget>>

\* The debt of the target is repaid first, from the part of the amount that may
\* not be paid out; the subtractions are those of DebitPortion and may go below
\* zero as well.
Transfer(from, to, amount) ==
    LET sent     == DebitPortion(wallets[from], amount)
        repaid   == Lesser(wallets[to].debt, amount)
        used     == repaid - (amount - sent)
        received == sent - used
    IN  /\ from # to
        /\ wallets[from].balance >= amount
        /\ wallets[from].withdrawable <= wallets[from].balance
        /\ wallets[from].withdrawable - sent >= 0
        /\ wallets[to].withdrawable + received >= 0
        /\ wallets' = [wallets EXCEPT
               ![from].balance = @ - amount,
               ![from].withdrawable = @ - sent,
               ![to].balance = @ + amount - repaid,
               ![to].withdrawable = @ + received,
               ![to].debt = @ - repaid]
        /\ UNCHANGED <<clock, holds, pools, reservations, debits, payouts, locks,
                       project, budget, applied, external>>

RequestPayout(q, user, amount) ==
    /\ payouts[q].status = "none" /\ MoreRequests
    /\ wallets[user].debt = 0
    /\ amount <= wallets[user].withdrawable
    /\ amount <= wallets[user].balance
    /\ wallets' = [wallets EXCEPT ![user].balance = @ - amount,
                                  ![user].withdrawable = @ - amount,
                                  ![user].payoutHeld = @ + amount]
    /\ payouts' = [payouts EXCEPT ![q] =
           [status |-> "pending", user |-> user, amount |-> amount]]
    /\ UNCHANGED <<clock, holds, pools, reservations, debits, locks, project,
                   budget, applied, external>>

ResolvePayout(q, status) ==
    LET user == payouts[q].user
        amount == payouts[q].amount
    IN  /\ payouts[q].status = "pending"
        /\ wallets[user].payoutHeld - amount >= 0
        /\ payouts' = [payouts EXCEPT ![q].status = status]
        /\ \/ /\ status = "rejected"
              /\ wallets' = [wallets EXCEPT ![user].payoutHeld = @ - amount,
                                            ![user].balance = @ + amount,
                                            ![user].withdrawable = @ + amount]
              /\ UNCHANGED external
           \/ /\ status = "paid"
              /\ wallets' = [wallets EXCEPT ![user].payoutHeld = @ - amount]
              /\ external' = [external EXCEPT !.payouts = @ + amount]
        /\ UNCHANGED <<clock, holds, pools, reservations, debits, locks, project,
                       budget, applied>>

-----------------------------------------------------------------------------
(* Token locks *)

\* lock_token with one step: a schedule of steps is as many locks.  The balance
\* is lowered and the withdrawable counter is not looked at.
LockToken(l, payer, payee, amount, unlocks) ==
    /\ locks[l].status = "none" /\ MoreRequests
    /\ wallets[payer].balance >= amount
    /\ wallets' = [wallets EXCEPT ![payer].balance = @ - amount,
                                  ![payer].locked = @ + amount]
    /\ locks' = [locks EXCEPT ![l] =
           [status |-> "locked", payee |-> payee, amount |-> amount, unlocks |-> unlocks]]
    /\ UNCHANGED <<clock, holds, pools, reservations, debits, payouts, project,
                   budget, applied, external>>

\* consume_lock: the last step deletes the lock.  A debt is not repaid.
ConsumeLock(l) ==
    /\ locks[l].status = "locked"
    /\ clock >= locks[l].unlocks
    /\ wallets' = [wallets EXCEPT ![locks[l].payee].balance = @ + locks[l].amount]
    /\ locks' = [locks EXCEPT ![l].status = "consumed"]
    /\ UNCHANGED <<clock, holds, pools, reservations, debits, payouts, project,
                   budget, applied, external>>

-----------------------------------------------------------------------------
(* The node *)

\* The project's metadata is not the ledger's: its owner may change the budget
\* and what it says is spent at any time (merge_store_metadata).
ConfigureProject ==
    /\ \E b \in Budgets, s \in Spendings :
         project' = [budget |-> b, spent |-> s, budgets |-> project.budgets \cup {b}]
    /\ UNCHANGED <<clock, wallets, holds, pools, reservations, debits, payouts,
                   locks, budget, applied, external>>

\* A request whose marker is written is answered from it.
Repeat ==
    /\ applied # {}
    /\ UNCHANGED vars

Tick ==
    /\ clock < MaxClock
    /\ clock' = clock + 1
    /\ UNCHANGED <<wallets, holds, pools, reservations, debits, payouts, locks,
                   project, budget, applied, external>>

HoldStep ==
    \E h \in Holds :
       \/ \E payer \in Payers, max \in Amounts, expires \in Expiries :
             CreateHold(h, payer, max, expires)
       \/ \E run \in Runs : StartHold(h, run)
       \/ SettleHold(h)
       \/ \E caller \in Users : ReleaseHold(h, caller)

PoolStep ==
    \/ \E p \in Pools, amount \in Amounts, expires \in Expiries :
          \/ \E payer \in Payers : OpenPool(p, payer, amount, expires)
          \/ \E key \in Keys : RefreshPool(p, key, amount, expires)
    \/ \E p \in Pools :
          \/ \E caller \in Users : ClosePool(p, caller)
          \/ \E run \in Runs, amount \in Amounts : ReservePool(p, run, amount)
          \/ \E run \in Runs, key \in Keys : DebitPool(p, run, key)
    \/ \E run \in Runs :
          \/ SettlePool(run)
          \/ \E caller \in Users : ReleasePool(run, caller)

WalletStep ==
    \/ \E user \in Users, key \in Keys, amount \in Amounts :
          \/ Mint(user, key, amount)
          \/ PaymentAdjustment(user, key, amount)
    \/ \E from \in Users, to \in Users, amount \in Amounts : Transfer(from, to, amount)
    \/ \E q \in Payouts :
          \/ \E user \in Users, amount \in Amounts : RequestPayout(q, user, amount)
          \/ \E status \in {"paid", "rejected"} : ResolvePayout(q, status)

LockStep ==
    \E l \in Locks :
       \/ \E payer \in Users, payee \in Users, amount \in Amounts, unlocks \in Expiries :
             LockToken(l, payer, payee, amount, unlocks)
       \/ ConsumeLock(l)

MoneyStep == HoldStep \/ PoolStep \/ WalletStep \/ LockStep

Next == MoneyStep \/ Repeat \/ Tick \/ ConfigureProject

-----------------------------------------------------------------------------
(***************************************************************************)
(* What reconcile_financial_system reconstructs from the documents         *)
(***************************************************************************)

\* held_expected: the active holds and what the open pools have not spent.
HeldExpected(u) ==
    SumFunction([h \in Holds |->
        IF Active(h) /\ holds[h].payer = u THEN holds[h].max ELSE 0])
    + SumFunction([p \in Pools |->
        IF pools[p].status = "open" /\ pools[p].payer = u
        THEN pools[p].remaining + pools[p].reserved ELSE 0])

\* pool_reserved_expected
PoolReservedExpected(p) ==
    SumFunction([r \in Runs |->
        IF reservations[r].status = "reserved" /\ reservations[r].pool = p
        THEN reservations[r].amount ELSE 0])

\* payout_held_expected
PayoutHeldExpected(u) ==
    SumFunction([q \in Payouts |->
        IF payouts[q].status = "pending" /\ payouts[q].user = u
        THEN payouts[q].amount ELSE 0])

\* earned_expected: the lines of the settled holds and reservations, and the
\* credits of the live debits.
EarnedExpected(u) ==
    SumFunction([h \in Holds |-> holds[h].lines[u]])
    + SumFunction([r \in Runs |-> reservations[r].lines[u] + debits[r].credits[u]])

\* project_reserved_expected
BudgetReservedExpected ==
    SumFunction([h \in ProjectHolds |-> IF Active(h) THEN holds[h].max ELSE 0])

\* project_spent_expected
BudgetSpentExpected ==
    SumFunction([h \in ProjectHolds |-> SumFunction(holds[h].lines)])

-----------------------------------------------------------------------------
(* Properties *)

Share == [Users -> Nat]

HoldType ==
    [status : {"none", "open", "running", "settled", "released", "expired"},
     payer : Users \cup {None}, max : Nat, withdrawable : Int, caps : Share,
     expires : Nat, run : Runs \cup {None}, lines : Share]

PoolType ==
    [status : {"none", "open", "closed"}, payer : Users \cup {None}, max : Nat,
     remaining : Int, reserved : Int, spent : Nat, refunded : Int,
     withdrawable : Int, expires : Nat]

ReservationType ==
    [status : {"none", "reserved", "settled", "released"}, pool : Pools \cup {None},
     payer : Users \cup {None}, amount : Nat, caps : Share, lines : Share]

LockType ==
    [status : {"none", "locked", "consumed"}, payee : Users \cup {None}, amount : Nat,
     unlocks : Nat]

\* Every variable has its type, and no counter of a wallet is ever negative:
\* the refusals of `set_counter` and the order of the operations keep them so.
TypeOK ==
    /\ clock \in Nat
    /\ wallets \in [Users -> Wallet]
    /\ holds \in [Holds -> HoldType]
    /\ pools \in [Pools -> PoolType]
    /\ reservations \in [Runs -> ReservationType]
    /\ debits \in [Runs -> [payer : Users \cup {None}, credits : Share]]
    /\ payouts \in [Payouts -> [status : {"none", "pending", "paid", "rejected"},
                                user : Users \cup {None}, amount : Nat]]
    /\ locks \in [Locks -> LockType]
    /\ project \in [budget : Nat, spent : Nat, budgets : SUBSET Nat]
    /\ budget \in [spent : Nat, reserved : Int]
    /\ applied \subseteq {"mint", "adjust", "refresh", "debit"} \X Keys
    /\ external \in [payments : Int, payouts : Nat]

\* What may be paid out of a wallet is covered by its balance and by what its
\* creature locked, in every state that any order of holds, pools, settlements,
\* reversals, transfers and payouts leads to: lock_token alone lets the counter
\* pass the balance, and every debit then refuses.
WithdrawableIsCovered ==
    \A u \in Users :
        wallets[u].withdrawable \in 0..(wallets[u].balance + wallets[u].locked)

\* maxAmount = remaining + reserved + spent + refunded, for every pool.
PoolsAddUp ==
    \A p \in Pools :
        pools[p].max = pools[p].remaining + pools[p].reserved
                       + pools[p].spent + pools[p].refunded

\* The audit of reconcile_financial_system finds nothing, in any state, among
\* the issues pool.invalid, pool.balance_mismatch, pool.reserved_mismatch,
\* held.mismatch, payout.held_mismatch and earned.mismatch: each counter, which
\* every operation adjusts by a difference, is what the documents say, so no
\* hold, reservation, debit or payout is given back or paid twice.
BooksAddUp ==
    /\ PoolsAddUp
    /\ \A p \in Pools :
         /\ pools[p].remaining >= 0 /\ pools[p].refunded >= 0
         /\ pools[p].reserved = PoolReservedExpected(p)
    /\ \A u \in Users :
         /\ wallets[u].held = HeldExpected(u)
         /\ wallets[u].payoutHeld = PayoutHeldExpected(u)
         /\ wallets[u].earned = EarnedExpected(u)

\* No operation makes or loses money: what the wallets own, held, payout-held and
\* locked amounts included and debts deducted, is what was opened, paid in and
\* not yet paid out; and what payers spent is what beneficiaries earned.
MoneyIsConserved ==
    /\ SumFunction([u \in Users |-> wallets[u].balance + wallets[u].held
                                    + wallets[u].payoutHeld - wallets[u].debt])
       + SumFunction([l \in Locks |->
             IF locks[l].status = "locked" THEN locks[l].amount ELSE 0])
         = Cardinality(Users) * OpeningBalance + external.payments - external.payouts
    /\ SumFunction([u \in Users |-> wallets[u].spent])
         = SumFunction([u \in Users |-> wallets[u].earned])

\* What the project has spent and what its active holds may still spend stay
\* within some budget it was given, unless it once had none.
WithinBudget ==
    0 \notin project.budgets
        => \E b \in project.budgets : budget.spent + budget.reserved <= b

\* The project stays within the budgets it was given, although a hold is checked
\* against the budget of the moment when it is created and ends much later, and
\* the audit finds neither project.reserved_mismatch nor
\* project.spent_undercount: what a hold reserved leaves the budget once, when
\* the hold ends.
BudgetIsKept ==
    /\ WithinBudget
    /\ budget.reserved = BudgetReservedExpected
    /\ budget.spent >= BudgetSpentExpected

-----------------------------------------------------------------------------
(* What the docs say and the code does not do *)

\* "Every withdrawable amount must be within its creature balance"
\* (0017-legacy-finance-epoch-checkpoint.md).
WithdrawableInBalance ==
    \A u \in Users : wallets[u].withdrawable \in 0..wallets[u].balance

\* "total withdrawable must not exceed total earnings": what may be paid out is
\* covered by what was ever earned (`withdrawable.unbacked_total` in the audit).
WithdrawableIsBacked ==
    SumFunction([u \in Users |-> wallets[u].withdrawable])
        <= SumFunction([u \in Users |-> EarnedExpected(u)])
=============================================================================
