--------------------------- MODULE FinanceProofs ---------------------------
(***************************************************************************)
(* Proofs about FinanceNode, for any users, holds, pools, runs, payouts,   *)
(* locks, keys and amounts, and any overlap of the actions.                *)
(*                                                                         *)
(* First, the actions one at a time.  The withdrawable counter is compared *)
(* with the balance when money leaves a wallet and not when it comes back, *)
(* so that balance and locked amount cover it rests on what the documents  *)
(* remember: a hold never gives back more withdrawable money than it gives *)
(* back money, although the portion it drew may be negative (IInv).  The   *)
(* audit compares counters, which operations adjust by differences, with   *)
(* sums over the documents; AInv is the audit as an inductive invariant:   *)
(* the totals of module Sums follow the change of the one document, or of  *)
(* the wallets that one payer's lines credit, that a step touches.         *)
(*                                                                         *)
(* Then an action that decided on older rows.  When it writes over no row  *)
(* that another one changed, every row is as it decided it or as the       *)
(* others left it (Joined), so every total is theirs plus what the action  *)
(* moved (Combined), and what held of the rows it read, of those it        *)
(* decided and of those it meets holds of the merged ones (NodeInv).       *)
(***************************************************************************)
EXTENDS FinanceNode, Sums, TLAPS

\* A wallet whose balance, with what was locked, covers what may be paid out.
SoundWallet == {w \in Wallet : w.withdrawable <= w.balance + w.locked}

\* A hold that drew at most what it holds from the withdrawable counter, and
\* names its payer while it can still give something back.
SoundHold == {d \in HoldType :
    /\ d.withdrawable <= d.max
    /\ d.status \in {"open", "running"} => d.payer \in Users}

\* A pool whose amounts add up, and which names its payer while it is open.
SoundPool == {d \in PoolType :
    /\ d.max = d.remaining + d.reserved + d.spent + d.refunded
    /\ d.status = "open" => d.payer \in Users}

\* A reservation that names its pool and its payer until it ends.
SoundReservation == {d \in ReservationType :
    d.status = "reserved" => d.pool \in Pools /\ d.payer \in Users}

DebitType == [payer : Users \cup {None}, credits : Share]

PayoutType == [status : {"none", "pending", "paid", "rejected"},
               user : Users \cup {None}, amount : Nat]

\* A payout that names its owner until it is resolved.
SoundPayout == {d \in PayoutType : d.status = "pending" => d.user \in Users}

\* A lock that names its payee until it is consumed.
SoundLock == {d \in LockType : d.status = "locked" => d.payee \in Users}

\* A budget that is within one of those the project was given.
SoundBudget(budgets) == {b \in [spent : Nat, reserved : Int] :
    0 \notin budgets => \E x \in budgets : b.spent + b.reserved <= x}

\* The budget in force is one that the project was given.
SoundProject == {d \in [budget : Nat, spent : Nat, budgets : SUBSET Nat] :
    d.budget \in d.budgets}

\* The inductive invariant: every document is sound.
IInv ==
    /\ clock \in Nat
    /\ wallets \in [Users -> SoundWallet]
    /\ holds \in [Holds -> SoundHold]
    /\ pools \in [Pools -> SoundPool]
    /\ reservations \in [Runs -> SoundReservation]
    /\ debits \in [Runs -> DebitType]
    /\ payouts \in [Payouts -> SoundPayout]
    /\ locks \in [Locks -> SoundLock]
    /\ project \in SoundProject
    /\ budget \in SoundBudget(project.budgets)
    /\ applied \subseteq {"mint", "adjust", "refresh", "debit"} \X Keys
    /\ external \in [payments : Int, payouts : Nat]

-----------------------------------------------------------------------------
(* Wallets *)

\* The fields of a sound wallet.
WalletFields(w) ==
    /\ w.balance \in Nat
    /\ w.locked \in Nat
    /\ w.withdrawable \in Nat /\ w.withdrawable <= w.balance + w.locked
    /\ w.held \in Nat
    /\ w.debt \in Nat
    /\ w.payoutHeld \in Nat
    /\ w.earned \in Nat
    /\ w.spent \in Nat

\* A sound wallet has them.
LEMMA FieldsOfWallet ==
    ASSUME NEW w \in SoundWallet
    PROVE  WalletFields(w)
  BY DEF SoundWallet, Wallet, WalletFields

\* Setting an amount aside leaves the whole balance withdrawable, and no more.
LEMMA SetAsideSound ==
    ASSUME NEW w \in SoundWallet, NEW amount \in Nat, CanSetAside(w, amount)
    PROVE  /\ SetAside(w, amount) \in SoundWallet
           /\ DebitPortion(w, amount) \in Int
           /\ DebitPortion(w, amount) <= amount
  <1>1. WalletFields(w) BY FieldsOfWallet
  <1>2. /\ DebitPortion(w, amount) \in Int
        /\ DebitPortion(w, amount) <= amount
        /\ w.balance - amount \in Nat
        /\ w.withdrawable - DebitPortion(w, amount) \in Nat
        /\ w.withdrawable - DebitPortion(w, amount) <= (w.balance - amount) + w.locked
        /\ w.held + amount \in Nat
    BY <1>1 DEF WalletFields, CanSetAside, DebitPortion
  <1> QED BY <1>2 DEF SoundWallet, Wallet, SetAside

\* What comes back leaves the wallet sound when the withdrawable part of it is
\* no more than the whole.
LEMMA GiveBackSound ==
    ASSUME NEW w \in SoundWallet, NEW amount \in Nat, NEW part \in Int,
           NEW ended \in Nat, part <= amount, CanGiveBack(w, part, ended)
    PROVE  GiveBack(w, amount, part, ended) \in SoundWallet
  <1>1. WalletFields(w) BY FieldsOfWallet
  <1>2. /\ w.balance + amount \in Nat
        /\ w.withdrawable + part \in Nat
        /\ w.withdrawable + part <= (w.balance + amount) + w.locked
        /\ w.held - ended \in Nat
    BY <1>1 DEF WalletFields, CanGiveBack
  <1> QED BY <1>2 DEF SoundWallet, Wallet, GiveBack

\* An earning leaves a wallet sound.
LEMMA EarnSound ==
    ASSUME NEW w \in SoundWallet, NEW amount \in Nat
    PROVE  Earn(w, amount) \in SoundWallet
  <1> DEFINE repaid == Lesser(w.debt, amount)
  <1>1. WalletFields(w) BY FieldsOfWallet
  <1>2. repaid \in Nat /\ repaid <= w.debt /\ repaid <= amount
    BY <1>1 DEF WalletFields, Lesser
  <1>3. Earn(w, amount) = [w EXCEPT !.earned = @ + amount, !.debt = @ - repaid,
            !.balance = @ + (amount - repaid), !.withdrawable = @ + (amount - repaid)]
    BY DEF Earn
  <1> HIDE DEF repaid
  <1>4. /\ w.earned + amount \in Nat
        /\ w.debt - repaid \in Nat
        /\ w.balance + (amount - repaid) \in Nat
        /\ w.withdrawable + (amount - repaid) \in Nat
        /\ w.withdrawable + (amount - repaid)
               <= (w.balance + (amount - repaid)) + w.locked
    BY <1>1, <1>2 DEF WalletFields
  <1> QED BY <1>3, <1>4 DEF SoundWallet, Wallet

\* A payment leaves a wallet sound.
LEMMA TopUpSound ==
    ASSUME NEW w \in SoundWallet, NEW amount \in Nat
    PROVE  TopUp(w, amount) \in SoundWallet
  <1> DEFINE repaid == Lesser(w.debt, amount)
  <1>1. WalletFields(w) BY FieldsOfWallet
  <1>2. repaid \in Nat /\ repaid <= w.debt /\ repaid <= amount
    BY <1>1 DEF WalletFields, Lesser
  <1>3. TopUp(w, amount) = [w EXCEPT !.debt = @ - repaid, !.balance = @ + amount - repaid]
    BY DEF TopUp
  <1> HIDE DEF repaid
  <1>4. /\ w.debt - repaid \in Nat
        /\ w.balance + amount - repaid \in Nat
        /\ w.withdrawable <= (w.balance + amount - repaid) + w.locked
    BY <1>1, <1>2 DEF WalletFields
  <1> QED BY <1>3, <1>4 DEF SoundWallet, Wallet

\* A reversal leaves a wallet sound.
LEMMA ReverseSound ==
    ASSUME NEW w \in SoundWallet, NEW amount \in Nat
    PROVE  Reverse(w, amount) \in SoundWallet
  <1> DEFINE taken == Lesser(w.balance, amount)
             left == Lesser(w.withdrawable, w.balance - taken)
  <1>1. WalletFields(w) BY FieldsOfWallet
  <1>2. taken \in Nat /\ taken <= w.balance /\ taken <= amount
    BY <1>1 DEF WalletFields, Lesser
  <1>3. Reverse(w, amount) = [w EXCEPT !.balance = @ - taken, !.withdrawable = left,
                                       !.debt = @ + amount - taken]
    BY DEF Reverse
  <1>4. left \in Nat /\ left <= w.balance - taken
    BY <1>1, <1>2 DEF WalletFields, Lesser
  <1> HIDE DEF taken, left
  <1>5. /\ w.balance - taken \in Nat /\ w.debt + amount - taken \in Nat
        /\ left <= (w.balance - taken) + w.locked
    BY <1>1, <1>2, <1>4 DEF WalletFields
  <1> QED BY <1>3, <1>4, <1>5 DEF SoundWallet, Wallet

-----------------------------------------------------------------------------
(* The inductive invariant *)

\* The initial state satisfies the invariant.
LEMMA InitInv == Init => IInv
  <1> SUFFICES ASSUME Init PROVE IInv OBVIOUS
  <1> USE PartiesAssumption, AmountsAssumption
  <1>1. NoLines \in Share BY DEF NoLines, Share
  <1>2. OpenWallet \in SoundWallet BY DEF OpenWallet, SoundWallet, Wallet
  <1>3. NoHold \in SoundHold BY <1>1 DEF NoHold, SoundHold, HoldType
  <1>4. NoPool \in SoundPool BY DEF NoPool, SoundPool, PoolType
  <1>5. NoReservation \in SoundReservation
    BY <1>1 DEF NoReservation, SoundReservation, ReservationType
  <1>6. NoDebit \in DebitType /\ NoPayout \in SoundPayout
    BY <1>1 DEF NoDebit, DebitType, NoPayout, SoundPayout, PayoutType
  <1>7. NoLock \in SoundLock BY DEF NoLock, SoundLock, LockType
  <1>8. project \in SoundProject BY DEF Init, SoundProject
  <1>9. project.budgets = {OpeningBudget} /\ OpeningBudget \in Nat BY DEF Init
  <1>10. budget \in SoundBudget(project.budgets) BY <1>9 DEF Init, SoundBudget
  <1> QED BY <1>2, <1>3, <1>4, <1>5, <1>6, <1>7, <1>8, <1>10 DEF IInv, Init

\* The invariant says what the theorems below state.
LEMMA InvImplies ==
    ASSUME IInv
    PROVE  TypeOK /\ WithdrawableIsCovered /\ PoolsAddUp /\ WithinBudget
  <1>1. wallets \in [Users -> Wallet] BY DEF IInv, SoundWallet
  <1>2. holds \in [Holds -> HoldType] BY DEF IInv, SoundHold
  <1>3. pools \in [Pools -> PoolType] BY DEF IInv, SoundPool
  <1>4. reservations \in [Runs -> ReservationType] BY DEF IInv, SoundReservation
  <1>5. payouts \in [Payouts -> PayoutType] BY DEF IInv, SoundPayout
  <1>6. /\ budget \in [spent : Nat, reserved : Int]
        /\ locks \in [Locks -> LockType]
        /\ project \in [budget : Nat, spent : Nat, budgets : SUBSET Nat]
    BY DEF IInv, SoundBudget, SoundLock, SoundProject
  <1>7. TypeOK
    BY <1>1, <1>2, <1>3, <1>4, <1>5, <1>6 DEF IInv, TypeOK, DebitType, PayoutType
  <1>8. WithdrawableIsCovered
    <2> SUFFICES ASSUME NEW u \in Users
                 PROVE  wallets[u].withdrawable
                            \in 0..(wallets[u].balance + wallets[u].locked)
      BY DEF WithdrawableIsCovered
    <2>1. wallets[u] \in SoundWallet BY DEF IInv
    <2> QED BY <2>1, FieldsOfWallet DEF WalletFields
  <1>9. PoolsAddUp BY DEF IInv, SoundPool, PoolsAddUp
  <1>10. WithinBudget BY DEF IInv, SoundBudget, WithinBudget
  <1> QED BY <1>7, <1>8, <1>9, <1>10

\* The lines of a settlement, and the caps of a quote, are shares.
LEMMA SharesAreShares ==
    ASSUME NEW payer, NEW total \in Int, NEW lines \in Shares(payer, total)
    PROVE  lines \in Share
  BY DEF Shares, Share

\* What a request may name.
LEMMA Inputs ==
    /\ \A amount \in Amounts : amount \in Nat \ {0}
    /\ \A expires \in Expiries : expires \in Nat
    /\ \A payer \in Payers : payer \in Users
  BY PartiesAssumption, AmountsAssumption

-----------------------------------------------------------------------------
(* Holds *)

\* The budget when a hold is created: what the project may spend is within the
\* budget in force.
LEMMA ReserveBudgetSound ==
    ASSUME IInv, NEW h \in Holds, NEW amount \in Nat,
           CanReserveBudget(h, amount), ReserveBudget(h, amount)
    PROVE  budget' \in SoundBudget(project.budgets)
  <1>1. /\ budget \in SoundBudget(project.budgets)
        /\ budget.spent \in Nat /\ budget.reserved \in Int
    BY DEF IInv, SoundBudget
  <1>2. project.budget \in Nat /\ project.spent \in Nat /\ project.budget \in project.budgets
    BY DEF IInv, SoundProject
  <1>3. ProjectSpent \in Nat BY <1>1, <1>2 DEF ProjectSpent
  <1>4. CASE h \notin ProjectHolds BY <1>1, <1>4 DEF ReserveBudget
  <1>5. CASE h \in ProjectHolds
    <2>1. budget' = [spent |-> ProjectSpent, reserved |-> budget.reserved + amount]
      BY <1>5 DEF ReserveBudget
    <2>2. CASE project.budget = 0 BY <1>1, <1>2, <1>3, <2>1, <2>2 DEF SoundBudget
    <2>3. CASE project.budget > 0
      <3>1. ProjectSpent + (budget.reserved + amount) <= project.budget
        BY <1>1, <1>2, <1>3, <1>5, <2>3 DEF CanReserveBudget
      <3> QED BY <1>1, <1>2, <1>3, <2>1, <3>1 DEF SoundBudget
    <2> QED BY <1>2, <2>2, <2>3
  <1> QED BY <1>4, <1>5

\* Creating a hold keeps the invariant: it draws at most what it holds.
LEMMA CreateHoldInv ==
    ASSUME IInv, NEW h \in Holds, NEW payer \in Payers, NEW max \in Amounts,
           NEW expires \in Expiries, CreateHold(h, payer, max, expires)
    PROVE  IInv'
  <1>1. payer \in Users /\ max \in Nat /\ expires \in Nat BY Inputs
  <1>2. wallets[payer] \in SoundWallet BY <1>1 DEF IInv
  <1>3. /\ SetAside(wallets[payer], max) \in SoundWallet
        /\ DebitPortion(wallets[payer], max) \in Int
        /\ DebitPortion(wallets[payer], max) <= max
    BY <1>1, <1>2, SetAsideSound DEF CreateHold
  <1>4. wallets' \in [Users -> SoundWallet]
    BY <1>1, <1>3 DEF IInv, CreateHold
  <1>5. PICK caps \in Shares(payer, max) :
          holds' = [holds EXCEPT ![h] =
              [NoHold EXCEPT !.status = "open", !.payer = payer, !.max = max,
                             !.withdrawable = DebitPortion(wallets[payer], max),
                             !.caps = caps, !.expires = expires]]
    BY DEF CreateHold
  <1>6. caps \in Share BY <1>1, SharesAreShares
  <1>7. NoLines \in Share BY DEF NoLines, Share
  <1>8. holds' \in [Holds -> SoundHold]
    BY <1>1, <1>3, <1>5, <1>6, <1>7 DEF IInv, SoundHold, HoldType, NoHold
  <1>9. budget' \in SoundBudget(project.budgets)
    BY <1>1, ReserveBudgetSound DEF CreateHold
  <1> QED BY <1>4, <1>8, <1>9 DEF CreateHold, IInv

\* Starting a hold keeps the invariant.
LEMMA StartHoldInv ==
    ASSUME IInv, NEW h \in Holds, NEW run \in Runs, StartHold(h, run)
    PROVE  IInv'
  <1>1. holds' = [holds EXCEPT ![h] = [holds[h] EXCEPT !.status = "running", !.run = run]]
    BY DEF StartHold, IInv
  <1>2. holds[h] \in SoundHold /\ holds[h].status = "open" BY DEF StartHold, IInv
  <1>3. [holds[h] EXCEPT !.status = "running", !.run = run] \in SoundHold
    BY <1>2 DEF SoundHold, HoldType
  <1>4. holds' \in [Holds -> SoundHold] BY <1>1, <1>3 DEF IInv
  <1> QED BY <1>4 DEF StartHold, IInv

\* The budget when a hold ends: no more is spent than was reserved.
LEMMA FinalizeBudgetSound ==
    ASSUME IInv, NEW h \in Holds, NEW amount \in Nat, NEW spent \in 0..amount,
           FinalizeBudget(h, amount, spent)
    PROVE  budget' \in SoundBudget(project.budgets)
  <1>1. budget \in SoundBudget(project.budgets) /\ project.budgets \in SUBSET Nat
    BY DEF IInv, SoundProject
  <1>2. CASE h \notin ProjectHolds BY <1>1, <1>2 DEF FinalizeBudget
  <1>3. CASE h \in ProjectHolds
    <2>1. budget' = [spent |-> budget.spent + spent, reserved |-> budget.reserved - amount]
      BY <1>1, <1>3 DEF FinalizeBudget, SoundBudget
    <2> QED BY <1>1, <2>1 DEF SoundBudget
  <1> QED BY <1>2, <1>3

\* A wallet that spends keeps its other fields.
LEMMA SpendSound ==
    ASSUME NEW w \in SoundWallet, NEW amount \in Nat
    PROVE  [w EXCEPT !.spent = @ + amount] \in SoundWallet
  <1>1. WalletFields(w) BY FieldsOfWallet
  <1>2. w.spent + amount \in Nat BY <1>1 DEF WalletFields
  <1> QED BY <1>2 DEF SoundWallet, Wallet

\* Settling a hold keeps the invariant: of what comes back, at most the whole is
\* withdrawable, and no more leaves the budget's reservation than was spent.
LEMMA SettleHoldInv ==
    ASSUME IInv, NEW h \in Holds, SettleHold(h)
    PROVE  IInv'
  <1> DEFINE max == holds[h].max
             payer == holds[h].payer
  <1>1. holds[h] \in SoundHold /\ holds[h].status = "running"
    BY DEF SettleHold, IInv
  <1>2. /\ payer \in Users /\ max \in Nat /\ holds[h].withdrawable \in Int
        /\ holds[h].withdrawable <= max
    BY <1>1 DEF SoundHold, HoldType
  <1>3. PICK actual \in 0..max, lines \in Shares(payer, max) :
          /\ CanGiveBack(wallets[payer],
                 Lesser(max - actual, holds[h].withdrawable), max)
          /\ wallets' = [u \in Users |->
                 IF u = payer
                 THEN [GiveBack(wallets[u], max - actual,
                            Lesser(max - actual, holds[h].withdrawable), max)
                         EXCEPT !.spent = @ + actual]
                 ELSE Earn(wallets[u], lines[u])]
          /\ holds' = [holds EXCEPT ![h].status = "settled", ![h].lines = lines]
          /\ FinalizeBudget(h, max, actual)
    BY DEF SettleHold
  <1> DEFINE part == Lesser(max - actual, holds[h].withdrawable)
  <1>4. max - actual \in Nat /\ actual \in Nat BY <1>2
  <1>5. part \in Int /\ part <= max - actual BY <1>2, <1>4 DEF Lesser
  <1>6. lines \in Share BY <1>2, SharesAreShares
  <1> HIDE DEF part
  <1>7. wallets[payer] \in SoundWallet BY <1>2 DEF IInv
  <1>8. GiveBack(wallets[payer], max - actual, part, max) \in SoundWallet
    BY <1>2, <1>3, <1>4, <1>5, <1>7, GiveBackSound DEF part
  <1>9. [GiveBack(wallets[payer], max - actual, part, max) EXCEPT !.spent = @ + actual]
            \in SoundWallet
    BY <1>4, <1>8, SpendSound
  <1>10. \A u \in Users : Earn(wallets[u], lines[u]) \in SoundWallet
    BY <1>6, EarnSound DEF IInv, Share
  <1>11. wallets' \in [Users -> SoundWallet]
    BY <1>3, <1>9, <1>10 DEF part
  <1>12. holds' = [holds EXCEPT ![h] = [holds[h] EXCEPT !.status = "settled", !.lines = lines]]
    BY <1>3 DEF IInv
  <1>13. [holds[h] EXCEPT !.status = "settled", !.lines = lines] \in SoundHold
    BY <1>1, <1>6 DEF SoundHold, HoldType
  <1>14. holds' \in [Holds -> SoundHold] BY <1>12, <1>13 DEF IInv
  <1>15. budget' \in SoundBudget(project.budgets) BY <1>2, <1>3, FinalizeBudgetSound
  <1> QED BY <1>11, <1>14, <1>15 DEF SettleHold, IInv

\* Releasing a hold keeps the invariant.
LEMMA ReleaseHoldInv ==
    ASSUME IInv, NEW h \in Holds, NEW caller \in Users, ReleaseHold(h, caller)
    PROVE  IInv'
  <1> DEFINE max == holds[h].max
             payer == holds[h].payer
  <1>1. holds[h] \in SoundHold /\ holds[h].status \in {"open", "running"}
    BY DEF ReleaseHold, Active, IInv
  <1>2. /\ payer \in Users /\ max \in Nat /\ holds[h].withdrawable \in Int
        /\ holds[h].withdrawable <= max
    BY <1>1 DEF SoundHold, HoldType
  <1>3. wallets[payer] \in SoundWallet BY <1>2 DEF IInv
  <1>4. GiveBack(wallets[payer], max, holds[h].withdrawable, max) \in SoundWallet
    BY <1>2, <1>3, GiveBackSound DEF ReleaseHold
  <1>5. wallets' \in [Users -> SoundWallet] BY <1>2, <1>4 DEF ReleaseHold, IInv
  <1>6. PICK status \in {"expired", "released"} :
          holds' = [holds EXCEPT ![h] = [holds[h] EXCEPT !.status = status]]
    BY DEF ReleaseHold, IInv
  <1>7. [holds[h] EXCEPT !.status = status] \in SoundHold
    BY <1>1 DEF SoundHold, HoldType
  <1>8. holds' \in [Holds -> SoundHold] BY <1>6, <1>7 DEF IInv
  <1>9. budget' \in SoundBudget(project.budgets) BY <1>2, FinalizeBudgetSound DEF ReleaseHold
  <1> QED BY <1>5, <1>8, <1>9 DEF ReleaseHold, IInv

-----------------------------------------------------------------------------
(* Pools *)

\* Opening a pool keeps the invariant.
LEMMA OpenPoolInv ==
    ASSUME IInv, NEW p \in Pools, NEW payer \in Payers, NEW amount \in Amounts,
           NEW expires \in Expiries, OpenPool(p, payer, amount, expires)
    PROVE  IInv'
  <1>1. payer \in Users /\ amount \in Nat /\ expires \in Nat BY Inputs
  <1>2. wallets[payer] \in SoundWallet BY <1>1 DEF IInv
  <1>3. /\ SetAside(wallets[payer], amount) \in SoundWallet
        /\ DebitPortion(wallets[payer], amount) \in Int
    BY <1>1, <1>2, SetAsideSound DEF OpenPool
  <1>4. wallets' \in [Users -> SoundWallet] BY <1>1, <1>3 DEF IInv, OpenPool
  <1> DEFINE portion == DebitPortion(wallets[payer], amount)
             d == [status |-> "open", payer |-> payer, max |-> amount,
                   remaining |-> amount, reserved |-> 0, spent |-> 0,
                   refunded |-> 0, withdrawable |-> portion, expires |-> expires]
  <1>5. pools' = [pools EXCEPT ![p] = d] BY DEF OpenPool
  <1> HIDE DEF portion
  <1>6. d \in PoolType BY <1>1, <1>3 DEF PoolType, portion
  <1>7. d.max = d.remaining + d.reserved + d.spent + d.refunded BY <1>1
  <1>8. d \in SoundPool BY <1>1, <1>6, <1>7 DEF SoundPool
  <1> HIDE DEF d
  <1>9. pools' \in [Pools -> SoundPool] BY <1>5, <1>8 DEF IInv
  <1> QED BY <1>4, <1>9 DEF OpenPool, IInv

\* The fields of a sound pool.
PoolFields(d) ==
    /\ d.max \in Nat /\ d.remaining \in Int /\ d.reserved \in Int
    /\ d.spent \in Nat /\ d.refunded \in Int /\ d.withdrawable \in Int
    /\ d.expires \in Nat
    /\ d.max = d.remaining + d.reserved + d.spent + d.refunded
    /\ d.status = "open" => d.payer \in Users

\* A sound pool has them.
LEMMA FieldsOfPool ==
    ASSUME NEW d \in SoundPool
    PROVE  PoolFields(d)
  BY DEF SoundPool, PoolType, PoolFields

\* Refreshing a pool keeps the invariant.
LEMMA RefreshPoolInv ==
    ASSUME IInv, NEW p \in Pools, NEW key \in Keys, NEW amount \in Amounts,
           NEW expires \in Expiries, RefreshPool(p, key, amount, expires)
    PROVE  IInv'
  <1> DEFINE payer == pools[p].payer
             portion == DebitPortion(wallets[payer], amount)
             until == IF expires > clock THEN expires ELSE pools[p].expires
  <1>1. amount \in Nat /\ expires \in Nat BY Inputs
  <1>2. pools[p] \in SoundPool /\ pools[p].status = "open" BY DEF IInv, RefreshPool
  <1>3. PoolFields(pools[p]) BY <1>2, FieldsOfPool
  <1>4. payer \in Users BY <1>2, <1>3 DEF PoolFields
  <1>5. wallets[payer] \in SoundWallet BY <1>4 DEF IInv
  <1>6. SetAside(wallets[payer], amount) \in SoundWallet /\ portion \in Int
    BY <1>1, <1>5, SetAsideSound DEF RefreshPool
  <1>7. wallets' \in [Users -> SoundWallet] BY <1>4, <1>6 DEF IInv, RefreshPool
  <1>8. until \in Nat BY <1>1, <1>3 DEF PoolFields
  <1>9. pools' = [pools EXCEPT ![p] =
           [pools[p] EXCEPT !.max = @ + amount, !.remaining = @ + amount,
                            !.withdrawable = @ + portion, !.expires = until]]
    BY DEF RefreshPool, IInv
  <1> HIDE DEF portion, until
  <1>10. /\ pools[p].max + amount \in Nat
         /\ pools[p].remaining + amount \in Int
         /\ pools[p].withdrawable + portion \in Int
         /\ pools[p].max + amount = (pools[p].remaining + amount) + pools[p].reserved
                                    + pools[p].spent + pools[p].refunded
    BY <1>1, <1>3, <1>6 DEF PoolFields
  <1>11. [pools[p] EXCEPT !.max = @ + amount, !.remaining = @ + amount,
                          !.withdrawable = @ + portion, !.expires = until]
            \in SoundPool
    BY <1>2, <1>8, <1>10 DEF SoundPool, PoolType
  <1>12. pools' \in [Pools -> SoundPool] BY <1>9, <1>11 DEF IInv
  <1>13. applied' \subseteq {"mint", "adjust", "refresh", "debit"} \X Keys
    BY DEF RefreshPool, IInv
  <1> QED BY <1>7, <1>12, <1>13 DEF RefreshPool, IInv

\* Closing a pool keeps the invariant.
LEMMA ClosePoolInv ==
    ASSUME IInv, NEW p \in Pools, NEW caller \in Users, ClosePool(p, caller)
    PROVE  IInv'
  <1> DEFINE payer == pools[p].payer
             rest == pools[p].remaining
             back == Lesser(rest, pools[p].withdrawable)
  <1>1. pools[p] \in SoundPool /\ pools[p].status = "open" BY DEF IInv, ClosePool
  <1>2. PoolFields(pools[p]) BY <1>1, FieldsOfPool
  <1>3. payer \in Users BY <1>1, <1>2 DEF PoolFields
  <1>4. wallets[payer] \in SoundWallet BY <1>3 DEF IInv
  <1>5. wallets' \in [Users -> SoundWallet]
    <2>1. CASE rest > 0
      <3>1. rest \in Nat /\ back \in Int /\ back <= rest
        BY <1>2, <2>1 DEF PoolFields, Lesser
      <3>2. GiveBack(wallets[payer], rest, back, rest) \in SoundWallet
        BY <1>2, <1>4, <2>1, <3>1, GiveBackSound DEF ClosePool, PoolFields
      <3> QED BY <1>2, <1>3, <2>1, <3>2 DEF ClosePool, IInv, PoolFields
    <2>2. CASE rest <= 0
      BY <1>2, <2>2 DEF ClosePool, IInv, PoolFields
    <2> QED BY <1>2, <2>1, <2>2 DEF PoolFields
  <1>6. pools' = [pools EXCEPT ![p] =
           [pools[p] EXCEPT !.status = "closed", !.remaining = 0, !.refunded = @ + rest]]
    BY DEF ClosePool, IInv
  <1>7. /\ pools[p].refunded + rest \in Int
        /\ pools[p].max = 0 + pools[p].reserved + pools[p].spent + (pools[p].refunded + rest)
    BY <1>2 DEF PoolFields
  <1>8. [pools[p] EXCEPT !.status = "closed", !.remaining = 0, !.refunded = @ + rest]
            \in SoundPool
    <2> DEFINE d == [pools[p] EXCEPT !.status = "closed", !.remaining = 0,
                                     !.refunded = @ + rest]
    <2>1. pools[p] \in PoolType BY <1>1 DEF SoundPool
    <2>2. d \in PoolType
      <3>1. \A x \in PoolType : [x EXCEPT !.status = "closed"] \in PoolType
        BY DEF PoolType
      <3>2. \A x \in PoolType : [x EXCEPT !.remaining = 0] \in PoolType
        BY DEF PoolType
      <3>3. \A x \in PoolType, r \in Int : [x EXCEPT !.refunded = r] \in PoolType
        BY DEF PoolType
      <3>4. \A x \in PoolType, r \in Int :
               [x EXCEPT !.status = "closed", !.remaining = 0, !.refunded = r] \in PoolType
        BY <3>1, <3>2, <3>3, Zenon
      <3> QED BY <1>7, <2>1, <3>4
    <2>3. /\ d.max = pools[p].max /\ d.remaining = 0 /\ d.reserved = pools[p].reserved
          /\ d.spent = pools[p].spent /\ d.refunded = pools[p].refunded + rest
          /\ d.status = "closed"
      BY <2>1 DEF PoolType
    <2> HIDE DEF d
    <2>4. d.max = d.remaining + d.reserved + d.spent + d.refunded BY <1>7, <2>3
    <2>5. d \in SoundPool BY <2>2, <2>3, <2>4 DEF SoundPool
    <2> QED BY <2>5 DEF d
  <1>9. pools' \in [Pools -> SoundPool] BY <1>6, <1>8 DEF IInv
  <1> QED BY <1>5, <1>9 DEF ClosePool, IInv

\* Reserving from a pool keeps the invariant.
LEMMA ReservePoolInv ==
    ASSUME IInv, NEW p \in Pools, NEW run \in Runs, NEW amount \in Amounts,
           ReservePool(p, run, amount)
    PROVE  IInv'
  <1>1. amount \in Nat BY Inputs
  <1>2. pools[p] \in SoundPool /\ pools[p].status = "open" BY DEF IInv, ReservePool
  <1>3. PoolFields(pools[p]) BY <1>2, FieldsOfPool
  <1>4. pools' = [pools EXCEPT ![p] =
           [pools[p] EXCEPT !.remaining = @ - amount, !.reserved = @ + amount]]
    BY DEF ReservePool, IInv
  <1>5. /\ pools[p].remaining - amount \in Int
        /\ pools[p].reserved + amount \in Int
        /\ pools[p].max = (pools[p].remaining - amount) + (pools[p].reserved + amount)
                          + pools[p].spent + pools[p].refunded
    BY <1>1, <1>3 DEF PoolFields
  <1>6. [pools[p] EXCEPT !.remaining = @ - amount, !.reserved = @ + amount] \in SoundPool
    BY <1>2, <1>5 DEF SoundPool, PoolType
  <1>7. pools' \in [Pools -> SoundPool] BY <1>4, <1>6 DEF IInv
  <1>8. PICK caps \in Shares(pools[p].payer, amount) :
          reservations' = [reservations EXCEPT ![run] =
             [NoReservation EXCEPT !.status = "reserved", !.pool = p,
                                   !.payer = pools[p].payer, !.amount = amount,
                                   !.caps = caps]]
    BY DEF ReservePool
  <1>9. caps \in Share BY <1>1, SharesAreShares
  <1>10. NoLines \in Share BY DEF NoLines, Share
  <1>11. [NoReservation EXCEPT !.status = "reserved", !.pool = p,
              !.payer = pools[p].payer, !.amount = amount, !.caps = caps]
            \in SoundReservation
    BY <1>1, <1>2, <1>3, <1>9, <1>10
       DEF SoundReservation, ReservationType, NoReservation, PoolFields
  <1>12. reservations' \in [Runs -> SoundReservation] BY <1>8, <1>11 DEF IInv
  <1> QED BY <1>7, <1>12 DEF ReservePool, IInv

\* A payer charged out of what is held stays sound.
LEMMA ChargeSound ==
    ASSUME NEW w \in SoundWallet, NEW amount \in Nat, w.held - amount >= 0
    PROVE  [w EXCEPT !.held = @ - amount, !.spent = @ + amount] \in SoundWallet
  <1>1. WalletFields(w) BY FieldsOfWallet
  <1>2. w.held - amount \in Nat /\ w.spent + amount \in Nat BY <1>1 DEF WalletFields
  <1> QED BY <1>2 DEF SoundWallet, Wallet

\* Settling a run keeps the invariant.
LEMMA SettlePoolInv ==
    ASSUME IInv, NEW run \in Runs, SettlePool(run)
    PROVE  IInv'
  <1> DEFINE p == reservations[run].pool
             payer == reservations[run].payer
             slice == reservations[run].amount
  <1>1. reservations[run] \in SoundReservation /\ reservations[run].status = "reserved"
    BY DEF IInv, SettlePool
  <1>2. p \in Pools /\ payer \in Users /\ slice \in Nat
    BY <1>1 DEF SoundReservation, ReservationType
  <1>3. PICK actual \in 0..slice, lines \in Shares(payer, slice) :
          /\ wallets[payer].held - actual >= 0
          /\ wallets' = [u \in Users |->
                 IF u = payer
                 THEN [wallets[u] EXCEPT !.held = @ - actual, !.spent = @ + actual]
                 ELSE Earn(wallets[u], lines[u])]
          /\ pools' = [pools EXCEPT ![p].remaining = @ + slice - actual,
                                    ![p].reserved = @ - slice,
                                    ![p].spent = @ + actual]
          /\ reservations' = [reservations EXCEPT ![run].status = "settled",
                                                  ![run].lines = lines]
    BY DEF SettlePool
  <1>4. actual \in Nat BY <1>2
  <1>5. lines \in Share BY <1>2, SharesAreShares
  <1>6. wallets[payer] \in SoundWallet BY <1>2 DEF IInv
  <1>7. [wallets[payer] EXCEPT !.held = @ - actual, !.spent = @ + actual] \in SoundWallet
    BY <1>3, <1>4, <1>6, ChargeSound
  <1>8. \A u \in Users : Earn(wallets[u], lines[u]) \in SoundWallet
    BY <1>5, EarnSound DEF IInv, Share
  <1>9. wallets' \in [Users -> SoundWallet] BY <1>3, <1>7, <1>8
  <1>10. pools[p] \in SoundPool BY <1>2 DEF IInv
  <1>11. PoolFields(pools[p]) BY <1>10, FieldsOfPool
  <1>12. pools' = [pools EXCEPT ![p] =
            [pools[p] EXCEPT !.remaining = @ + slice - actual, !.reserved = @ - slice,
                             !.spent = @ + actual]]
    BY <1>3 DEF IInv
  <1>13. /\ pools[p].remaining + slice - actual \in Int
         /\ pools[p].reserved - slice \in Int
         /\ pools[p].spent + actual \in Nat
         /\ pools[p].max = (pools[p].remaining + slice - actual)
               + (pools[p].reserved - slice) + (pools[p].spent + actual)
               + pools[p].refunded
    BY <1>2, <1>4, <1>11 DEF PoolFields
  <1>14. [pools[p] EXCEPT !.remaining = @ + slice - actual, !.reserved = @ - slice,
                          !.spent = @ + actual] \in SoundPool
    BY <1>10, <1>13 DEF SoundPool, PoolType
  <1>15. pools' \in [Pools -> SoundPool] BY <1>12, <1>14 DEF IInv
  <1>16. reservations' = [reservations EXCEPT ![run] =
            [reservations[run] EXCEPT !.status = "settled", !.lines = lines]]
    BY <1>3 DEF IInv
  <1>17. [reservations[run] EXCEPT !.status = "settled", !.lines = lines]
            \in SoundReservation
    BY <1>1, <1>5 DEF SoundReservation, ReservationType
  <1>18. reservations' \in [Runs -> SoundReservation] BY <1>16, <1>17 DEF IInv
  <1> QED BY <1>9, <1>15, <1>18 DEF SettlePool, IInv

\* Releasing a reservation keeps the invariant.
LEMMA ReleasePoolInv ==
    ASSUME IInv, NEW run \in Runs, NEW caller \in Users, ReleasePool(run, caller)
    PROVE  IInv'
  <1> DEFINE p == reservations[run].pool
             slice == reservations[run].amount
  <1>1. reservations[run] \in SoundReservation /\ reservations[run].status = "reserved"
    BY DEF IInv, ReleasePool
  <1>2. p \in Pools /\ slice \in Nat BY <1>1 DEF SoundReservation, ReservationType
  <1>3. pools[p] \in SoundPool BY <1>2 DEF IInv
  <1>4. PoolFields(pools[p]) BY <1>3, FieldsOfPool
  <1>5. pools' = [pools EXCEPT ![p] =
           [pools[p] EXCEPT !.remaining = @ + slice, !.reserved = @ - slice]]
    BY DEF ReleasePool, IInv
  <1>6. /\ pools[p].remaining + slice \in Int
        /\ pools[p].reserved - slice \in Int
        /\ pools[p].max = (pools[p].remaining + slice) + (pools[p].reserved - slice)
                          + pools[p].spent + pools[p].refunded
    BY <1>2, <1>4 DEF PoolFields
  <1>7. [pools[p] EXCEPT !.remaining = @ + slice, !.reserved = @ - slice] \in SoundPool
    BY <1>3, <1>6 DEF SoundPool, PoolType
  <1>8. pools' \in [Pools -> SoundPool] BY <1>5, <1>7 DEF IInv
  <1>9. reservations' = [reservations EXCEPT ![run] =
           [reservations[run] EXCEPT !.status = "released"]]
    BY DEF ReleasePool, IInv
  <1>10. [reservations[run] EXCEPT !.status = "released"] \in SoundReservation
    BY <1>1 DEF SoundReservation, ReservationType
  <1>11. reservations' \in [Runs -> SoundReservation] BY <1>9, <1>10 DEF IInv
  <1> QED BY <1>8, <1>11 DEF ReleasePool, IInv

\* Debiting a pool keeps the invariant.
LEMMA DebitPoolInv ==
    ASSUME IInv, NEW p \in Pools, NEW run \in Runs, NEW key \in Keys,
           DebitPool(p, run, key)
    PROVE  IInv'
  <1> DEFINE payer == pools[p].payer
             rest == pools[p].remaining
  <1>1. pools[p] \in SoundPool /\ pools[p].status = "open" BY DEF IInv, DebitPool
  <1>2. PoolFields(pools[p]) BY <1>1, FieldsOfPool
  <1>3. payer \in Users /\ rest \in Int BY <1>1, <1>2 DEF PoolFields
  <1>4. PICK delta \in 1..rest, lines \in Shares(payer, rest) :
          /\ wallets[payer].held - delta >= 0
          /\ wallets' = [u \in Users |->
                 IF u = payer
                 THEN [wallets[u] EXCEPT !.held = @ - delta, !.spent = @ + delta]
                 ELSE Earn(wallets[u], lines[u])]
          /\ pools' = [pools EXCEPT ![p].remaining = @ - delta, ![p].spent = @ + delta]
          /\ debits' = [debits EXCEPT ![run] =
                 [payer |-> IF debits[run].payer = None THEN payer
                                                        ELSE debits[run].payer,
                  credits |-> [u \in Users |-> debits[run].credits[u] + lines[u]]]]
    BY DEF DebitPool
  <1>5. delta \in Nat BY <1>3
  <1>6. lines \in Share BY <1>3, SharesAreShares
  <1>7. wallets[payer] \in SoundWallet BY <1>3 DEF IInv
  <1>8. [wallets[payer] EXCEPT !.held = @ - delta, !.spent = @ + delta] \in SoundWallet
    BY <1>4, <1>5, <1>7, ChargeSound
  <1>9. \A u \in Users : Earn(wallets[u], lines[u]) \in SoundWallet
    BY <1>6, EarnSound DEF IInv, Share
  <1>10. wallets' \in [Users -> SoundWallet] BY <1>4, <1>8, <1>9
  <1>11. pools' = [pools EXCEPT ![p] =
            [pools[p] EXCEPT !.remaining = @ - delta, !.spent = @ + delta]]
    BY <1>4 DEF IInv
  <1>12. /\ rest - delta \in Int
         /\ pools[p].spent + delta \in Nat
         /\ pools[p].max = (rest - delta) + pools[p].reserved
               + (pools[p].spent + delta) + pools[p].refunded
    BY <1>2, <1>5 DEF PoolFields
  <1>13. [pools[p] EXCEPT !.remaining = @ - delta, !.spent = @ + delta] \in SoundPool
    BY <1>1, <1>12 DEF SoundPool, PoolType
  <1>14. pools' \in [Pools -> SoundPool] BY <1>11, <1>13 DEF IInv
  <1> DEFINE credits == [u \in Users |-> debits[run].credits[u] + lines[u]]
             who == IF debits[run].payer = None THEN payer ELSE debits[run].payer
  <1>15. debits[run] \in DebitType BY DEF IInv
  <1>16. credits \in Share /\ who \in Users \cup {None}
    BY <1>3, <1>6, <1>15 DEF DebitType, Share
  <1>17. debits' = [debits EXCEPT ![run] = [payer |-> who, credits |-> credits]]
    BY <1>4
  <1> HIDE DEF credits, who
  <1>18. debits' \in [Runs -> DebitType] BY <1>16, <1>17 DEF IInv, DebitType
  <1>19. applied' = applied \cup {<<"debit", key>>} BY DEF DebitPool
  <1>20. applied' \subseteq {"mint", "adjust", "refresh", "debit"} \X Keys
    BY <1>19 DEF IInv
  <1> QED BY <1>10, <1>14, <1>18, <1>20 DEF DebitPool, IInv

-----------------------------------------------------------------------------
(* Payments, transfers and payouts *)

\* A payment keeps the invariant.
LEMMA MintInv ==
    ASSUME IInv, NEW user \in Users, NEW key \in Keys, NEW amount \in Amounts,
           Mint(user, key, amount)
    PROVE  IInv'
  <1>1. amount \in Nat BY Inputs
  <1>2. wallets[user] \in SoundWallet BY DEF IInv
  <1>3. TopUp(wallets[user], amount) \in SoundWallet BY <1>1, <1>2, TopUpSound
  <1>4. wallets' \in [Users -> SoundWallet] BY <1>3 DEF Mint, IInv
  <1>5. external' \in [payments : Int, payouts : Nat] BY <1>1 DEF Mint, IInv
  <1>6. applied' \subseteq {"mint", "adjust", "refresh", "debit"} \X Keys
    BY DEF Mint, IInv
  <1> QED BY <1>4, <1>5, <1>6 DEF Mint, IInv

\* A reversal or a correction keeps the invariant.
LEMMA PaymentAdjustmentInv ==
    ASSUME IInv, NEW user \in Users, NEW key \in Keys, NEW amount \in Amounts,
           PaymentAdjustment(user, key, amount)
    PROVE  IInv'
  <1>1. amount \in Nat BY Inputs
  <1>2. wallets[user] \in SoundWallet BY DEF IInv
  <1>3. /\ TopUp(wallets[user], amount) \in SoundWallet
        /\ Reverse(wallets[user], amount) \in SoundWallet
    BY <1>1, <1>2, TopUpSound, ReverseSound
  <1>4. wallets' \in [Users -> SoundWallet] BY <1>3 DEF PaymentAdjustment, IInv
  <1>5. external' \in [payments : Int, payouts : Nat]
    BY <1>1 DEF PaymentAdjustment, IInv
  <1>6. applied' \subseteq {"mint", "adjust", "refresh", "debit"} \X Keys
    BY DEF PaymentAdjustment, IInv
  <1> QED BY <1>4, <1>5, <1>6 DEF PaymentAdjustment, IInv

\* A transfer keeps the invariant: what the sender loses of the withdrawable
\* counter leaves it within the balance, and what the target gains of it is
\* never more than what it gains of the balance.
LEMMA TransferInv ==
    ASSUME IInv, NEW from \in Users, NEW to \in Users, NEW amount \in Amounts,
           Transfer(from, to, amount)
    PROVE  IInv'
  <1> DEFINE f == wallets[from]
             t == wallets[to]
             sent == DebitPortion(f, amount)
             repaid == Lesser(t.debt, amount)
             received == sent - (repaid - (amount - sent))
             paid == [f EXCEPT !.balance = @ - amount, !.withdrawable = @ - sent]
             got == [t EXCEPT !.balance = @ + amount - repaid,
                              !.withdrawable = @ + received, !.debt = @ - repaid]
  <1>1. amount \in Nat BY Inputs
  <1>2. f \in SoundWallet /\ t \in SoundWallet BY DEF IInv
  <1>3. WalletFields(f) /\ WalletFields(t) BY <1>2, FieldsOfWallet
  <1>4. sent \in Int /\ f.withdrawable - sent = f.balance - amount
    BY <1>1, <1>3 DEF DebitPortion, WalletFields
  <1>5. repaid \in Nat /\ repaid <= t.debt /\ repaid <= amount
    BY <1>1, <1>3 DEF Lesser, WalletFields
  <1>6. /\ from # to
        /\ f.withdrawable - sent >= 0
        /\ t.withdrawable + received >= 0
        /\ wallets' = [wallets EXCEPT ![from] = paid, ![to] = got]
    BY DEF Transfer, IInv
  <1>7. received = amount - repaid
    BY <1>1, <1>4, <1>5
  <1> HIDE DEF sent, repaid, received
  <1>8. /\ f.balance - amount \in Nat
        /\ f.withdrawable - sent \in Nat
        /\ f.withdrawable - sent <= (f.balance - amount) + f.locked
    BY <1>1, <1>3, <1>4, <1>6 DEF WalletFields
  <1>9. /\ t.balance + amount - repaid \in Nat
        /\ t.withdrawable + received \in Nat
        /\ t.withdrawable + received <= (t.balance + amount - repaid) + t.locked
        /\ t.debt - repaid \in Nat
    BY <1>1, <1>3, <1>5, <1>6, <1>7 DEF WalletFields
  <1> HIDE DEF f, t
  <1>10. paid \in SoundWallet BY <1>2, <1>8 DEF SoundWallet, Wallet
  <1>11. got \in SoundWallet BY <1>2, <1>9 DEF SoundWallet, Wallet
  <1> HIDE DEF paid, got
  <1>12. wallets' \in [Users -> SoundWallet] BY <1>6, <1>10, <1>11 DEF IInv
  <1> QED BY <1>12 DEF Transfer, IInv

\* Requesting a payout keeps the invariant.
LEMMA RequestPayoutInv ==
    ASSUME IInv, NEW q \in Payouts, NEW user \in Users, NEW amount \in Amounts,
           RequestPayout(q, user, amount)
    PROVE  IInv'
  <1> DEFINE w == wallets[user]
             paid == [w EXCEPT !.balance = @ - amount, !.withdrawable = @ - amount,
                               !.payoutHeld = @ + amount]
  <1>1. amount \in Nat BY Inputs
  <1>2. w \in SoundWallet BY DEF IInv
  <1>3. WalletFields(w) BY <1>2, FieldsOfWallet
  <1>4. /\ w.balance - amount \in Nat
        /\ w.withdrawable - amount \in Nat
        /\ w.withdrawable - amount <= (w.balance - amount) + w.locked
        /\ w.payoutHeld + amount \in Nat
    BY <1>1, <1>3 DEF RequestPayout, WalletFields
  <1>5. wallets' = [wallets EXCEPT ![user] = paid] BY DEF RequestPayout, IInv
  <1> HIDE DEF w
  <1>6. paid \in SoundWallet BY <1>2, <1>4 DEF SoundWallet, Wallet
  <1> HIDE DEF paid
  <1>7. wallets' \in [Users -> SoundWallet] BY <1>5, <1>6 DEF IInv
  <1>8. payouts' \in [Payouts -> SoundPayout]
    BY <1>1 DEF RequestPayout, IInv, SoundPayout, PayoutType
  <1> QED BY <1>7, <1>8 DEF RequestPayout, IInv

\* Resolving a payout keeps the invariant.
LEMMA ResolvePayoutInv ==
    ASSUME IInv, NEW q \in Payouts, NEW status \in {"paid", "rejected"},
           ResolvePayout(q, status)
    PROVE  IInv'
  <1> DEFINE user == payouts[q].user
             amount == payouts[q].amount
             w == wallets[user]
             paid == [w EXCEPT !.payoutHeld = @ - amount]
             back == [w EXCEPT !.payoutHeld = @ - amount, !.balance = @ + amount,
                               !.withdrawable = @ + amount]
  <1>1. payouts[q] \in SoundPayout /\ payouts[q].status = "pending"
    BY DEF IInv, ResolvePayout
  <1>2. user \in Users /\ amount \in Nat BY <1>1 DEF SoundPayout, PayoutType
  <1>3. w \in SoundWallet BY <1>2 DEF IInv
  <1>4. WalletFields(w) BY <1>3, FieldsOfWallet
  <1>5. /\ w.payoutHeld - amount \in Nat
        /\ w.balance + amount \in Nat
        /\ w.withdrawable + amount \in Nat
        /\ w.withdrawable + amount <= (w.balance + amount) + w.locked
    BY <1>2, <1>4 DEF ResolvePayout, WalletFields
  <1>6. wallets' = [wallets EXCEPT ![user] = back] \/ wallets' = [wallets EXCEPT ![user] = paid]
    BY <1>2 DEF ResolvePayout, IInv
  <1>7. payouts' = [payouts EXCEPT ![q] = [payouts[q] EXCEPT !.status = status]]
    BY DEF ResolvePayout, IInv
  <1>8. [payouts[q] EXCEPT !.status = status] \in SoundPayout
    BY <1>1 DEF SoundPayout, PayoutType
  <1>9. payouts' \in [Payouts -> SoundPayout] BY <1>7, <1>8 DEF IInv
  <1>10. external' \in [payments : Int, payouts : Nat]
    BY <1>2 DEF ResolvePayout, IInv
  <1> HIDE DEF w
  <1>11. paid \in SoundWallet /\ back \in SoundWallet
    BY <1>3, <1>5 DEF SoundWallet, Wallet
  <1> HIDE DEF paid, back
  <1>12. wallets' \in [Users -> SoundWallet] BY <1>2, <1>6, <1>11 DEF IInv
  <1> QED BY <1>9, <1>10, <1>12 DEF ResolvePayout, IInv

-----------------------------------------------------------------------------
(* Token locks and the project *)

\* Locking a token keeps the invariant: what the balance loses, it locked.
LEMMA LockTokenInv ==
    ASSUME IInv, NEW l \in Locks, NEW payer \in Users, NEW payee \in Users,
           NEW amount \in Amounts, NEW unlocks \in Expiries,
           LockToken(l, payer, payee, amount, unlocks)
    PROVE  IInv'
  <1> DEFINE w == wallets[payer]
             paid == [w EXCEPT !.balance = @ - amount, !.locked = @ + amount]
  <1>1. amount \in Nat /\ unlocks \in Nat BY Inputs
  <1>2. w \in SoundWallet BY DEF IInv
  <1>3. WalletFields(w) BY <1>2, FieldsOfWallet
  <1>4. /\ w.balance - amount \in Nat
        /\ w.locked + amount \in Nat
        /\ w.withdrawable <= (w.balance - amount) + (w.locked + amount)
    BY <1>1, <1>3 DEF LockToken, WalletFields
  <1>5. wallets' = [wallets EXCEPT ![payer] = paid] BY DEF LockToken, IInv
  <1> HIDE DEF w
  <1>6. paid \in SoundWallet BY <1>2, <1>4 DEF SoundWallet, Wallet
  <1> HIDE DEF paid
  <1>7. wallets' \in [Users -> SoundWallet] BY <1>5, <1>6 DEF IInv
  <1>8. locks' \in [Locks -> SoundLock]
    BY <1>1 DEF LockToken, IInv, SoundLock, LockType
  <1> QED BY <1>7, <1>8 DEF LockToken, IInv

\* Consuming a lock keeps the invariant.
LEMMA ConsumeLockInv ==
    ASSUME IInv, NEW l \in Locks, ConsumeLock(l)
    PROVE  IInv'
  <1> DEFINE payee == locks[l].payee
             amount == locks[l].amount
             w == wallets[payee]
             got == [w EXCEPT !.balance = @ + amount]
  <1>1. locks[l] \in SoundLock /\ locks[l].status = "locked" BY DEF IInv, ConsumeLock
  <1>2. payee \in Users /\ amount \in Nat BY <1>1 DEF SoundLock, LockType
  <1>3. w \in SoundWallet BY <1>2 DEF IInv
  <1>4. WalletFields(w) BY <1>3, FieldsOfWallet
  <1>5. w.balance + amount \in Nat /\ w.withdrawable <= (w.balance + amount) + w.locked
    BY <1>2, <1>4 DEF WalletFields
  <1>6. wallets' = [wallets EXCEPT ![payee] = got] BY <1>2 DEF ConsumeLock, IInv
  <1>7. locks' = [locks EXCEPT ![l] = [locks[l] EXCEPT !.status = "consumed"]]
    BY DEF ConsumeLock, IInv
  <1>8. [locks[l] EXCEPT !.status = "consumed"] \in SoundLock
    BY <1>1 DEF SoundLock, LockType
  <1>9. locks' \in [Locks -> SoundLock] BY <1>7, <1>8 DEF IInv
  <1> HIDE DEF w
  <1>10. got \in SoundWallet BY <1>3, <1>5 DEF SoundWallet, Wallet
  <1> HIDE DEF got
  <1>11. wallets' \in [Users -> SoundWallet] BY <1>2, <1>6, <1>10 DEF IInv
  <1> QED BY <1>9, <1>11 DEF ConsumeLock, IInv

\* The project's owner changes its metadata: the budgets it was given only grow.
LEMMA ConfigureProjectInv ==
    ASSUME IInv, ConfigureProject
    PROVE  IInv'
  <1>1. PICK b \in Budgets, s \in Spendings :
          project' = [budget |-> b, spent |-> s, budgets |-> project.budgets \cup {b}]
    BY DEF ConfigureProject
  <1>2. b \in Nat /\ s \in Nat BY AmountsAssumption
  <1>3. project' \in SoundProject BY <1>1, <1>2 DEF IInv, SoundProject
  <1>4. project.budgets \subseteq project'.budgets BY <1>1
  <1>5. budget' = budget /\ budget \in SoundBudget(project.budgets)
    BY DEF ConfigureProject, IInv
  <1>6. budget' \in SoundBudget(project'.budgets) BY <1>4, <1>5 DEF SoundBudget
  <1> QED BY <1>3, <1>6 DEF ConfigureProject, IInv

-----------------------------------------------------------------------------
(* Every step *)

\* Every step of the node keeps the invariant.
LEMMA NextInv ==
    ASSUME IInv, [Next]_vars
    PROVE  IInv'
  <1>1. CASE HoldStep
    BY <1>1, CreateHoldInv, StartHoldInv, SettleHoldInv, ReleaseHoldInv DEF HoldStep
  <1>2. CASE PoolStep
    BY <1>2, OpenPoolInv, RefreshPoolInv, ClosePoolInv, ReservePoolInv, DebitPoolInv,
       SettlePoolInv, ReleasePoolInv DEF PoolStep
  <1>3. CASE WalletStep
    BY <1>3, MintInv, PaymentAdjustmentInv, TransferInv, RequestPayoutInv,
       ResolvePayoutInv DEF WalletStep
  <1>4. CASE LockStep BY <1>4, LockTokenInv, ConsumeLockInv DEF LockStep
  <1>5. CASE ConfigureProject BY <1>5, ConfigureProjectInv
  <1>6. CASE Tick BY <1>6 DEF Tick, IInv
  <1>7. CASE Repeat \/ UNCHANGED vars BY <1>7 DEF Repeat, IInv, vars
  <1> QED BY <1>1, <1>2, <1>3, <1>4, <1>5, <1>6, <1>7 DEF Next, MoneyStep

-----------------------------------------------------------------------------
(* The sums of the audit *)

\* What a hold adds to the held counter of u, and to the reserved budget.
HoldPart(d, u) == IF d.status \in {"open", "running"} /\ d.payer = u THEN d.max ELSE 0
BudgetPart(d) == IF d.status \in {"open", "running"} THEN d.max ELSE 0

\* What a pool adds to the held counter of u.
PoolPart(d, u) == IF d.status = "open" /\ d.payer = u THEN d.remaining + d.reserved ELSE 0

\* What a reservation adds to what pool p has reserved.
ReservedPart(d, p) == IF d.status = "reserved" /\ d.pool = p THEN d.amount ELSE 0

\* What a payout adds to the payout-held counter of u.
PayoutPart(d, u) == IF d.status = "pending" /\ d.user = u THEN d.amount ELSE 0

\* What a lock keeps out of the wallets.
LockPart(d) == IF d.status = "locked" THEN d.amount ELSE 0

\* What a wallet owns.
Worth(w) == w.balance + w.held + w.payoutHeld - w.debt

\* The totals of the audit.
HoldsHeld(u) == SumFunction([h \in Holds |-> HoldPart(holds[h], u)])
PoolsHeld(u) == SumFunction([p \in Pools |-> PoolPart(pools[p], u)])
Reserved(p) == SumFunction([r \in Runs |-> ReservedPart(reservations[r], p)])
PayoutsHeld(u) == SumFunction([q \in Payouts |-> PayoutPart(payouts[q], u)])
HoldsEarned(u) == SumFunction([h \in Holds |-> holds[h].lines[u]])
RunsEarned(u) == SumFunction([r \in Runs |-> reservations[r].lines[u] + debits[r].credits[u]])
BudgetReserved == SumFunction([h \in ProjectHolds |-> BudgetPart(holds[h])])
BudgetSpent == SumFunction([h \in ProjectHolds |-> SumFunction(holds[h].lines)])
TotalWorth == SumFunction([u \in Users |-> Worth(wallets[u])])
TotalSpent == SumFunction([u \in Users |-> wallets[u].spent])
TotalEarned == SumFunction([u \in Users |-> wallets[u].earned])
TotalLocked == SumFunction([l \in Locks |-> LockPart(locks[l])])

\* What came into the wallets from outside, and is neither paid out nor locked.
Outer == external.payments - external.payouts - TotalLocked

\* Only a settled hold or reservation has lines; a reservation is charged to the
\* payer of its pool, which has been opened; a pool that has not has none.
DocumentsInv ==
    /\ \A h \in Holds : holds[h].status # "settled" => holds[h].lines = NoLines
    /\ \A r \in Runs : reservations[r].status # "settled" => reservations[r].lines = NoLines
    /\ \A r \in Runs : reservations[r].status = "reserved" =>
          /\ reservations[r].payer = pools[reservations[r].pool].payer
          /\ pools[reservations[r].pool].status # "none"
    /\ \A p \in Pools : pools[p].status = "none" => pools[p].reserved = 0

PoolBooks ==
    \A p \in Pools : /\ pools[p].remaining >= 0 /\ pools[p].refunded >= 0
                     /\ pools[p].reserved = Reserved(p)

HeldBooks == \A u \in Users : wallets[u].held = HoldsHeld(u) + PoolsHeld(u)

PayoutBooks == \A u \in Users : wallets[u].payoutHeld = PayoutsHeld(u)

EarnedBooks == \A u \in Users : wallets[u].earned = HoldsEarned(u) + RunsEarned(u)

MoneyBooks ==
    /\ TotalWorth = Cardinality(Users) * OpeningBalance + Outer
    /\ TotalSpent = TotalEarned

BudgetBooks == budget.reserved = BudgetReserved /\ budget.spent >= BudgetSpent

\* The inductive invariant of the audit.
AInv == /\ DocumentsInv /\ PoolBooks /\ HeldBooks /\ PayoutBooks
        /\ EarnedBooks /\ MoneyBooks /\ BudgetBooks

\* The totals are over finite sets of integers.
LEMMA SummandTypes ==
    ASSUME IInv
    PROVE  /\ \A u \in Users : /\ [h \in Holds |-> HoldPart(holds[h], u)] \in [Holds -> Int]
                               /\ [p \in Pools |-> PoolPart(pools[p], u)] \in [Pools -> Int]
                               /\ [q \in Payouts |-> PayoutPart(payouts[q], u)] \in [Payouts -> Int]
                               /\ [h \in Holds |-> holds[h].lines[u]] \in [Holds -> Int]
                               /\ [r \in Runs |-> reservations[r].lines[u] + debits[r].credits[u]]
                                     \in [Runs -> Int]
           /\ \A p \in Pools : [r \in Runs |-> ReservedPart(reservations[r], p)] \in [Runs -> Int]
           /\ [h \in ProjectHolds |-> BudgetPart(holds[h])] \in [ProjectHolds -> Int]
           /\ [h \in ProjectHolds |-> SumFunction(holds[h].lines)] \in [ProjectHolds -> Int]
           /\ [u \in Users |-> Worth(wallets[u])] \in [Users -> Int]
           /\ [u \in Users |-> wallets[u].spent] \in [Users -> Int]
           /\ [u \in Users |-> wallets[u].earned] \in [Users -> Int]
           /\ [l \in Locks |-> LockPart(locks[l])] \in [Locks -> Int]
  <1>1. \A h \in Holds : /\ holds[h].max \in Nat
                         /\ holds[h].lines \in [Users -> Int]
                         /\ \A u \in Users : holds[h].lines[u] \in Int
    BY DEF IInv, SoundHold, HoldType, Share
  <1>2. \A p \in Pools : pools[p].remaining + pools[p].reserved \in Int
    BY DEF IInv, SoundPool, PoolType
  <1>3. \A r \in Runs : /\ reservations[r].amount \in Int
                        /\ \A u \in Users : reservations[r].lines[u] + debits[r].credits[u] \in Int
    <2> TAKE r \in Runs
    <2>1. /\ reservations[r].amount \in Int
          /\ \A u \in Users : reservations[r].lines[u] \in Int
      BY DEF IInv, SoundReservation, ReservationType, Share
    <2>2. \A u \in Users : debits[r].credits[u] \in Int
      BY DEF IInv, DebitType, Share
    <2> QED BY <2>1, <2>2
  <1>4. \A q \in Payouts : payouts[q].amount \in Int
    BY DEF IInv, SoundPayout, PayoutType
  <1>5. \A u \in Users : /\ Worth(wallets[u]) \in Int
                         /\ wallets[u].spent \in Int /\ wallets[u].earned \in Int
    <2> TAKE u \in Users
    <2>1. WalletFields(wallets[u])
      BY FieldsOfWallet DEF IInv
    <2> QED BY <2>1 DEF WalletFields, Worth
  <1>6. \A h \in Holds : SumFunction(holds[h].lines) \in Int
    BY <1>1, TotalType, PartiesAssumption
  <1>7. ProjectHolds \subseteq Holds
    BY PartiesAssumption
  <1>8. \A u \in Users : /\ \A h \in Holds : HoldPart(holds[h], u) \in Int
                         /\ \A p \in Pools : PoolPart(pools[p], u) \in Int
                         /\ \A q \in Payouts : PayoutPart(payouts[q], u) \in Int
    BY <1>1, <1>2, <1>4 DEF HoldPart, PoolPart, PayoutPart
  <1>9. \A p \in Pools, r \in Runs : ReservedPart(reservations[r], p) \in Int
    BY <1>3 DEF ReservedPart
  <1>10. \A h \in ProjectHolds : BudgetPart(holds[h]) \in Int
    BY <1>1, <1>7 DEF BudgetPart
  <1>11. \A l \in Locks : LockPart(locks[l]) \in Int
    BY DEF IInv, SoundLock, LockType, LockPart
  <1> QED BY <1>1, <1>3, <1>5, <1>6, <1>7, <1>8, <1>9, <1>10, <1>11

\* The totals are integers.
LEMMA TotalsAreIntegers ==
    ASSUME IInv
    PROVE  /\ \A u \in Users : /\ HoldsHeld(u) \in Int /\ PoolsHeld(u) \in Int
                               /\ PayoutsHeld(u) \in Int
                               /\ HoldsEarned(u) \in Int /\ RunsEarned(u) \in Int
           /\ \A p \in Pools : Reserved(p) \in Int
           /\ BudgetReserved \in Int /\ BudgetSpent \in Int
           /\ TotalWorth \in Int /\ TotalSpent \in Int /\ TotalEarned \in Int
           /\ TotalLocked \in Int /\ Outer \in Int
  <1>1. IsFiniteSet(Users) /\ IsFiniteSet(ProjectHolds)
    BY PartiesAssumption, DocumentsAssumption, FS_Subset
  <1>2. \A u \in Users : HoldsHeld(u) \in Int
    BY SummandTypes, TotalType, DocumentsAssumption DEF HoldsHeld
  <1>3. \A u \in Users : PoolsHeld(u) \in Int
    BY SummandTypes, TotalType, DocumentsAssumption DEF PoolsHeld
  <1>4. \A u \in Users : PayoutsHeld(u) \in Int
    BY SummandTypes, TotalType, DocumentsAssumption DEF PayoutsHeld
  <1>5. \A u \in Users : HoldsEarned(u) \in Int
    BY SummandTypes, TotalType, DocumentsAssumption DEF HoldsEarned
  <1>6. \A u \in Users : RunsEarned(u) \in Int
    BY SummandTypes, TotalType, DocumentsAssumption DEF RunsEarned
  <1>7. \A p \in Pools : Reserved(p) \in Int
    BY SummandTypes, TotalType, DocumentsAssumption DEF Reserved
  <1>8. BudgetReserved \in Int /\ BudgetSpent \in Int
    BY <1>1, SummandTypes, TotalType DEF BudgetReserved, BudgetSpent
  <1>9. TotalWorth \in Int /\ TotalSpent \in Int /\ TotalEarned \in Int
    BY <1>1, SummandTypes, TotalType DEF TotalWorth, TotalSpent, TotalEarned
  <1>10. TotalLocked \in Int
    BY SummandTypes, TotalType, DocumentsAssumption DEF TotalLocked
  <1>11. Outer \in Int
    BY <1>10 DEF Outer, IInv
  <1> QED BY <1>2, <1>3, <1>4, <1>5, <1>6, <1>7, <1>8, <1>9, <1>10, <1>11

\* The books say what the audit checks.
LEMMA AuditImplies ==
    ASSUME IInv, AInv
    PROVE  BooksAddUp /\ MoneyIsConserved /\ BudgetIsKept
  <1>1. \A u \in Users : HeldExpected(u) = HoldsHeld(u) + PoolsHeld(u)
    BY DEF HeldExpected, HoldsHeld, PoolsHeld, HoldPart, PoolPart, Active
  <1>2. \A p \in Pools : PoolReservedExpected(p) = Reserved(p)
    BY DEF PoolReservedExpected, Reserved, ReservedPart
  <1>3. \A u \in Users : PayoutHeldExpected(u) = PayoutsHeld(u)
    BY DEF PayoutHeldExpected, PayoutsHeld, PayoutPart
  <1>4. \A u \in Users : EarnedExpected(u) = HoldsEarned(u) + RunsEarned(u)
    BY DEF EarnedExpected, HoldsEarned, RunsEarned
  <1>5. BudgetReservedExpected = BudgetReserved /\ BudgetSpentExpected = BudgetSpent
    BY DEF BudgetReservedExpected, BudgetReserved, BudgetPart, Active,
           BudgetSpentExpected, BudgetSpent
  <1>6. BooksAddUp
    BY <1>1, <1>2, <1>3, <1>4, InvImplies
       DEF BooksAddUp, AInv, PoolBooks, HeldBooks, PayoutBooks, EarnedBooks
  <1>7. MoneyIsConserved
    <2> DEFINE opened == Cardinality(Users) * OpeningBalance
    <2>1. opened \in Int
      BY PartiesAssumption, AmountsAssumption, FS_CardinalityType
    <2>2. TotalWorth = opened + Outer /\ TotalSpent = TotalEarned
      BY DEF AInv, MoneyBooks
    <2> HIDE DEF opened
    <2>3. TotalWorth \in Int /\ TotalLocked \in Int BY TotalsAreIntegers
    <2>4. external.payments \in Int /\ external.payouts \in Int BY DEF IInv
    <2>5. TotalWorth + TotalLocked = opened + external.payments - external.payouts
      BY <2>1, <2>2, <2>3, <2>4 DEF Outer
    <2> QED BY <2>2, <2>5
       DEF opened, MoneyIsConserved, TotalWorth, TotalLocked, LockPart, TotalSpent, TotalEarned,
           Worth
  <1>8. BudgetIsKept
    BY <1>5, InvImplies DEF BudgetIsKept, AInv, BudgetBooks
  <1> QED BY <1>6, <1>7, <1>8

-----------------------------------------------------------------------------
(* How a change of one document changes the totals *)

\* A hold changes.
LEMMA HoldChange ==
    ASSUME NEW f \in [Holds -> SoundHold], NEW g \in [Holds -> SoundHold],
           NEW h \in Holds, \A k \in Holds \ {h} : g[k] = f[k], NEW u \in Users
    PROVE  /\ SumFunction([k \in Holds |-> HoldPart(g[k], u)]) =
                SumFunction([k \in Holds |-> HoldPart(f[k], u)])
                + (HoldPart(g[h], u) - HoldPart(f[h], u))
           /\ SumFunction([k \in Holds |-> g[k].lines[u]]) =
                SumFunction([k \in Holds |-> f[k].lines[u]]) + (g[h].lines[u] - f[h].lines[u])
  <1> DEFINE a == [k \in Holds |-> HoldPart(f[k], u)]
             b == [k \in Holds |-> HoldPart(g[k], u)]
             c == [k \in Holds |-> f[k].lines[u]]
             d == [k \in Holds |-> g[k].lines[u]]
  <1>1. \A x \in SoundHold : HoldPart(x, u) \in Int /\ x.lines[u] \in Int
    BY DEF SoundHold, HoldType, Share, HoldPart
  <1>2. a \in [Holds -> Int] /\ b \in [Holds -> Int] /\ \A k \in Holds \ {h} : b[k] = a[k]
    BY <1>1
  <1>3. c \in [Holds -> Int] /\ d \in [Holds -> Int] /\ \A k \in Holds \ {h} : d[k] = c[k]
    BY <1>1
  <1>4. SumFunction(b) = SumFunction(a) + (b[h] - a[h])
    <2> HIDE DEF a, b
    <2> QED BY <1>2, TotalChange, DocumentsAssumption
  <1>5. SumFunction(d) = SumFunction(c) + (d[h] - c[h])
    <2> HIDE DEF c, d
    <2> QED BY <1>3, TotalChange, DocumentsAssumption
  <1> QED BY <1>4, <1>5

\* A hold of the project changes, or one that is not.
LEMMA ProjectChange ==
    ASSUME NEW f \in [Holds -> SoundHold], NEW g \in [Holds -> SoundHold],
           NEW h \in Holds, \A k \in Holds \ {h} : g[k] = f[k]
    PROVE  /\ SumFunction([k \in ProjectHolds |-> BudgetPart(g[k])]) =
                SumFunction([k \in ProjectHolds |-> BudgetPart(f[k])])
                + (IF h \in ProjectHolds THEN BudgetPart(g[h]) - BudgetPart(f[h]) ELSE 0)
           /\ SumFunction([k \in ProjectHolds |-> SumFunction(g[k].lines)]) =
                SumFunction([k \in ProjectHolds |-> SumFunction(f[k].lines)])
                + (IF h \in ProjectHolds
                   THEN SumFunction(g[h].lines) - SumFunction(f[h].lines) ELSE 0)
  <1> DEFINE a == [k \in ProjectHolds |-> BudgetPart(f[k])]
             b == [k \in ProjectHolds |-> BudgetPart(g[k])]
             c == [k \in ProjectHolds |-> SumFunction(f[k].lines)]
             d == [k \in ProjectHolds |-> SumFunction(g[k].lines)]
  <1>0. IsFiniteSet(ProjectHolds) /\ ProjectHolds \subseteq Holds
    BY PartiesAssumption, DocumentsAssumption, FS_Subset
  <1>1. \A x \in SoundHold : BudgetPart(x) \in Int /\ SumFunction(x.lines) \in Int
    <2>1. \A x \in SoundHold : BudgetPart(x) \in Int /\ x.lines \in [Users -> Int]
      BY DEF SoundHold, HoldType, Share, BudgetPart
    <2> QED BY <2>1, TotalType, PartiesAssumption
  <1>2. /\ a \in [ProjectHolds -> Int] /\ b \in [ProjectHolds -> Int]
        /\ \A k \in ProjectHolds \ {h} : b[k] = a[k]
    BY <1>0, <1>1
  <1>3. /\ c \in [ProjectHolds -> Int] /\ d \in [ProjectHolds -> Int]
        /\ \A k \in ProjectHolds \ {h} : d[k] = c[k]
    BY <1>0, <1>1
  <1>4. CASE h \in ProjectHolds
    <2>1. SumFunction(b) = SumFunction(a) + (b[h] - a[h])
      <3> HIDE DEF a, b
      <3> QED BY <1>0, <1>2, <1>4, TotalChange
    <2>2. SumFunction(d) = SumFunction(c) + (d[h] - c[h])
      <3> HIDE DEF c, d
      <3> QED BY <1>0, <1>3, <1>4, TotalChange
    <2> QED BY <1>4, <2>1, <2>2
  <1>5. CASE h \notin ProjectHolds
    <2>1. a = b /\ c = d
      BY <1>0, <1>5
    <2>2. SumFunction(a) \in Int /\ SumFunction(c) \in Int
      <3> HIDE DEF a, b, c, d
      <3> QED BY <1>0, <1>2, <1>3, TotalType
    <2> QED BY <1>5, <2>1, <2>2
  <1> QED BY <1>4, <1>5

\* A pool changes.
LEMMA PoolChange ==
    ASSUME NEW f \in [Pools -> SoundPool], NEW g \in [Pools -> SoundPool],
           NEW p \in Pools, \A k \in Pools \ {p} : g[k] = f[k], NEW u \in Users
    PROVE  SumFunction([k \in Pools |-> PoolPart(g[k], u)]) =
             SumFunction([k \in Pools |-> PoolPart(f[k], u)])
             + (PoolPart(g[p], u) - PoolPart(f[p], u))
  <1> DEFINE a == [k \in Pools |-> PoolPart(f[k], u)]
             b == [k \in Pools |-> PoolPart(g[k], u)]
  <1>1. \A x \in SoundPool : PoolPart(x, u) \in Int
    BY DEF SoundPool, PoolType, PoolPart
  <1>2. a \in [Pools -> Int] /\ b \in [Pools -> Int] /\ \A k \in Pools \ {p} : b[k] = a[k]
    BY <1>1
  <1>3. SumFunction(b) = SumFunction(a) + (b[p] - a[p])
    <2> HIDE DEF a, b
    <2> QED BY <1>2, TotalChange, DocumentsAssumption
  <1> QED BY <1>3

\* A reservation changes.
LEMMA ReservationChange ==
    ASSUME NEW f \in [Runs -> SoundReservation], NEW g \in [Runs -> SoundReservation],
           NEW r \in Runs, \A k \in Runs \ {r} : g[k] = f[k], NEW p \in Pools
    PROVE  SumFunction([k \in Runs |-> ReservedPart(g[k], p)]) =
             SumFunction([k \in Runs |-> ReservedPart(f[k], p)])
             + (ReservedPart(g[r], p) - ReservedPart(f[r], p))
  <1> DEFINE a == [k \in Runs |-> ReservedPart(f[k], p)]
             b == [k \in Runs |-> ReservedPart(g[k], p)]
  <1>1. \A x \in SoundReservation : ReservedPart(x, p) \in Int
    BY DEF SoundReservation, ReservationType, ReservedPart
  <1>2. a \in [Runs -> Int] /\ b \in [Runs -> Int] /\ \A k \in Runs \ {r} : b[k] = a[k]
    BY <1>1
  <1>3. SumFunction(b) = SumFunction(a) + (b[r] - a[r])
    <2> HIDE DEF a, b
    <2> QED BY <1>2, TotalChange, DocumentsAssumption
  <1> QED BY <1>3

\* What runs earned changes with one run.
LEMMA RunChange ==
    ASSUME NEW f \in [Runs -> SoundReservation], NEW g \in [Runs -> SoundReservation],
           NEW d \in [Runs -> DebitType], NEW e \in [Runs -> DebitType], NEW r \in Runs,
           \A k \in Runs \ {r} : g[k] = f[k] /\ e[k] = d[k], NEW u \in Users
    PROVE  SumFunction([k \in Runs |-> g[k].lines[u] + e[k].credits[u]]) =
             SumFunction([k \in Runs |-> f[k].lines[u] + d[k].credits[u]])
             + ((g[r].lines[u] + e[r].credits[u]) - (f[r].lines[u] + d[r].credits[u]))
  <1> DEFINE a == [k \in Runs |-> f[k].lines[u] + d[k].credits[u]]
             b == [k \in Runs |-> g[k].lines[u] + e[k].credits[u]]
  <1>1. /\ \A x \in SoundReservation : x.lines[u] \in Int
        /\ \A x \in DebitType : x.credits[u] \in Int
    BY DEF SoundReservation, ReservationType, DebitType, Share
  <1>2. a \in [Runs -> Int] /\ b \in [Runs -> Int] /\ \A k \in Runs \ {r} : b[k] = a[k]
    BY <1>1
  <1>3. SumFunction(b) = SumFunction(a) + (b[r] - a[r])
    <2> HIDE DEF a, b
    <2> QED BY <1>2, TotalChange, DocumentsAssumption
  <1> QED BY <1>3

\* A payout changes.
LEMMA PayoutChange ==
    ASSUME NEW f \in [Payouts -> SoundPayout], NEW g \in [Payouts -> SoundPayout],
           NEW q \in Payouts, \A k \in Payouts \ {q} : g[k] = f[k], NEW u \in Users
    PROVE  SumFunction([k \in Payouts |-> PayoutPart(g[k], u)]) =
             SumFunction([k \in Payouts |-> PayoutPart(f[k], u)])
             + (PayoutPart(g[q], u) - PayoutPart(f[q], u))
  <1> DEFINE a == [k \in Payouts |-> PayoutPart(f[k], u)]
             b == [k \in Payouts |-> PayoutPart(g[k], u)]
  <1>1. \A x \in SoundPayout : PayoutPart(x, u) \in Int
    BY DEF SoundPayout, PayoutType, PayoutPart
  <1>2. a \in [Payouts -> Int] /\ b \in [Payouts -> Int] /\ \A k \in Payouts \ {q} : b[k] = a[k]
    BY <1>1
  <1>3. SumFunction(b) = SumFunction(a) + (b[q] - a[q])
    <2> HIDE DEF a, b
    <2> QED BY <1>2, TotalChange, DocumentsAssumption
  <1> QED BY <1>3

\* A lock changes.
LEMMA LockChange ==
    ASSUME NEW f \in [Locks -> SoundLock], NEW g \in [Locks -> SoundLock],
           NEW l \in Locks, \A k \in Locks \ {l} : g[k] = f[k]
    PROVE  SumFunction([k \in Locks |-> LockPart(g[k])]) =
             SumFunction([k \in Locks |-> LockPart(f[k])])
             + (LockPart(g[l]) - LockPart(f[l]))
  <1> DEFINE a == [k \in Locks |-> LockPart(f[k])]
             b == [k \in Locks |-> LockPart(g[k])]
  <1>1. \A x \in SoundLock : LockPart(x) \in Int
    BY DEF SoundLock, LockType, LockPart
  <1>2. a \in [Locks -> Int] /\ b \in [Locks -> Int] /\ \A k \in Locks \ {l} : b[k] = a[k]
    BY <1>1
  <1>3. SumFunction(b) = SumFunction(a) + (b[l] - a[l])
    <2> HIDE DEF a, b
    <2> QED BY <1>2, TotalChange, DocumentsAssumption
  <1> QED BY <1>3

\* Money crosses the border of the node, and no lock changes.
LEMMA OuterMoves ==
    ASSUME IInv, IInv', UNCHANGED locks, NEW n \in Int,
           external'.payments - external'.payouts = external.payments - external.payouts + n
    PROVE  Outer' = Outer + n
  <1>1. TotalLocked' = TotalLocked BY DEF TotalLocked
  <1>2. TotalLocked \in Int BY TotalsAreIntegers
  <1>3. /\ external.payments \in Int /\ external.payouts \in Int
        /\ external'.payments \in Int /\ external'.payouts \in Int
    BY DEF IInv
  <1> QED BY <1>1, <1>2, <1>3 DEF Outer

\* None does.
LEMMA OuterStays ==
    ASSUME IInv, UNCHANGED <<locks, external>>
    PROVE  Outer' = Outer /\ Outer' = Outer + 0
  <1>1. Outer' = Outer BY DEF Outer, TotalLocked
  <1> QED BY <1>1, TotalsAreIntegers

\* The wallets pay lines out of one of them: what they own together changes by the
\* lines and by what that one gains or loses.  With lines of zero this is the change
\* of one wallet.
LEMMA WalletsChange ==
    ASSUME NEW f \in [Users -> SoundWallet], NEW g \in [Users -> SoundWallet],
           NEW a \in Users, NEW lines \in [Users -> Int], lines[a] = 0,
           \A u \in Users \ {a} : /\ Worth(g[u]) = Worth(f[u]) + lines[u]
                                  /\ g[u].earned = f[u].earned + lines[u]
                                  /\ g[u].spent = f[u].spent
    PROVE  /\ SumFunction([u \in Users |-> Worth(g[u])]) =
                SumFunction([u \in Users |-> Worth(f[u])]) + SumFunction(lines)
                + (Worth(g[a]) - Worth(f[a]))
           /\ SumFunction([u \in Users |-> g[u].earned]) =
                SumFunction([u \in Users |-> f[u].earned]) + SumFunction(lines)
                + (g[a].earned - f[a].earned)
           /\ SumFunction([u \in Users |-> g[u].spent]) =
                SumFunction([u \in Users |-> f[u].spent]) + (g[a].spent - f[a].spent)
  <1> DEFINE w == [u \in Users |-> Worth(f[u])]
             x == [u \in Users |-> Worth(g[u])]
             e == [u \in Users |-> f[u].earned]
             d == [u \in Users |-> g[u].earned]
             s == [u \in Users |-> f[u].spent]
             t == [u \in Users |-> g[u].spent]
  <1>1. \A v \in SoundWallet : Worth(v) \in Int /\ v.earned \in Int /\ v.spent \in Int
    BY FieldsOfWallet DEF WalletFields, Worth
  <1>2. /\ w \in [Users -> Int] /\ x \in [Users -> Int]
        /\ \A u \in Users \ {a} : x[u] = w[u] + lines[u]
    BY <1>1
  <1>3. /\ e \in [Users -> Int] /\ d \in [Users -> Int]
        /\ \A u \in Users \ {a} : d[u] = e[u] + lines[u]
    BY <1>1
  <1>4. /\ s \in [Users -> Int] /\ t \in [Users -> Int]
        /\ \A u \in Users \ {a} : t[u] = s[u]
    BY <1>1
  <1>5. SumFunction(x) = SumFunction(w) + SumFunction(lines) + (x[a] - w[a])
    <2> HIDE DEF w, x
    <2> QED BY <1>2, TotalShares, PartiesAssumption
  <1>6. SumFunction(d) = SumFunction(e) + SumFunction(lines) + (d[a] - e[a])
    <2> HIDE DEF e, d
    <2> QED BY <1>3, TotalShares, PartiesAssumption
  <1>7. SumFunction(t) = SumFunction(s) + (t[a] - s[a])
    <2> HIDE DEF s, t
    <2> QED BY <1>4, TotalChange, PartiesAssumption
  <1> QED BY <1>5, <1>6, <1>7

-----------------------------------------------------------------------------
(* How the operations on a wallet change what the totals count *)

\* The counters and the worth of a wallet v, compared with those of w.
Differs(v, w, held, payoutHeld, earned, spent, worth) ==
    /\ v.held = w.held + held
    /\ v.payoutHeld = w.payoutHeld + payoutHeld
    /\ v.earned = w.earned + earned
    /\ v.spent = w.spent + spent
    /\ Worth(v) = Worth(w) + worth

\* Setting an amount aside moves it to the held counter.
LEMMA SetAsideDiffers ==
    ASSUME NEW w \in SoundWallet, NEW amount \in Nat
    PROVE  Differs(SetAside(w, amount), w, amount, 0, 0, 0, 0)
  <1> DEFINE v == SetAside(w, amount)
  <1>1. WalletFields(w) BY FieldsOfWallet
  <1>2. /\ v.balance = w.balance - amount /\ v.held = w.held + amount
        /\ v.payoutHeld = w.payoutHeld /\ v.earned = w.earned /\ v.spent = w.spent
        /\ v.debt = w.debt
    BY DEF SoundWallet, Wallet, SetAside
  <1> HIDE DEF v
  <1>3. Differs(v, w, amount, 0, 0, 0, 0)
    BY <1>1, <1>2 DEF WalletFields, Differs, Worth
  <1> QED BY <1>3 DEF v

\* Giving back returns a part of what leaves the held counter.
LEMMA GiveBackDiffers ==
    ASSUME NEW w \in SoundWallet, NEW amount \in Int, NEW part \in Int, NEW ended \in Int
    PROVE  Differs(GiveBack(w, amount, part, ended), w, -ended, 0, 0, 0, amount - ended)
  <1> DEFINE v == GiveBack(w, amount, part, ended)
  <1>1. WalletFields(w) BY FieldsOfWallet
  <1>2. /\ v.balance = w.balance + amount /\ v.held = w.held - ended
        /\ v.payoutHeld = w.payoutHeld /\ v.earned = w.earned /\ v.spent = w.spent
        /\ v.debt = w.debt
    BY DEF SoundWallet, Wallet, GiveBack
  <1> HIDE DEF v
  <1>3. Differs(v, w, -ended, 0, 0, 0, amount - ended)
    BY <1>1, <1>2 DEF WalletFields, Differs, Worth
  <1> QED BY <1>3 DEF v

\* An earning is worth its amount, whatever part of it repays a debt.
LEMMA EarnDiffers ==
    ASSUME NEW w \in SoundWallet, NEW amount \in Nat
    PROVE  Differs(Earn(w, amount), w, 0, 0, amount, 0, amount)
  <1> DEFINE v == Earn(w, amount)
             repaid == Lesser(w.debt, amount)
  <1>1. WalletFields(w) BY FieldsOfWallet
  <1>2. /\ v.balance = w.balance + (amount - repaid) /\ v.held = w.held
        /\ v.payoutHeld = w.payoutHeld /\ v.earned = w.earned + amount
        /\ v.spent = w.spent /\ v.debt = w.debt - repaid
    BY DEF SoundWallet, Wallet, Earn
  <1>3. repaid \in Int
    BY <1>1 DEF WalletFields, Lesser
  <1> HIDE DEF v, repaid
  <1>4. Differs(v, w, 0, 0, amount, 0, amount)
    BY <1>1, <1>2, <1>3 DEF WalletFields, Differs, Worth
  <1> QED BY <1>4 DEF v

\* So is a payment from outside.
LEMMA TopUpDiffers ==
    ASSUME NEW w \in SoundWallet, NEW amount \in Nat
    PROVE  Differs(TopUp(w, amount), w, 0, 0, 0, 0, amount)
  <1> DEFINE v == TopUp(w, amount)
             repaid == Lesser(w.debt, amount)
  <1>1. WalletFields(w) BY FieldsOfWallet
  <1>2. /\ v.balance = w.balance + amount - repaid /\ v.held = w.held
        /\ v.payoutHeld = w.payoutHeld /\ v.earned = w.earned
        /\ v.spent = w.spent /\ v.debt = w.debt - repaid
    BY DEF SoundWallet, Wallet, TopUp
  <1>3. repaid \in Int
    BY <1>1 DEF WalletFields, Lesser
  <1> HIDE DEF v, repaid
  <1>4. Differs(v, w, 0, 0, 0, 0, amount)
    BY <1>1, <1>2, <1>3 DEF WalletFields, Differs, Worth
  <1> QED BY <1>4 DEF v

\* A reversal costs its amount, as balance or as debt.
LEMMA ReverseDiffers ==
    ASSUME NEW w \in SoundWallet, NEW amount \in Nat
    PROVE  Differs(Reverse(w, amount), w, 0, 0, 0, 0, -amount)
  <1> DEFINE v == Reverse(w, amount)
             taken == Lesser(w.balance, amount)
  <1>1. WalletFields(w) BY FieldsOfWallet
  <1>2. /\ v.balance = w.balance - taken /\ v.held = w.held
        /\ v.payoutHeld = w.payoutHeld /\ v.earned = w.earned
        /\ v.spent = w.spent /\ v.debt = w.debt + amount - taken
    BY DEF SoundWallet, Wallet, Reverse
  <1>3. taken \in Int
    BY <1>1 DEF WalletFields, Lesser
  <1> HIDE DEF v, taken
  <1>4. Differs(v, w, 0, 0, 0, 0, -amount)
    BY <1>1, <1>2, <1>3 DEF WalletFields, Differs, Worth
  <1> QED BY <1>4 DEF v

\* A payer is charged out of its held counter.
LEMMA ChargeDiffers ==
    ASSUME NEW w \in SoundWallet, NEW amount \in Nat
    PROVE  Differs([w EXCEPT !.held = @ - amount, !.spent = @ + amount], w,
                   -amount, 0, 0, amount, -amount)
  <1> DEFINE v == [w EXCEPT !.held = @ - amount, !.spent = @ + amount]
  <1>1. WalletFields(w) BY FieldsOfWallet
  <1>2. /\ v.balance = w.balance /\ v.held = w.held - amount
        /\ v.payoutHeld = w.payoutHeld /\ v.earned = w.earned
        /\ v.spent = w.spent + amount /\ v.debt = w.debt
    BY DEF SoundWallet, Wallet
  <1> HIDE DEF v
  <1>3. Differs(v, w, -amount, 0, 0, amount, -amount)
    BY <1>1, <1>2 DEF WalletFields, Differs, Worth
  <1> QED BY <1>3 DEF v

\* A payer is charged out of what it gets back.
LEMMA SettleDiffers ==
    ASSUME NEW w \in SoundWallet, NEW amount \in Int, NEW part \in Int, NEW ended \in Int,
           NEW spent \in Nat
    PROVE  Differs([GiveBack(w, amount, part, ended) EXCEPT !.spent = @ + spent], w,
                   -ended, 0, 0, spent, amount - ended)
  <1> DEFINE v == [GiveBack(w, amount, part, ended) EXCEPT !.spent = @ + spent]
  <1>1. WalletFields(w) BY FieldsOfWallet
  <1>2. /\ v.balance = w.balance + amount /\ v.held = w.held - ended
        /\ v.payoutHeld = w.payoutHeld /\ v.earned = w.earned
        /\ v.spent = w.spent + spent /\ v.debt = w.debt
    BY DEF SoundWallet, Wallet, GiveBack
  <1> HIDE DEF v
  <1>3. Differs(v, w, -ended, 0, 0, spent, amount - ended)
    BY <1>1, <1>2 DEF WalletFields, Differs, Worth
  <1> QED BY <1>3 DEF v

-----------------------------------------------------------------------------
(* How a step keeps each part of the books *)

\* Nothing a part of the books counts changes.
LEMMA BooksKept ==
    ASSUME IInv, IInv', AInv
    PROVE  /\ UNCHANGED <<pools, reservations>> => PoolBooks'
           /\ UNCHANGED <<holds, pools>> /\ (\A u \in Users : wallets'[u].held = wallets[u].held)
                => HeldBooks'
           /\ UNCHANGED payouts /\ (\A u \in Users : wallets'[u].payoutHeld = wallets[u].payoutHeld)
                => PayoutBooks'
           /\ UNCHANGED <<holds, reservations, debits>>
                /\ (\A u \in Users : wallets'[u].earned = wallets[u].earned) => EarnedBooks'
           /\ UNCHANGED <<holds, budget>> => BudgetBooks'
           /\ UNCHANGED <<holds, reservations>>
                /\ (\A p \in Pools : /\ pools'[p].payer = pools[p].payer
                                     /\ pools'[p].status = "none" => pools'[p] = pools[p])
                => DocumentsInv'
  <1>1. UNCHANGED <<pools, reservations>> => PoolBooks'
    BY DEF AInv, PoolBooks, Reserved
  <1>2. ASSUME UNCHANGED <<holds, pools>>, \A u \in Users : wallets'[u].held = wallets[u].held
        PROVE  HeldBooks'
    BY <1>2 DEF AInv, HeldBooks, HoldsHeld, PoolsHeld
  <1>3. ASSUME UNCHANGED payouts, \A u \in Users : wallets'[u].payoutHeld = wallets[u].payoutHeld
        PROVE  PayoutBooks'
    BY <1>3 DEF AInv, PayoutBooks, PayoutsHeld
  <1>4. ASSUME UNCHANGED <<holds, reservations, debits>>,
               \A u \in Users : wallets'[u].earned = wallets[u].earned
        PROVE  EarnedBooks'
    BY <1>4 DEF AInv, EarnedBooks, HoldsEarned, RunsEarned
  <1>5. UNCHANGED <<holds, budget>> => BudgetBooks'
    BY DEF AInv, BudgetBooks, BudgetReserved, BudgetSpent
  <1>6. ASSUME UNCHANGED <<holds, reservations>>,
               \A p \in Pools : /\ pools'[p].payer = pools[p].payer
                                /\ pools'[p].status = "none" => pools'[p] = pools[p]
        PROVE  DocumentsInv'
    <2>1. \A r \in Runs : reservations[r].status = "reserved" => reservations[r].pool \in Pools
      BY DEF IInv, SoundReservation
    <2> QED BY <1>6, <2>1 DEF AInv, DocumentsInv
  <1> QED BY <1>1, <1>2, <1>3, <1>4, <1>5, <1>6

\* The held counters follow a hold.
LEMMA HeldFollowsHold ==
    ASSUME IInv, IInv', AInv, UNCHANGED pools, NEW h \in Holds,
           \A k \in Holds \ {h} : holds'[k] = holds[k],
           \A u \in Users : wallets'[u].held =
               wallets[u].held + (HoldPart(holds'[h], u) - HoldPart(holds[h], u))
    PROVE  HeldBooks'
  <1> SUFFICES ASSUME NEW u \in Users
               PROVE  wallets'[u].held = HoldsHeld(u)' + PoolsHeld(u)'
    BY DEF HeldBooks
  <1>1. HoldsHeld(u)' = HoldsHeld(u) + (HoldPart(holds'[h], u) - HoldPart(holds[h], u))
    BY HoldChange DEF IInv, HoldsHeld
  <1>2. PoolsHeld(u)' = PoolsHeld(u)
    BY DEF PoolsHeld
  <1>3. wallets[u].held = HoldsHeld(u) + PoolsHeld(u)
    BY DEF AInv, HeldBooks
  <1>4. /\ HoldsHeld(u) \in Int /\ PoolsHeld(u) \in Int
        /\ HoldPart(holds'[h], u) \in Int /\ HoldPart(holds[h], u) \in Int
    <2>1. holds[h].max \in Int /\ holds'[h].max \in Int
      BY DEF IInv, SoundHold, HoldType
    <2> QED BY <2>1, TotalsAreIntegers DEF HoldPart
  <1> QED BY <1>1, <1>2, <1>3, <1>4

\* The held counters follow a pool.
LEMMA HeldFollowsPool ==
    ASSUME IInv, IInv', AInv, UNCHANGED holds, NEW p \in Pools,
           \A k \in Pools \ {p} : pools'[k] = pools[k],
           \A u \in Users : wallets'[u].held =
               wallets[u].held + (PoolPart(pools'[p], u) - PoolPart(pools[p], u))
    PROVE  HeldBooks'
  <1> SUFFICES ASSUME NEW u \in Users
               PROVE  wallets'[u].held = HoldsHeld(u)' + PoolsHeld(u)'
    BY DEF HeldBooks
  <1>1. PoolsHeld(u)' = PoolsHeld(u) + (PoolPart(pools'[p], u) - PoolPart(pools[p], u))
    BY PoolChange DEF IInv, PoolsHeld
  <1>2. HoldsHeld(u)' = HoldsHeld(u)
    BY DEF HoldsHeld
  <1>3. wallets[u].held = HoldsHeld(u) + PoolsHeld(u)
    BY DEF AInv, HeldBooks
  <1>4. /\ HoldsHeld(u) \in Int /\ PoolsHeld(u) \in Int
        /\ PoolPart(pools'[p], u) \in Int /\ PoolPart(pools[p], u) \in Int
    <2>1. /\ pools[p].remaining + pools[p].reserved \in Int
          /\ pools'[p].remaining + pools'[p].reserved \in Int
      BY DEF IInv, SoundPool, PoolType
    <2> QED BY <2>1, TotalsAreIntegers DEF PoolPart
  <1> QED BY <1>1, <1>2, <1>3, <1>4

\* The earned counters follow a hold.
LEMMA EarnedFollowsHold ==
    ASSUME IInv, IInv', AInv, UNCHANGED <<reservations, debits>>, NEW h \in Holds,
           \A k \in Holds \ {h} : holds'[k] = holds[k],
           \A u \in Users : wallets'[u].earned =
               wallets[u].earned + (holds'[h].lines[u] - holds[h].lines[u])
    PROVE  EarnedBooks'
  <1> SUFFICES ASSUME NEW u \in Users
               PROVE  wallets'[u].earned = HoldsEarned(u)' + RunsEarned(u)'
    BY DEF EarnedBooks
  <1>1. HoldsEarned(u)' = HoldsEarned(u) + (holds'[h].lines[u] - holds[h].lines[u])
    BY HoldChange DEF IInv, HoldsEarned
  <1>2. RunsEarned(u)' = RunsEarned(u)
    BY DEF RunsEarned
  <1>3. wallets[u].earned = HoldsEarned(u) + RunsEarned(u)
    BY DEF AInv, EarnedBooks
  <1>4. /\ HoldsEarned(u) \in Int /\ RunsEarned(u) \in Int
        /\ holds'[h].lines[u] \in Int /\ holds[h].lines[u] \in Int
    <2>1. holds[h].lines \in Share /\ holds'[h].lines \in Share
      BY DEF IInv, SoundHold, HoldType
    <2> QED BY <2>1, TotalsAreIntegers DEF Share
  <1> QED BY <1>1, <1>2, <1>3, <1>4

\* The earned counters follow a run.
LEMMA EarnedFollowsRun ==
    ASSUME IInv, IInv', AInv, UNCHANGED holds, NEW r \in Runs,
           \A k \in Runs \ {r} : reservations'[k] = reservations[k] /\ debits'[k] = debits[k],
           \A u \in Users : wallets'[u].earned = wallets[u].earned
               + ((reservations'[r].lines[u] + debits'[r].credits[u])
                  - (reservations[r].lines[u] + debits[r].credits[u]))
    PROVE  EarnedBooks'
  <1> SUFFICES ASSUME NEW u \in Users
               PROVE  wallets'[u].earned = HoldsEarned(u)' + RunsEarned(u)'
    BY DEF EarnedBooks
  <1> DEFINE more == (reservations'[r].lines[u] + debits'[r].credits[u])
                     - (reservations[r].lines[u] + debits[r].credits[u])
  <1>1. RunsEarned(u)' = RunsEarned(u) + more
    BY RunChange DEF IInv, RunsEarned
  <1>2. HoldsEarned(u)' = HoldsEarned(u)
    BY DEF HoldsEarned
  <1>3. wallets[u].earned = HoldsEarned(u) + RunsEarned(u)
    BY DEF AInv, EarnedBooks
  <1>4. /\ HoldsEarned(u) \in Int /\ RunsEarned(u) \in Int /\ more \in Int
    <2>1. reservations[r].lines \in Share /\ reservations'[r].lines \in Share
      BY DEF IInv, SoundReservation, ReservationType
    <2>2. debits[r].credits \in Share /\ debits'[r].credits \in Share
      BY DEF IInv, DebitType
    <2> QED BY <2>1, <2>2, TotalsAreIntegers DEF Share
  <1>5. wallets'[u].earned = wallets[u].earned + more
    OBVIOUS
  <1> HIDE DEF more
  <1> QED BY <1>1, <1>2, <1>3, <1>4, <1>5

\* What the ledger knows of beyond the lines of the project's holds only grows.
SpentGrows == budget'.spent - BudgetSpent' >= budget.spent - BudgetSpent

\* The budget follows a hold.
LEMMA BudgetFollowsHold ==
    ASSUME IInv, IInv', AInv, NEW h \in Holds, \A k \in Holds \ {h} : holds'[k] = holds[k],
           h \notin ProjectHolds => UNCHANGED budget,
           h \in ProjectHolds =>
             /\ budget'.reserved = budget.reserved + (BudgetPart(holds'[h]) - BudgetPart(holds[h]))
             /\ budget'.spent >= budget.spent
                   + (SumFunction(holds'[h].lines) - SumFunction(holds[h].lines))
    PROVE  BudgetBooks' /\ SpentGrows
  <1>1. /\ BudgetReserved' = BudgetReserved
             + (IF h \in ProjectHolds THEN BudgetPart(holds'[h]) - BudgetPart(holds[h]) ELSE 0)
        /\ BudgetSpent' = BudgetSpent
             + (IF h \in ProjectHolds
                THEN SumFunction(holds'[h].lines) - SumFunction(holds[h].lines) ELSE 0)
    BY ProjectChange DEF IInv, BudgetReserved, BudgetSpent
  <1>2. budget.reserved = BudgetReserved /\ budget.spent >= BudgetSpent
    BY DEF AInv, BudgetBooks
  <1>3. /\ BudgetReserved \in Int /\ BudgetSpent \in Int
        /\ budget.spent \in Int /\ budget'.spent \in Int
    BY TotalsAreIntegers DEF IInv, SoundBudget
  <1>4. SumFunction(holds'[h].lines) \in Int /\ SumFunction(holds[h].lines) \in Int
    <2>1. holds[h].lines \in [Users -> Int] /\ holds'[h].lines \in [Users -> Int]
      BY DEF IInv, SoundHold, HoldType, Share
    <2> QED BY <2>1, TotalType, PartiesAssumption
  <1> QED BY <1>1, <1>2, <1>3, <1>4 DEF BudgetBooks, SpentGrows

\* What the pools have reserved follows a reservation.
LEMMA PoolsFollowReservation ==
    ASSUME IInv, IInv', AInv, NEW r \in Runs,
           \A k \in Runs \ {r} : reservations'[k] = reservations[k],
           \A p \in Pools :
             /\ pools'[p].remaining >= 0 /\ pools'[p].refunded >= 0
             /\ pools'[p].reserved = pools[p].reserved
                   + (ReservedPart(reservations'[r], p) - ReservedPart(reservations[r], p))
    PROVE  PoolBooks'
  <1> SUFFICES ASSUME NEW p \in Pools PROVE pools'[p].reserved = Reserved(p)'
    BY DEF PoolBooks
  <1>1. Reserved(p)' = Reserved(p)
          + (ReservedPart(reservations'[r], p) - ReservedPart(reservations[r], p))
    BY ReservationChange DEF IInv, Reserved
  <1>2. pools[p].reserved = Reserved(p)
    BY DEF AInv, PoolBooks
  <1> QED BY <1>1, <1>2

\* The payout-held counters follow a payout.
LEMMA PayoutsFollow ==
    ASSUME IInv, IInv', AInv, NEW q \in Payouts,
           \A k \in Payouts \ {q} : payouts'[k] = payouts[k],
           \A u \in Users : wallets'[u].payoutHeld =
               wallets[u].payoutHeld + (PayoutPart(payouts'[q], u) - PayoutPart(payouts[q], u))
    PROVE  PayoutBooks'
  <1> SUFFICES ASSUME NEW u \in Users PROVE wallets'[u].payoutHeld = PayoutsHeld(u)'
    BY DEF PayoutBooks
  <1>1. PayoutsHeld(u)' = PayoutsHeld(u) + (PayoutPart(payouts'[q], u) - PayoutPart(payouts[q], u))
    BY PayoutChange DEF IInv, PayoutsHeld
  <1>2. wallets[u].payoutHeld = PayoutsHeld(u)
    BY DEF AInv, PayoutBooks
  <1> QED BY <1>1, <1>2

\* Money is conserved when one wallet changes by what comes from outside.
LEMMA MoneyOfOne ==
    ASSUME IInv, IInv', AInv, NEW a \in Users,
           \A u \in Users \ {a} : wallets'[u] = wallets[u],
           NEW n \in Int, Worth(wallets'[a]) = Worth(wallets[a]) + n,
           Outer' = Outer + n,
           wallets'[a].earned = wallets[a].earned, wallets'[a].spent = wallets[a].spent
    PROVE  MoneyBooks'
  <1> DEFINE lines == [u \in Users |-> 0]
  <1>1. lines \in [Users -> Int] /\ lines[a] = 0 /\ SumFunction(lines) = 0
    <2>1. lines \in [Users -> Int] /\ \A u \in Users : lines[u] = 0
      OBVIOUS
    <2> HIDE DEF lines
    <2> QED BY <2>1, TotalZero, PartiesAssumption
  <1>2. \A v \in SoundWallet : Worth(v) \in Int /\ v.earned \in Int /\ v.spent \in Int
    BY FieldsOfWallet DEF WalletFields, Worth
  <1>3. wallets \in [Users -> SoundWallet] /\ wallets' \in [Users -> SoundWallet]
    BY DEF IInv
  <1>4. \A u \in Users \ {a} : /\ Worth(wallets'[u]) = Worth(wallets[u]) + lines[u]
                               /\ wallets'[u].earned = wallets[u].earned + lines[u]
                               /\ wallets'[u].spent = wallets[u].spent
    BY <1>2, <1>3
  <1> HIDE DEF lines
  <1>5. /\ TotalWorth' = TotalWorth + SumFunction(lines) + (Worth(wallets'[a]) - Worth(wallets[a]))
        /\ TotalEarned' = TotalEarned + SumFunction(lines) + (wallets'[a].earned - wallets[a].earned)
        /\ TotalSpent' = TotalSpent + (wallets'[a].spent - wallets[a].spent)
    BY <1>1, <1>3, <1>4, WalletsChange DEF TotalWorth, TotalEarned, TotalSpent
  <1>6. /\ TotalWorth = Cardinality(Users) * OpeningBalance + Outer
        /\ TotalSpent = TotalEarned
    BY DEF AInv, MoneyBooks
  <1>7. /\ TotalWorth \in Int /\ TotalSpent \in Int /\ TotalEarned \in Int
        /\ Worth(wallets[a]) \in Int /\ wallets[a].earned \in Int /\ wallets[a].spent \in Int
    BY <1>2, <1>3, TotalsAreIntegers
  <1>8. Outer \in Int
    BY TotalsAreIntegers
  <1>9. Cardinality(Users) * OpeningBalance \in Int
    BY PartiesAssumption, AmountsAssumption, FS_CardinalityType
  <1>10. TotalWorth' = TotalWorth + n /\ TotalEarned' = TotalEarned /\ TotalSpent' = TotalSpent
    BY <1>1, <1>5, <1>7
  <1> DEFINE opened == Cardinality(Users) * OpeningBalance
  <1>11. TotalWorth' = opened + Outer'
    <2>1. opened \in Int /\ TotalWorth = opened + Outer
      BY <1>6, <1>9
    <2> HIDE DEF opened
    <2> QED BY <2>1, <1>8, <1>10
  <1> QED BY <1>6, <1>10, <1>11 DEF MoneyBooks

\* Money is conserved when one wallet pays the lines that the others earn.
LEMMA MoneyOfLines ==
    ASSUME IInv, IInv', AInv, UNCHANGED <<locks, external>>, NEW a \in Users,
           NEW lines \in Share,
           lines[a] = 0,
           \A u \in Users \ {a} : wallets'[u] = Earn(wallets[u], lines[u]),
           Worth(wallets'[a]) = Worth(wallets[a]) - SumFunction(lines),
           wallets'[a].earned = wallets[a].earned,
           wallets'[a].spent = wallets[a].spent + SumFunction(lines)
    PROVE  MoneyBooks'
  <1>1. lines \in [Users -> Int] /\ SumFunction(lines) \in Int
    <2>1. lines \in [Users -> Int]
      BY DEF Share
    <2> QED BY <2>1, TotalType, PartiesAssumption
  <1>2. \A v \in SoundWallet : Worth(v) \in Int /\ v.earned \in Int /\ v.spent \in Int
    BY FieldsOfWallet DEF WalletFields, Worth
  <1>3. wallets \in [Users -> SoundWallet] /\ wallets' \in [Users -> SoundWallet]
    BY DEF IInv
  <1>4. \A u \in Users \ {a} : /\ Worth(wallets'[u]) = Worth(wallets[u]) + lines[u]
                               /\ wallets'[u].earned = wallets[u].earned + lines[u]
                               /\ wallets'[u].spent = wallets[u].spent
    <2> TAKE u \in Users \ {a}
    <2>1. wallets[u] \in SoundWallet /\ lines[u] \in Nat
      BY <1>3 DEF Share
    <2>2. Differs(wallets'[u], wallets[u], 0, 0, lines[u], 0, lines[u])
      BY <2>1, EarnDiffers
    <2> QED BY <1>2, <2>1, <2>2 DEF Differs
  <1>5. /\ TotalWorth' = TotalWorth + SumFunction(lines) + (Worth(wallets'[a]) - Worth(wallets[a]))
        /\ TotalEarned' = TotalEarned + SumFunction(lines) + (wallets'[a].earned - wallets[a].earned)
        /\ TotalSpent' = TotalSpent + (wallets'[a].spent - wallets[a].spent)
    BY <1>1, <1>3, <1>4, WalletsChange DEF TotalWorth, TotalEarned, TotalSpent
  <1>6. /\ TotalWorth \in Int /\ TotalSpent \in Int /\ TotalEarned \in Int
        /\ Worth(wallets[a]) \in Int /\ wallets[a].earned \in Int /\ wallets[a].spent \in Int
    BY <1>2, <1>3, TotalsAreIntegers
  <1>7. /\ TotalWorth' = TotalWorth
        /\ TotalEarned' = TotalEarned + SumFunction(lines)
        /\ TotalSpent' = TotalSpent + SumFunction(lines)
    BY <1>1, <1>5, <1>6
  <1>8. Outer' = Outer BY OuterStays
  <1> QED BY <1>7, <1>8 DEF AInv, MoneyBooks

-----------------------------------------------------------------------------
(* The initial state, and the wallets of a step *)

\* The books of a node that has served nothing.
LEMMA AuditInit == Init => AInv
  <1> SUFFICES ASSUME Init PROVE AInv OBVIOUS
  <1>0. IInv BY InitInv
  <1>1. /\ \A h \in Holds : holds[h] = NoHold
        /\ \A p \in Pools : pools[p] = NoPool
        /\ \A r \in Runs : reservations[r] = NoReservation /\ debits[r] = NoDebit
        /\ \A q \in Payouts : payouts[q] = NoPayout
        /\ \A l \in Locks : locks[l] = NoLock
        /\ \A u \in Users : wallets[u] = OpenWallet
    BY DEF Init
  <1>2. DocumentsInv
    BY <1>1 DEF DocumentsInv, NoHold, NoReservation, NoPool
  <1>3. IsFiniteSet(Users) /\ IsFiniteSet(ProjectHolds) /\ ProjectHolds \subseteq Holds
    BY PartiesAssumption, DocumentsAssumption, FS_Subset
  <1>4. PoolBooks
    <2> SUFFICES ASSUME NEW p \in Pools PROVE Reserved(p) = 0
      BY <1>1 DEF PoolBooks, NoPool
    <2> DEFINE f == [r \in Runs |-> ReservedPart(reservations[r], p)]
    <2>1. f \in [Runs -> Int] /\ \A r \in Runs : f[r] = 0
      BY <1>1 DEF ReservedPart, NoReservation
    <2> HIDE DEF f
    <2>2. SumFunction(f) = 0 BY <2>1, TotalZero, DocumentsAssumption
    <2> QED BY <2>2 DEF f, Reserved
  <1>5. HeldBooks
    <2> SUFFICES ASSUME NEW u \in Users PROVE HoldsHeld(u) = 0 /\ PoolsHeld(u) = 0
      BY <1>1 DEF HeldBooks, OpenWallet
    <2> DEFINE f == [h \in Holds |-> HoldPart(holds[h], u)]
               g == [p \in Pools |-> PoolPart(pools[p], u)]
    <2>1. f \in [Holds -> Int] /\ \A h \in Holds : f[h] = 0
      BY <1>1 DEF HoldPart, NoHold
    <2>2. g \in [Pools -> Int] /\ \A p \in Pools : g[p] = 0
      BY <1>1 DEF PoolPart, NoPool
    <2> HIDE DEF f, g
    <2>3. SumFunction(f) = 0 /\ SumFunction(g) = 0
      BY <2>1, <2>2, TotalZero, DocumentsAssumption
    <2> QED BY <2>3 DEF f, g, HoldsHeld, PoolsHeld
  <1>6. PayoutBooks
    <2> SUFFICES ASSUME NEW u \in Users PROVE PayoutsHeld(u) = 0
      BY <1>1 DEF PayoutBooks, OpenWallet
    <2> DEFINE f == [q \in Payouts |-> PayoutPart(payouts[q], u)]
    <2>1. f \in [Payouts -> Int] /\ \A q \in Payouts : f[q] = 0
      BY <1>1 DEF PayoutPart, NoPayout
    <2> HIDE DEF f
    <2>2. SumFunction(f) = 0 BY <2>1, TotalZero, DocumentsAssumption
    <2> QED BY <2>2 DEF f, PayoutsHeld
  <1>7. EarnedBooks
    <2> SUFFICES ASSUME NEW u \in Users PROVE HoldsEarned(u) = 0 /\ RunsEarned(u) = 0
      BY <1>1 DEF EarnedBooks, OpenWallet
    <2> DEFINE f == [h \in Holds |-> holds[h].lines[u]]
               g == [r \in Runs |-> reservations[r].lines[u] + debits[r].credits[u]]
    <2>1. f \in [Holds -> Int] /\ \A h \in Holds : f[h] = 0
      BY <1>1 DEF NoHold, NoLines
    <2>2. g \in [Runs -> Int] /\ \A r \in Runs : g[r] = 0
      BY <1>1 DEF NoReservation, NoDebit, NoLines
    <2> HIDE DEF f, g
    <2>3. SumFunction(f) = 0 /\ SumFunction(g) = 0
      BY <2>1, <2>2, TotalZero, DocumentsAssumption
    <2> QED BY <2>3 DEF f, g, HoldsEarned, RunsEarned
  <1>8. MoneyBooks
    <2> DEFINE w == [u \in Users |-> Worth(wallets[u])]
               s == [u \in Users |-> wallets[u].spent]
               e == [u \in Users |-> wallets[u].earned]
    <2>1. w \in [Users -> Int] /\ \A u \in Users : w[u] = OpeningBalance
      BY <1>1, AmountsAssumption DEF Worth, OpenWallet
    <2>2. s \in [Users -> Int] /\ \A u \in Users : s[u] = 0
      BY <1>1 DEF OpenWallet
    <2>3. e \in [Users -> Int] /\ \A u \in Users : e[u] = 0
      BY <1>1 DEF OpenWallet
    <2> HIDE DEF w, s, e
    <2>4. OpeningBalance \in Int BY AmountsAssumption
    <2>5. SumFunction(w) = Cardinality(Users) * OpeningBalance
      BY <1>3, <2>1, <2>4, TotalConstant
    <2>6. SumFunction(s) = 0 /\ SumFunction(e) = 0
      BY <1>3, <2>2, <2>3, TotalZero
    <2> DEFINE opened == Cardinality(Users) * OpeningBalance
    <2>7. opened \in Int /\ TotalWorth = opened
      BY <1>3, <2>4, <2>5, FS_CardinalityType DEF w, TotalWorth
    <2> DEFINE k == [l \in Locks |-> LockPart(locks[l])]
    <2>8. Outer = 0
      <3>1. external.payments = 0 /\ external.payouts = 0 BY DEF Init
      <3>2. k \in [Locks -> Int] /\ \A l \in Locks : k[l] = 0
        BY <1>1 DEF LockPart, NoLock
      <3> HIDE DEF k
      <3>3. SumFunction(k) = 0 BY <3>2, TotalZero, DocumentsAssumption
      <3> QED BY <3>1, <3>3 DEF Outer, TotalLocked, k
    <2>9. TotalWorth = opened + Outer
      <3> HIDE DEF opened
      <3> QED BY <2>7, <2>8
    <2> QED BY <2>6, <2>9 DEF s, e, TotalSpent, TotalEarned, MoneyBooks
  <1>9. BudgetBooks
    <2> DEFINE f == [h \in ProjectHolds |-> BudgetPart(holds[h])]
               g == [h \in ProjectHolds |-> SumFunction(holds[h].lines)]
    <2>1. f \in [ProjectHolds -> Int] /\ \A h \in ProjectHolds : f[h] = 0
      BY <1>1, <1>3 DEF BudgetPart, NoHold
    <2>2. SumFunction(NoLines) = 0
      BY <1>3, TotalZero DEF NoLines
    <2>3. g \in [ProjectHolds -> Int] /\ \A h \in ProjectHolds : g[h] = 0
      BY <1>1, <1>3, <2>2 DEF NoHold
    <2> HIDE DEF f, g
    <2>4. SumFunction(f) = 0 /\ SumFunction(g) = 0
      BY <1>3, <2>1, <2>3, TotalZero
    <2> QED BY <2>4 DEF f, g, BudgetReserved, BudgetSpent, BudgetBooks, Init
  <1> QED BY <1>2, <1>4, <1>5, <1>6, <1>7, <1>8, <1>9 DEF AInv

\* One wallet changes, and none earns or spends.
LEMMA OneWalletChanges ==
    ASSUME IInv, IInv', AInv, NEW a \in Users, NEW w,
           wallets' = [wallets EXCEPT ![a] = w],
           NEW held \in Int, NEW payoutHeld \in Int, NEW n \in Int,
           Differs(w, wallets[a], held, payoutHeld, 0, 0, n),
           Outer' = Outer + n
    PROVE  /\ \A u \in Users : /\ wallets'[u].held = wallets[u].held + (IF u = a THEN held ELSE 0)
                               /\ wallets'[u].payoutHeld = wallets[u].payoutHeld
                                     + (IF u = a THEN payoutHeld ELSE 0)
                               /\ wallets'[u].earned = wallets[u].earned
           /\ MoneyBooks'
  <1>1. wallets \in [Users -> SoundWallet] BY DEF IInv
  <1>2. \A u \in Users : /\ wallets[u].held \in Int /\ wallets[u].payoutHeld \in Int
                         /\ wallets[u].earned \in Int /\ wallets[u].spent \in Int
    BY <1>1, FieldsOfWallet DEF WalletFields
  <1>3. wallets'[a] = w /\ \A u \in Users \ {a} : wallets'[u] = wallets[u] BY <1>1
  <1>4. /\ w.held = wallets[a].held + held /\ w.payoutHeld = wallets[a].payoutHeld + payoutHeld
        /\ w.earned = wallets[a].earned /\ w.spent = wallets[a].spent
        /\ Worth(w) = Worth(wallets[a]) + n
    BY <1>2 DEF Differs
  <1>5. MoneyBooks' BY <1>3, <1>4, MoneyOfOne
  <1>6. ASSUME NEW u \in Users
        PROVE  /\ wallets'[u].held = wallets[u].held + (IF u = a THEN held ELSE 0)
               /\ wallets'[u].payoutHeld = wallets[u].payoutHeld
                     + (IF u = a THEN payoutHeld ELSE 0)
               /\ wallets'[u].earned = wallets[u].earned
    <2>1. CASE u = a BY <1>3, <1>4, <2>1
    <2>2. CASE u # a BY <1>2, <1>3, <2>2
    <2> QED BY <2>1, <2>2
  <1> QED BY <1>5, <1>6

\* One wallet holds more or less, and neither pays nor is paid.
LEMMA OneHeldChanges ==
    ASSUME IInv, IInv', AInv, NEW a \in Users, NEW w,
           wallets' = [wallets EXCEPT ![a] = w],
           NEW held \in Int, Differs(w, wallets[a], held, 0, 0, 0, 0),
           UNCHANGED <<locks, external>>
    PROVE  /\ \A u \in Users : /\ wallets'[u].held = wallets[u].held + (IF u = a THEN held ELSE 0)
                               /\ wallets'[u].payoutHeld = wallets[u].payoutHeld
                               /\ wallets'[u].earned = wallets[u].earned
           /\ MoneyBooks'
  <1>1. Outer' = Outer + 0
    BY OuterStays
  <1>2. \A u \in Users : wallets[u].payoutHeld \in Int
    BY FieldsOfWallet DEF IInv, WalletFields
  <1>3. /\ \A u \in Users : /\ wallets'[u].held = wallets[u].held + (IF u = a THEN held ELSE 0)
                            /\ wallets'[u].payoutHeld = wallets[u].payoutHeld
                                  + (IF u = a THEN 0 ELSE 0)
                            /\ wallets'[u].earned = wallets[u].earned
        /\ MoneyBooks'
    <2>1. 0 \in Int OBVIOUS
    <2> QED BY <1>1, <2>1, OneWalletChanges
  <1> QED BY <1>2, <1>3

\* One wallet pays the lines that the others earn.
LEMMA LinesArePaid ==
    ASSUME IInv, IInv', AInv, UNCHANGED <<locks, external>>, NEW a \in Users,
           NEW lines \in Share,
           lines[a] = 0, NEW w,
           wallets' = [u \in Users |-> IF u = a THEN w ELSE Earn(wallets[u], lines[u])],
           NEW held \in Int,
           Differs(w, wallets[a], held, 0, 0, SumFunction(lines), -SumFunction(lines))
    PROVE  /\ \A u \in Users : /\ wallets'[u].held = wallets[u].held + (IF u = a THEN held ELSE 0)
                               /\ wallets'[u].payoutHeld = wallets[u].payoutHeld
                               /\ wallets'[u].earned = wallets[u].earned + lines[u]
           /\ MoneyBooks'
  <1>1. wallets \in [Users -> SoundWallet] BY DEF IInv
  <1>2. \A u \in Users : /\ wallets[u].held \in Int /\ wallets[u].payoutHeld \in Int
                         /\ wallets[u].earned \in Int /\ wallets[u].spent \in Int
                         /\ Worth(wallets[u]) \in Int
    BY <1>1, FieldsOfWallet DEF WalletFields, Worth
  <1>3. wallets'[a] = w /\ \A u \in Users \ {a} : wallets'[u] = Earn(wallets[u], lines[u])
    OBVIOUS
  <1>4. SumFunction(lines) \in Int
    <2>1. lines \in [Users -> Int] BY DEF Share
    <2> QED BY <2>1, TotalType, PartiesAssumption
  <1>5. /\ w.held = wallets[a].held + held /\ w.payoutHeld = wallets[a].payoutHeld
        /\ w.earned = wallets[a].earned /\ w.spent = wallets[a].spent + SumFunction(lines)
        /\ Worth(w) = Worth(wallets[a]) - SumFunction(lines)
    BY <1>2, <1>4 DEF Differs
  <1>6. MoneyBooks' BY <1>3, <1>5, MoneyOfLines
  <1>7. ASSUME NEW u \in Users
        PROVE  /\ wallets'[u].held = wallets[u].held + (IF u = a THEN held ELSE 0)
               /\ wallets'[u].payoutHeld = wallets[u].payoutHeld
               /\ wallets'[u].earned = wallets[u].earned + lines[u]
    <2>1. CASE u = a BY <1>2, <1>3, <1>5, <2>1
    <2>2. CASE u # a
      <3>1. wallets[u] \in SoundWallet /\ lines[u] \in Nat BY <1>1 DEF Share
      <3>2. Differs(wallets'[u], wallets[u], 0, 0, lines[u], 0, lines[u])
        BY <1>3, <2>2, <3>1, EarnDiffers
      <3> QED BY <1>2, <2>2, <3>2 DEF Differs
    <2> QED BY <2>1, <2>2
  <1> QED BY <1>6, <1>7

-----------------------------------------------------------------------------
(* Every operation keeps the books *)

\* Creating a hold.
LEMMA CreateHoldAudit ==
    ASSUME IInv, IInv', AInv, NEW h \in Holds, NEW payer \in Payers, NEW max \in Amounts,
           NEW expires \in Expiries, CreateHold(h, payer, max, expires)
    PROVE  AInv' /\ SpentGrows
  <1>1. payer \in Users /\ max \in Nat BY Inputs
  <1>2. wallets[payer] \in SoundWallet BY <1>1 DEF IInv
  <1>3. holds[h].status = "none" /\ holds[h].lines = NoLines
    BY DEF CreateHold, AInv, DocumentsInv
  <1>4. PICK caps \in Shares(payer, max) :
          holds' = [holds EXCEPT ![h] =
              [NoHold EXCEPT !.status = "open", !.payer = payer, !.max = max,
                             !.withdrawable = DebitPortion(wallets[payer], max),
                             !.caps = caps, !.expires = expires]]
    BY DEF CreateHold
  <1>5. /\ \A k \in Holds \ {h} : holds'[k] = holds[k]
        /\ holds'[h].status = "open" /\ holds'[h].payer = payer /\ holds'[h].max = max
        /\ holds'[h].lines = NoLines
    BY <1>4 DEF IInv, NoHold
  <1>6. /\ wallets' = [wallets EXCEPT ![payer] = SetAside(wallets[payer], max)]
        /\ UNCHANGED <<locks, external, pools, reservations, debits, payouts>>
    BY DEF CreateHold
  <1>7. Differs(SetAside(wallets[payer], max), wallets[payer], max, 0, 0, 0, 0)
    BY <1>1, <1>2, SetAsideDiffers
  <1>9. /\ \A u \in Users : /\ wallets'[u].held = wallets[u].held + (IF u = payer THEN max ELSE 0)
                            /\ wallets'[u].payoutHeld = wallets[u].payoutHeld
                            /\ wallets'[u].earned = wallets[u].earned
        /\ MoneyBooks'
    <2>1. max \in Int BY <1>1
    <2> QED BY <1>1, <1>6, <1>7, <2>1, OneHeldChanges
  <1>10. HeldBooks'
    <2>1. \A u \in Users : HoldPart(holds'[h], u) - HoldPart(holds[h], u)
                             = IF u = payer THEN max ELSE 0
      BY <1>1, <1>3, <1>5 DEF HoldPart
    <2> QED BY <1>5, <1>6, <1>9, <2>1, HeldFollowsHold
  <1>11. EarnedBooks'
    <2>1. \A u \in Users : wallets'[u].earned = wallets[u].earned
                              + (holds'[h].lines[u] - holds[h].lines[u])
      <3>1. \A u \in Users : NoLines[u] = 0 BY DEF NoLines
      <3>2. \A u \in Users : wallets[u].earned \in Int
        BY FieldsOfWallet DEF IInv, WalletFields
      <3> QED BY <1>3, <1>5, <1>9, <3>1, <3>2
    <2> QED BY <1>5, <1>6, <2>1, EarnedFollowsHold
  <1>12. BudgetBooks' /\ SpentGrows
    <2>1. BudgetPart(holds'[h]) - BudgetPart(holds[h]) = max
      BY <1>1, <1>3, <1>5 DEF BudgetPart
    <2>2. SumFunction(holds'[h].lines) - SumFunction(holds[h].lines) = 0
      <3>1. holds[h].lines \in [Users -> Int] BY DEF IInv, SoundHold, HoldType, Share
      <3>2. SumFunction(holds[h].lines) \in Int BY <3>1, TotalType, PartiesAssumption
      <3> QED BY <1>3, <1>5, <3>2
    <2>3. budget \in [spent : Nat, reserved : Int] BY DEF IInv, SoundBudget
    <2>4. /\ h \notin ProjectHolds => UNCHANGED budget
          /\ h \in ProjectHolds => /\ budget'.reserved = budget.reserved + max
                                   /\ budget'.spent >= budget.spent + 0
      <3>1. project.spent \in Nat BY DEF IInv, SoundProject
      <3> QED BY <2>3, <3>1 DEF CreateHold, ReserveBudget, ProjectSpent
    <2> QED BY <1>5, <2>1, <2>2, <2>4, BudgetFollowsHold
  <1>13. DocumentsInv'
    BY <1>5, <1>6 DEF AInv, DocumentsInv
  <1>14. PoolBooks' /\ PayoutBooks'
    BY <1>6, <1>9, BooksKept
  <1> QED BY <1>9, <1>10, <1>11, <1>12, <1>13, <1>14 DEF AInv

\* Starting a hold.
LEMMA StartHoldAudit ==
    ASSUME IInv, IInv', AInv, NEW h \in Holds, NEW run \in Runs, StartHold(h, run)
    PROVE  AInv' /\ SpentGrows
  <1>1. holds[h].status = "open" /\ holds[h] \in SoundHold BY DEF StartHold, IInv
  <1>2. /\ \A k \in Holds \ {h} : holds'[k] = holds[k]
        /\ holds'[h].status = "running" /\ holds'[h].payer = holds[h].payer
        /\ holds'[h].max = holds[h].max /\ holds'[h].lines = holds[h].lines
    BY <1>1 DEF StartHold, IInv, SoundHold, HoldType
  <1>3. UNCHANGED <<wallets, pools, reservations, debits, payouts, budget, locks, external>>
    BY DEF StartHold
  <1>4. holds[h].max \in Int /\ holds[h].lines \in [Users -> Int]
    BY <1>1 DEF SoundHold, HoldType, Share
  <1>5. HeldBooks'
    <2>1. \A u \in Users : HoldPart(holds'[h], u) - HoldPart(holds[h], u) = 0
      BY <1>1, <1>2, <1>4 DEF HoldPart
    <2>2. \A u \in Users : wallets[u].held \in Int
      BY FieldsOfWallet DEF IInv, WalletFields
    <2>3. \A u \in Users : wallets'[u].held =
             wallets[u].held + (HoldPart(holds'[h], u) - HoldPart(holds[h], u))
      BY <1>3, <2>1, <2>2
    <2> QED BY <1>2, <1>3, <2>3, HeldFollowsHold
  <1>6. EarnedBooks'
    <2>1. \A u \in Users : wallets[u].earned \in Int
      BY FieldsOfWallet DEF IInv, WalletFields
    <2>2. \A u \in Users : wallets'[u].earned =
             wallets[u].earned + (holds'[h].lines[u] - holds[h].lines[u])
      BY <1>2, <1>3, <1>4, <2>1
    <2> QED BY <1>2, <1>3, <2>2, EarnedFollowsHold
  <1>7. BudgetBooks' /\ SpentGrows
    <2>1. BudgetPart(holds'[h]) - BudgetPart(holds[h]) = 0
      BY <1>1, <1>2, <1>4 DEF BudgetPart
    <2>2. SumFunction(holds'[h].lines) - SumFunction(holds[h].lines) = 0
      <3>1. SumFunction(holds[h].lines) \in Int BY <1>4, TotalType, PartiesAssumption
      <3> QED BY <1>2, <3>1
    <2>3. budget.spent \in Int /\ budget.reserved \in Int BY DEF IInv, SoundBudget
    <2> QED BY <1>2, <1>3, <2>1, <2>2, <2>3, BudgetFollowsHold
  <1>8. DocumentsInv'
    BY <1>1, <1>2, <1>3 DEF AInv, DocumentsInv
  <1>9. PoolBooks' /\ PayoutBooks'
    BY <1>3, BooksKept
  <1>10. MoneyBooks'
    BY <1>3 DEF AInv, MoneyBooks, TotalWorth, TotalSpent, TotalEarned, Outer, TotalLocked
  <1> QED BY <1>5, <1>6, <1>7, <1>8, <1>9, <1>10 DEF AInv

\* Settling a hold: the refund and the lines are what the hold set aside.
LEMMA SettleHoldAudit ==
    ASSUME IInv, IInv', AInv, NEW h \in Holds, SettleHold(h)
    PROVE  AInv' /\ SpentGrows
  <1> DEFINE max == holds[h].max
             payer == holds[h].payer
  <1>1. holds[h] \in SoundHold /\ holds[h].status = "running" /\ holds[h].lines = NoLines
    BY DEF SettleHold, IInv, AInv, DocumentsInv
  <1>2. payer \in Users /\ max \in Nat /\ holds[h].withdrawable \in Int
    BY <1>1 DEF SoundHold, HoldType
  <1>3. PICK actual \in 0..max, lines \in Shares(payer, max) :
          /\ actual = SumFunction(lines)
          /\ wallets' = [u \in Users |->
                 IF u = payer
                 THEN [GiveBack(wallets[u], max - actual,
                            Lesser(max - actual, holds[h].withdrawable), max)
                         EXCEPT !.spent = @ + actual]
                 ELSE Earn(wallets[u], lines[u])]
          /\ holds' = [holds EXCEPT ![h].status = "settled", ![h].lines = lines]
          /\ FinalizeBudget(h, max, actual)
    BY DEF SettleHold
  <1>4. lines \in Share /\ lines[payer] = 0
    BY <1>2, SharesAreShares DEF Shares
  <1>5. UNCHANGED <<pools, reservations, debits, payouts, locks, external>>
    BY DEF SettleHold
  <1>6. /\ \A k \in Holds \ {h} : holds'[k] = holds[k]
        /\ holds'[h].status = "settled" /\ holds'[h].lines = lines
    BY <1>1, <1>3 DEF IInv, SoundHold, HoldType
  <1> DEFINE part == Lesser(max - actual, holds[h].withdrawable)
             back == GiveBack(wallets[payer], max - actual, part, max)
             w == [back EXCEPT !.spent = @ + actual]
  <1>7. wallets[payer] \in SoundWallet BY <1>2 DEF IInv
  <1>8. Differs(w, wallets[payer], -max, 0, 0, actual, -actual)
    <2>1. part \in Int /\ actual \in Nat /\ max - actual \in Int BY <1>2, <1>3 DEF Lesser
    <2> HIDE DEF part
    <2>2. Differs(w, wallets[payer], -max, 0, 0, actual, (max - actual) - max)
      BY <1>2, <1>7, <2>1, SettleDiffers
    <2>3. (max - actual) - max = -actual BY <1>2, <2>1
    <2> QED BY <2>2, <2>3
  <1>9. wallets' = [u \in Users |-> IF u = payer THEN w ELSE Earn(wallets[u], lines[u])]
    BY <1>3
  <1> HIDE DEF w
  <1>10. /\ \A u \in Users : /\ wallets'[u].held = wallets[u].held + (IF u = payer THEN -max ELSE 0)
                             /\ wallets'[u].payoutHeld = wallets[u].payoutHeld
                             /\ wallets'[u].earned = wallets[u].earned + lines[u]
         /\ MoneyBooks'
    <2>1. Differs(w, wallets[payer], -max, 0, 0, SumFunction(lines), -SumFunction(lines))
      BY <1>3, <1>8
    <2>2. -max \in Int BY <1>2
    <2> QED BY <1>2, <1>4, <1>5, <1>9, <2>1, <2>2, LinesArePaid
  <1>11. HeldBooks'
    <2>1. \A u \in Users : HoldPart(holds'[h], u) - HoldPart(holds[h], u)
                             = IF u = payer THEN -max ELSE 0
      BY <1>1, <1>2, <1>6 DEF HoldPart
    <2> QED BY <1>5, <1>6, <1>10, <2>1, HeldFollowsHold
  <1>12. EarnedBooks'
    <2>1. \A u \in Users : holds'[h].lines[u] - holds[h].lines[u] = lines[u]
      BY <1>1, <1>4, <1>6 DEF NoLines, Share
    <2> QED BY <1>5, <1>6, <1>10, <2>1, EarnedFollowsHold
  <1>13. BudgetBooks' /\ SpentGrows
    <2>1. BudgetPart(holds'[h]) - BudgetPart(holds[h]) = -max
      BY <1>1, <1>2, <1>6 DEF BudgetPart
    <2>2. SumFunction(holds'[h].lines) - SumFunction(holds[h].lines) = actual
      <3>1. SumFunction(NoLines) = 0 BY PartiesAssumption, TotalZero DEF NoLines
      <3> QED BY <1>1, <1>3, <1>6, <3>1
    <2>3. budget \in [spent : Nat, reserved : Int] BY DEF IInv, SoundBudget
    <2>4. /\ h \notin ProjectHolds => UNCHANGED budget
          /\ h \in ProjectHolds => /\ budget'.reserved = budget.reserved + (-max)
                                   /\ budget'.spent >= budget.spent + actual
      BY <1>2, <1>3, <2>3 DEF FinalizeBudget
    <2> QED BY <1>6, <2>1, <2>2, <2>4, BudgetFollowsHold
  <1>14. DocumentsInv'
    BY <1>5, <1>6 DEF AInv, DocumentsInv
  <1>15. PoolBooks' /\ PayoutBooks'
    BY <1>5, <1>10, BooksKept
  <1> QED BY <1>10, <1>11, <1>12, <1>13, <1>14, <1>15 DEF AInv

\* Releasing a hold.
LEMMA ReleaseHoldAudit ==
    ASSUME IInv, IInv', AInv, NEW h \in Holds, NEW caller \in Users, ReleaseHold(h, caller)
    PROVE  AInv' /\ SpentGrows
  <1> DEFINE max == holds[h].max
             payer == holds[h].payer
             w == GiveBack(wallets[payer], max, holds[h].withdrawable, max)
  <1>1. holds[h] \in SoundHold /\ holds[h].status \in {"open", "running"}
    BY DEF ReleaseHold, Active, IInv
  <1>2. payer \in Users /\ max \in Nat /\ holds[h].withdrawable \in Int
    BY <1>1 DEF SoundHold, HoldType
  <1>3. /\ \A k \in Holds \ {h} : holds'[k] = holds[k]
        /\ holds'[h].status \in {"expired", "released"} /\ holds'[h].lines = holds[h].lines
    BY <1>1 DEF ReleaseHold, IInv, SoundHold, HoldType
  <1>4. /\ wallets' = [wallets EXCEPT ![payer] = w]
        /\ UNCHANGED <<locks, external, pools, reservations, debits, payouts>>
    BY DEF ReleaseHold
  <1>5. Differs(w, wallets[payer], -max, 0, 0, 0, 0)
    <2>1. wallets[payer] \in SoundWallet BY <1>2 DEF IInv
    <2>2. Differs(w, wallets[payer], -max, 0, 0, 0, max - max)
      BY <1>2, <2>1, GiveBackDiffers
    <2>3. max - max = 0 BY <1>2
    <2> QED BY <2>2, <2>3
  <1> HIDE DEF w
  <1>7. /\ \A u \in Users : /\ wallets'[u].held = wallets[u].held + (IF u = payer THEN -max ELSE 0)
                            /\ wallets'[u].payoutHeld = wallets[u].payoutHeld
                            /\ wallets'[u].earned = wallets[u].earned
        /\ MoneyBooks'
    <2>1. -max \in Int BY <1>2
    <2> QED BY <1>2, <1>4, <1>5, <2>1, OneHeldChanges
  <1>8. HeldBooks'
    <2>1. \A u \in Users : HoldPart(holds'[h], u) - HoldPart(holds[h], u)
                             = IF u = payer THEN -max ELSE 0
      BY <1>1, <1>2, <1>3 DEF HoldPart
    <2> QED BY <1>3, <1>4, <1>7, <2>1, HeldFollowsHold
  <1>9. holds[h].lines \in [Users -> Int]
    BY <1>1 DEF SoundHold, HoldType, Share
  <1>10. EarnedBooks'
    <2>1. \A u \in Users : wallets[u].earned \in Int
      BY FieldsOfWallet DEF IInv, WalletFields
    <2>2. \A u \in Users : wallets'[u].earned =
             wallets[u].earned + (holds'[h].lines[u] - holds[h].lines[u])
      BY <1>3, <1>7, <1>9, <2>1
    <2> QED BY <1>3, <1>4, <2>2, EarnedFollowsHold
  <1>11. BudgetBooks' /\ SpentGrows
    <2>1. BudgetPart(holds'[h]) - BudgetPart(holds[h]) = -max
      BY <1>1, <1>2, <1>3 DEF BudgetPart
    <2>2. SumFunction(holds'[h].lines) - SumFunction(holds[h].lines) = 0
      <3>1. SumFunction(holds[h].lines) \in Int BY <1>9, TotalType, PartiesAssumption
      <3> QED BY <1>3, <3>1
    <2>3. budget \in [spent : Nat, reserved : Int] BY DEF IInv, SoundBudget
    <2>4. /\ h \notin ProjectHolds => UNCHANGED budget
          /\ h \in ProjectHolds => /\ budget'.reserved = budget.reserved + (-max)
                                   /\ budget'.spent >= budget.spent + 0
      BY <1>2, <2>3 DEF ReleaseHold, FinalizeBudget
    <2> QED BY <1>3, <2>1, <2>2, <2>4, BudgetFollowsHold
  <1>12. DocumentsInv'
    BY <1>1, <1>3, <1>4 DEF AInv, DocumentsInv
  <1>13. PoolBooks' /\ PayoutBooks'
    BY <1>4, <1>7, BooksKept
  <1> QED BY <1>7, <1>8, <1>10, <1>11, <1>12, <1>13 DEF AInv

\* The fields of an open pool, as the books see them.
LEMMA OpenPoolFields ==
    ASSUME IInv, AInv, NEW p \in Pools, pools[p].status = "open"
    PROVE  /\ PoolFields(pools[p]) /\ pools[p].payer \in Users
           /\ pools[p].remaining \in Nat /\ pools[p].refunded >= 0
           /\ wallets[pools[p].payer] \in SoundWallet
  <1>1. PoolFields(pools[p]) BY FieldsOfPool DEF IInv
  <1>2. pools[p].payer \in Users BY <1>1 DEF PoolFields
  <1>3. wallets[pools[p].payer] \in SoundWallet BY <1>2 DEF IInv
  <1>4. pools[p].remaining \in Nat /\ pools[p].refunded >= 0
    BY <1>1 DEF AInv, PoolBooks, PoolFields
  <1> QED BY <1>1, <1>2, <1>3, <1>4

\* What the pools have reserved stays what it was when no reservation changes.
LEMMA ReservedKept ==
    ASSUME AInv, UNCHANGED reservations,
           \A p \in Pools : /\ pools'[p].remaining >= 0 /\ pools'[p].refunded >= 0
                            /\ pools'[p].reserved = pools[p].reserved
    PROVE  PoolBooks'
  <1>1. \A p \in Pools : Reserved(p)' = Reserved(p) BY DEF Reserved
  <1> QED BY <1>1 DEF AInv, PoolBooks

\* Opening a pool.
LEMMA OpenPoolAudit ==
    ASSUME IInv, IInv', AInv, NEW p \in Pools, NEW payer \in Payers, NEW amount \in Amounts,
           NEW expires \in Expiries, OpenPool(p, payer, amount, expires)
    PROVE  AInv'
  <1>1. payer \in Users /\ amount \in Nat /\ amount \in Int BY Inputs
  <1>2. wallets[payer] \in SoundWallet BY <1>1 DEF IInv
  <1>3. pools[p].status = "none" BY DEF OpenPool
  <1>4. /\ \A k \in Pools \ {p} : pools'[k] = pools[k]
        /\ pools'[p].status = "open" /\ pools'[p].payer = payer
        /\ pools'[p].remaining = amount /\ pools'[p].reserved = 0 /\ pools'[p].refunded = 0
    BY DEF OpenPool, IInv
  <1>5. /\ wallets' = [wallets EXCEPT ![payer] = SetAside(wallets[payer], amount)]
        /\ UNCHANGED <<locks, external, holds, reservations, debits, payouts, budget>>
    BY DEF OpenPool
  <1>6. Differs(SetAside(wallets[payer], amount), wallets[payer], amount, 0, 0, 0, 0)
    BY <1>1, <1>2, SetAsideDiffers
  <1>7. /\ \A u \in Users : /\ wallets'[u].held = wallets[u].held + (IF u = payer THEN amount ELSE 0)
                            /\ wallets'[u].payoutHeld = wallets[u].payoutHeld
                            /\ wallets'[u].earned = wallets[u].earned
        /\ MoneyBooks'
    BY <1>1, <1>5, <1>6, OneHeldChanges
  <1>8. HeldBooks'
    <2>1. \A u \in Users : PoolPart(pools'[p], u) - PoolPart(pools[p], u)
                             = IF u = payer THEN amount ELSE 0
      BY <1>1, <1>3, <1>4 DEF PoolPart
    <2> QED BY <1>4, <1>5, <1>7, <2>1, HeldFollowsPool
  <1>9. pools[p].reserved = 0 /\ \A r \in Runs : reservations[r].status = "reserved" =>
                                                   reservations[r].pool # p
    BY <1>3 DEF AInv, DocumentsInv
  <1>10. PoolBooks'
    BY <1>1, <1>4, <1>5, <1>9, ReservedKept DEF AInv, PoolBooks
  <1>11. DocumentsInv'
    <2>1. \A r \in Runs : reservations[r].status = "reserved" => reservations[r].pool \in Pools
      BY DEF IInv, SoundReservation
    <2> QED BY <1>4, <1>5, <1>9, <2>1 DEF AInv, DocumentsInv
  <1>12. PayoutBooks' /\ EarnedBooks' /\ BudgetBooks'
    BY <1>5, <1>7, BooksKept
  <1> QED BY <1>7, <1>8, <1>10, <1>11, <1>12 DEF AInv

\* Refreshing a pool.
LEMMA RefreshPoolAudit ==
    ASSUME IInv, IInv', AInv, NEW p \in Pools, NEW key \in Keys, NEW amount \in Amounts,
           NEW expires \in Expiries, RefreshPool(p, key, amount, expires)
    PROVE  AInv'
  <1> DEFINE payer == pools[p].payer
  <1>1. amount \in Nat /\ amount \in Int BY Inputs
  <1>2. pools[p].status = "open" /\ pools[p] \in SoundPool BY DEF RefreshPool, IInv
  <1>3. /\ PoolFields(pools[p]) /\ payer \in Users
        /\ pools[p].remaining \in Nat /\ wallets[payer] \in SoundWallet
    BY <1>2, OpenPoolFields
  <1>4. /\ \A k \in Pools \ {p} : pools'[k] = pools[k]
        /\ pools'[p].status = "open" /\ pools'[p].payer = payer
        /\ pools'[p].remaining = pools[p].remaining + amount
        /\ pools'[p].reserved = pools[p].reserved /\ pools'[p].refunded = pools[p].refunded
    <2> DEFINE d == [pools[p] EXCEPT
                 !.max = @ + amount, !.remaining = @ + amount,
                 !.withdrawable = @ + DebitPortion(wallets[payer], amount),
                 !.expires = IF expires > clock THEN expires ELSE @]
    <2>1. pools' = [pools EXCEPT ![p] = d] BY DEF RefreshPool, IInv
    <2>2. /\ d.status = "open" /\ d.payer = payer /\ d.remaining = pools[p].remaining + amount
          /\ d.reserved = pools[p].reserved /\ d.refunded = pools[p].refunded
      BY <1>2 DEF SoundPool, PoolType
    <2> HIDE DEF d
    <2> QED BY <2>1, <2>2 DEF IInv
  <1>5. /\ wallets' = [wallets EXCEPT ![payer] = SetAside(wallets[payer], amount)]
        /\ UNCHANGED <<locks, external, holds, reservations, debits, payouts, budget>>
    BY DEF RefreshPool
  <1>6. Differs(SetAside(wallets[payer], amount), wallets[payer], amount, 0, 0, 0, 0)
    BY <1>1, <1>3, SetAsideDiffers
  <1>7. /\ \A u \in Users : /\ wallets'[u].held = wallets[u].held + (IF u = payer THEN amount ELSE 0)
                            /\ wallets'[u].payoutHeld = wallets[u].payoutHeld
                            /\ wallets'[u].earned = wallets[u].earned
        /\ MoneyBooks'
    BY <1>1, <1>3, <1>5, <1>6, OneHeldChanges
  <1>8. HeldBooks'
    <2>1. \A u \in Users : PoolPart(pools'[p], u) - PoolPart(pools[p], u)
                             = IF u = payer THEN amount ELSE 0
      BY <1>1, <1>2, <1>3, <1>4 DEF PoolPart, PoolFields
    <2> QED BY <1>4, <1>5, <1>7, <2>1, HeldFollowsPool
  <1>9. PoolBooks'
    BY <1>1, <1>3, <1>4, <1>5, ReservedKept DEF AInv, PoolBooks
  <1>10. \A k \in Pools : /\ pools'[k].payer = pools[k].payer
                          /\ pools'[k].status = "none" => pools'[k] = pools[k]
    BY <1>4
  <1>11. DocumentsInv' /\ PayoutBooks' /\ EarnedBooks' /\ BudgetBooks'
    BY <1>5, <1>7, <1>10, BooksKept
  <1> QED BY <1>7, <1>8, <1>9, <1>11 DEF AInv

\* Closing a pool gives back what remains, and nothing is reserved then.
LEMMA ClosePoolAudit ==
    ASSUME IInv, IInv', AInv, NEW p \in Pools, NEW caller \in Users, ClosePool(p, caller)
    PROVE  AInv'
  <1> DEFINE payer == pools[p].payer
             rest == pools[p].remaining
             back == Lesser(rest, pools[p].withdrawable)
             w == GiveBack(wallets[payer], rest, back, rest)
  <1>1. pools[p].status = "open" /\ pools[p] \in SoundPool /\ pools[p].reserved = 0
    BY DEF ClosePool, InFlight, IInv
  <1>2. /\ PoolFields(pools[p]) /\ payer \in Users /\ rest \in Nat
        /\ pools[p].refunded >= 0 /\ wallets[payer] \in SoundWallet
    BY <1>1, OpenPoolFields
  <1>3. /\ \A k \in Pools \ {p} : pools'[k] = pools[k]
        /\ pools'[p].status = "closed" /\ pools'[p].payer = payer
        /\ pools'[p].remaining = 0 /\ pools'[p].reserved = 0
        /\ pools'[p].refunded = pools[p].refunded + rest
    BY <1>1 DEF ClosePool, IInv, SoundPool, PoolType
  <1>4. UNCHANGED <<locks, external, holds, reservations, debits, payouts, budget>>
    BY DEF ClosePool
  <1>5. /\ \A u \in Users : /\ wallets'[u].held = wallets[u].held + (IF u = payer THEN -rest ELSE 0)
                            /\ wallets'[u].payoutHeld = wallets[u].payoutHeld
                            /\ wallets'[u].earned = wallets[u].earned
        /\ MoneyBooks'
    <2>1. CASE rest > 0
      <3>1. wallets' = [wallets EXCEPT ![payer] = w]
        BY <1>2, <2>1 DEF ClosePool
      <3>2. back \in Int /\ rest \in Int /\ -rest \in Int
        BY <1>2 DEF PoolFields, Lesser
      <3>3. Differs(w, wallets[payer], -rest, 0, 0, 0, rest - rest)
        <4> HIDE DEF back
        <4> QED BY <1>2, <3>2, GiveBackDiffers
      <3>4. rest - rest = 0 BY <1>2
      <3>5. Differs(w, wallets[payer], -rest, 0, 0, 0, 0) BY <3>3, <3>4
      <3> HIDE DEF w
      <3> QED BY <1>2, <1>4, <3>1, <3>2, <3>5, OneHeldChanges
    <2>2. CASE rest = 0
      <3>1. UNCHANGED wallets BY <2>2 DEF ClosePool
      <3>2. \A u \in Users : wallets[u].held \in Int
        BY FieldsOfWallet DEF IInv, WalletFields
      <3>3. MoneyBooks'
        BY <1>4, <3>1 DEF AInv, MoneyBooks, TotalWorth, TotalSpent, TotalEarned, Outer, TotalLocked
      <3> QED BY <2>2, <3>1, <3>2, <3>3
    <2> QED BY <1>2, <2>1, <2>2
  <1>6. HeldBooks'
    <2>1. \A u \in Users : PoolPart(pools'[p], u) - PoolPart(pools[p], u)
                             = IF u = payer THEN -rest ELSE 0
      BY <1>1, <1>2, <1>3 DEF PoolPart
    <2> QED BY <1>3, <1>4, <1>5, <2>1, HeldFollowsPool
  <1>7. PoolBooks'
    BY <1>1, <1>2, <1>3, <1>4, ReservedKept DEF AInv, PoolBooks, PoolFields
  <1>8. \A k \in Pools : /\ pools'[k].payer = pools[k].payer
                         /\ pools'[k].status = "none" => pools'[k] = pools[k]
    BY <1>3
  <1>9. DocumentsInv' /\ PayoutBooks' /\ EarnedBooks' /\ BudgetBooks'
    BY <1>4, <1>5, <1>8, BooksKept
  <1> QED BY <1>5, <1>6, <1>7, <1>9 DEF AInv

\* Nothing is earned when the lines of the runs stay as they are.
LEMMA EarnedKept ==
    ASSUME AInv, UNCHANGED <<holds, debits>>,
           \A r \in Runs : reservations'[r].lines = reservations[r].lines,
           \A u \in Users : wallets'[u].earned = wallets[u].earned
    PROVE  EarnedBooks'
  <1>1. \A u \in Users : RunsEarned(u)' = RunsEarned(u) /\ HoldsEarned(u)' = HoldsEarned(u)
    BY DEF RunsEarned, HoldsEarned
  <1> QED BY <1>1 DEF AInv, EarnedBooks

\* Reserving from a pool moves an amount within it.
LEMMA ReservePoolAudit ==
    ASSUME IInv, IInv', AInv, NEW p \in Pools, NEW run \in Runs, NEW amount \in Amounts,
           ReservePool(p, run, amount)
    PROVE  AInv'
  <1>1. amount \in Nat BY Inputs
  <1>2. pools[p].status = "open" /\ pools[p] \in SoundPool /\ pools[p].remaining >= amount
    BY DEF ReservePool, IInv
  <1>3. /\ PoolFields(pools[p]) /\ pools[p].payer \in Users
        /\ pools[p].remaining \in Nat /\ pools[p].refunded >= 0
    BY <1>2, OpenPoolFields
  <1>4. /\ \A k \in Pools \ {p} : pools'[k] = pools[k]
        /\ pools'[p].status = "open" /\ pools'[p].payer = pools[p].payer
        /\ pools'[p].remaining = pools[p].remaining - amount
        /\ pools'[p].reserved = pools[p].reserved + amount
        /\ pools'[p].refunded = pools[p].refunded
    BY <1>2 DEF ReservePool, IInv, SoundPool, PoolType
  <1>5. PICK caps \in Shares(pools[p].payer, amount) :
          reservations' = [reservations EXCEPT ![run] =
             [NoReservation EXCEPT !.status = "reserved", !.pool = p,
                                   !.payer = pools[p].payer, !.amount = amount,
                                   !.caps = caps]]
    BY DEF ReservePool
  <1>6. /\ \A r \in Runs \ {run} : reservations'[r] = reservations[r]
        /\ reservations'[run].status = "reserved" /\ reservations'[run].pool = p
        /\ reservations'[run].payer = pools[p].payer /\ reservations'[run].amount = amount
        /\ reservations'[run].lines = NoLines
    BY <1>5 DEF IInv, NoReservation
  <1>7. reservations[run].status = "none" /\ reservations[run].lines = NoLines
    BY DEF ReservePool, AInv, DocumentsInv
  <1>8. UNCHANGED <<wallets, holds, debits, payouts, budget, locks, external>>
    BY DEF ReservePool
  <1>9. HeldBooks'
    <2>1. \A u \in Users : PoolPart(pools'[p], u) - PoolPart(pools[p], u) = 0
      BY <1>1, <1>2, <1>3, <1>4 DEF PoolPart, PoolFields
    <2>2. \A u \in Users : wallets[u].held \in Int
      BY FieldsOfWallet DEF IInv, WalletFields
    <2>3. \A u \in Users : wallets'[u].held =
             wallets[u].held + (PoolPart(pools'[p], u) - PoolPart(pools[p], u))
      BY <1>8, <2>1, <2>2
    <2> QED BY <1>4, <1>8, <2>3, HeldFollowsPool
  <1>10. PoolBooks'
    <2>1. \A k \in Pools : ReservedPart(reservations'[run], k) - ReservedPart(reservations[run], k)
                             = IF k = p THEN amount ELSE 0
      BY <1>1, <1>6, <1>7 DEF ReservedPart
    <2>2. ASSUME NEW k \in Pools
          PROVE  /\ pools'[k].remaining >= 0 /\ pools'[k].refunded >= 0
                 /\ pools'[k].reserved = pools[k].reserved + (IF k = p THEN amount ELSE 0)
      <3>1. CASE k = p BY <1>1, <1>2, <1>3, <1>4, <3>1 DEF PoolFields
      <3>2. CASE k # p
        <4>1. pools[k].reserved \in Int BY FieldsOfPool DEF IInv, PoolFields
        <4> QED BY <1>4, <3>2, <4>1 DEF AInv, PoolBooks
      <3> QED BY <3>1, <3>2
    <2> QED BY <1>6, <2>1, <2>2, PoolsFollowReservation
  <1>11. EarnedBooks'
    BY <1>6, <1>7, <1>8, EarnedKept
  <1>12. DocumentsInv'
    <2>1. \A r \in Runs : reservations[r].status = "reserved" => reservations[r].pool \in Pools
      BY DEF IInv, SoundReservation
    <2> QED BY <1>2, <1>4, <1>6, <1>8, <2>1 DEF AInv, DocumentsInv
  <1>13. PayoutBooks' /\ BudgetBooks'
    BY <1>8, BooksKept
  <1>14. MoneyBooks'
    BY <1>8 DEF AInv, MoneyBooks, TotalWorth, TotalSpent, TotalEarned, Outer, TotalLocked
  <1> QED BY <1>9, <1>10, <1>11, <1>12, <1>13, <1>14 DEF AInv

\* The fields of a reservation in flight, as the books see them.
LEMMA InFlightFields ==
    ASSUME IInv, AInv, NEW run \in Runs, reservations[run].status = "reserved"
    PROVE  LET p == reservations[run].pool
           IN  /\ p \in Pools /\ pools[p] \in SoundPool /\ PoolFields(pools[p])
               /\ pools[p].remaining \in Nat /\ pools[p].refunded >= 0
               /\ pools[p].status # "none"
               /\ reservations[run].amount \in Nat
               /\ reservations[run].payer = pools[p].payer /\ pools[p].payer \in Users
               /\ wallets[pools[p].payer] \in SoundWallet
               /\ reservations[run].lines = NoLines
  <1> DEFINE p == reservations[run].pool
  <1>1. reservations[run] \in SoundReservation BY DEF IInv
  <1>2. /\ p \in Pools /\ reservations[run].payer \in Users
        /\ reservations[run].amount \in Nat
    BY <1>1 DEF SoundReservation, ReservationType
  <1>3. pools[p] \in SoundPool /\ PoolFields(pools[p]) BY <1>2, FieldsOfPool DEF IInv
  <1>4. pools[p].remaining \in Nat /\ pools[p].refunded >= 0
    BY <1>2, <1>3 DEF AInv, PoolBooks, PoolFields
  <1>5. /\ reservations[run].payer = pools[p].payer /\ pools[p].status # "none"
        /\ reservations[run].lines = NoLines
    BY <1>2 DEF AInv, DocumentsInv
  <1>6. wallets[pools[p].payer] \in SoundWallet BY <1>2, <1>5 DEF IInv
  <1> QED BY <1>2, <1>3, <1>4, <1>5, <1>6

\* What the pools have reserved when a reservation ends.
LEMMA ReservationEnds ==
    ASSUME IInv, IInv', AInv, NEW run \in Runs, reservations[run].status = "reserved",
           \A r \in Runs \ {run} : reservations'[r] = reservations[r],
           reservations'[run].status # "reserved",
           NEW p \in Pools, p = reservations[run].pool,
           \A k \in Pools \ {p} : pools'[k] = pools[k],
           pools'[p].remaining >= 0, pools'[p].refunded >= 0,
           pools'[p].reserved = pools[p].reserved - reservations[run].amount
    PROVE  PoolBooks'
  <1>1. reservations[run].amount \in Nat BY InFlightFields
  <1>2. \A k \in Pools : ReservedPart(reservations'[run], k) - ReservedPart(reservations[run], k)
                           = IF k = p THEN -reservations[run].amount ELSE 0
    BY <1>1 DEF ReservedPart
  <1>3. ASSUME NEW k \in Pools
        PROVE  /\ pools'[k].remaining >= 0 /\ pools'[k].refunded >= 0
               /\ pools'[k].reserved = pools[k].reserved
                     + (IF k = p THEN -reservations[run].amount ELSE 0)
    <2>1. pools[k].reserved \in Int BY FieldsOfPool DEF IInv, PoolFields
    <2>2. CASE k = p BY <1>1, <2>1, <2>2
    <2>3. CASE k # p BY <2>1, <2>3 DEF AInv, PoolBooks
    <2> QED BY <2>2, <2>3
  <1> QED BY <1>2, <1>3, PoolsFollowReservation

\* Settling a run: the lines come out of what the pool holds for it.
LEMMA SettlePoolAudit ==
    ASSUME IInv, IInv', AInv, NEW run \in Runs, SettlePool(run)
    PROVE  AInv'
  <1> DEFINE p == reservations[run].pool
             payer == reservations[run].payer
             slice == reservations[run].amount
  <1>1. /\ reservations[run] \in SoundReservation /\ reservations[run].status = "reserved"
        /\ pools[p].status = "open"
    BY DEF IInv, SettlePool
  <1>2. /\ p \in Pools /\ pools[p] \in SoundPool /\ PoolFields(pools[p])
        /\ pools[p].remaining \in Nat /\ pools[p].refunded >= 0 /\ slice \in Nat
        /\ payer = pools[p].payer /\ payer \in Users /\ wallets[payer] \in SoundWallet
        /\ reservations[run].lines = NoLines
    BY <1>1, InFlightFields
  <1>3. PICK actual \in 0..slice, lines \in Shares(payer, slice) :
          /\ actual = SumFunction(lines)
          /\ wallets' = [u \in Users |->
                 IF u = payer
                 THEN [wallets[u] EXCEPT !.held = @ - actual, !.spent = @ + actual]
                 ELSE Earn(wallets[u], lines[u])]
          /\ pools' = [pools EXCEPT ![p].remaining = @ + slice - actual,
                                    ![p].reserved = @ - slice,
                                    ![p].spent = @ + actual]
          /\ reservations' = [reservations EXCEPT ![run].status = "settled",
                                                  ![run].lines = lines]
    BY DEF SettlePool
  <1>4. actual \in Nat /\ actual <= slice /\ -actual \in Int BY <1>2
  <1>5. lines \in Share /\ lines[payer] = 0
    BY <1>2, SharesAreShares DEF Shares
  <1>6. UNCHANGED <<holds, debits, payouts, budget, locks, external>>
    BY DEF SettlePool
  <1>7. /\ \A r \in Runs \ {run} : reservations'[r] = reservations[r]
        /\ reservations'[run].status = "settled" /\ reservations'[run].lines = lines
    BY <1>1, <1>3 DEF IInv, SoundReservation, ReservationType
  <1>8. /\ \A k \in Pools \ {p} : pools'[k] = pools[k]
        /\ pools'[p].status = "open" /\ pools'[p].payer = payer
        /\ pools'[p].remaining = pools[p].remaining + slice - actual
        /\ pools'[p].reserved = pools[p].reserved - slice
        /\ pools'[p].refunded = pools[p].refunded
    <2> DEFINE d == [pools[p] EXCEPT !.remaining = @ + slice - actual, !.reserved = @ - slice,
                                     !.spent = @ + actual]
    <2>1. pools' = [pools EXCEPT ![p] = d] BY <1>3 DEF IInv
    <2>2. /\ d.status = "open" /\ d.payer = payer
          /\ d.remaining = pools[p].remaining + slice - actual
          /\ d.reserved = pools[p].reserved - slice /\ d.refunded = pools[p].refunded
      BY <1>1, <1>2 DEF SoundPool, PoolType
    <2> HIDE DEF d
    <2> QED BY <1>2, <2>1, <2>2 DEF IInv
  <1> DEFINE w == [wallets[payer] EXCEPT !.held = @ - actual, !.spent = @ + actual]
  <1>9. Differs(w, wallets[payer], -actual, 0, 0, SumFunction(lines), -SumFunction(lines))
    <2>1. Differs(w, wallets[payer], -actual, 0, 0, actual, -actual)
      BY <1>2, <1>4, ChargeDiffers
    <2> HIDE DEF w
    <2> QED BY <1>3, <2>1
  <1>10. wallets' = [u \in Users |-> IF u = payer THEN w ELSE Earn(wallets[u], lines[u])]
    BY <1>3
  <1> HIDE DEF w
  <1>11. /\ \A u \in Users :
              /\ wallets'[u].held = wallets[u].held + (IF u = payer THEN -actual ELSE 0)
              /\ wallets'[u].payoutHeld = wallets[u].payoutHeld
              /\ wallets'[u].earned = wallets[u].earned + lines[u]
         /\ MoneyBooks'
    BY <1>2, <1>4, <1>5, <1>6, <1>9, <1>10, LinesArePaid
  <1>12. HeldBooks'
    <2>1. \A u \in Users : PoolPart(pools'[p], u) - PoolPart(pools[p], u)
                             = IF u = payer THEN -actual ELSE 0
      BY <1>1, <1>2, <1>4, <1>8 DEF PoolPart, PoolFields
    <2> QED BY <1>2, <1>6, <1>8, <1>11, <2>1, HeldFollowsPool
  <1>13. PoolBooks'
    <2>1. pools'[p].remaining >= 0 /\ pools'[p].refunded >= 0
      BY <1>2, <1>4, <1>8
    <2> QED BY <1>1, <1>2, <1>7, <1>8, <2>1, ReservationEnds
  <1>14. EarnedBooks'
    <2>1. \A u \in Users : debits[run].credits[u] \in Int
      BY DEF IInv, DebitType, Share
    <2>2. \A u \in Users : (reservations'[run].lines[u] + debits'[run].credits[u])
                           - (reservations[run].lines[u] + debits[run].credits[u]) = lines[u]
      BY <1>2, <1>5, <1>6, <1>7, <2>1 DEF NoLines, Share
    <2> QED BY <1>6, <1>7, <1>11, <2>2, EarnedFollowsRun
  <1>15. DocumentsInv'
    <2>1. \A r \in Runs : reservations[r].status = "reserved" => reservations[r].pool \in Pools
      BY DEF IInv, SoundReservation
    <2> QED BY <1>1, <1>2, <1>6, <1>7, <1>8, <2>1 DEF AInv, DocumentsInv
  <1>16. PayoutBooks' /\ BudgetBooks'
    BY <1>6, <1>11, BooksKept
  <1> QED BY <1>11, <1>12, <1>13, <1>14, <1>15, <1>16 DEF AInv

\* Releasing a reservation moves its amount back within the pool.
LEMMA ReleasePoolAudit ==
    ASSUME IInv, IInv', AInv, NEW run \in Runs, NEW caller \in Users, ReleasePool(run, caller)
    PROVE  AInv'
  <1> DEFINE p == reservations[run].pool
             slice == reservations[run].amount
  <1>1. reservations[run] \in SoundReservation /\ reservations[run].status = "reserved"
    BY DEF IInv, ReleasePool
  <1>2. /\ p \in Pools /\ pools[p] \in SoundPool /\ PoolFields(pools[p])
        /\ pools[p].remaining \in Nat /\ pools[p].refunded >= 0 /\ slice \in Nat
        /\ pools[p].status # "none" /\ reservations[run].lines = NoLines
    BY <1>1, InFlightFields
  <1>3. /\ \A k \in Pools \ {p} : pools'[k] = pools[k]
        /\ pools'[p].status = pools[p].status /\ pools'[p].payer = pools[p].payer
        /\ pools'[p].remaining = pools[p].remaining + slice
        /\ pools'[p].reserved = pools[p].reserved - slice
        /\ pools'[p].refunded = pools[p].refunded
    BY <1>2 DEF ReleasePool, IInv, SoundPool, PoolType
  <1>4. /\ \A r \in Runs \ {run} : reservations'[r] = reservations[r]
        /\ reservations'[run].status = "released"
        /\ reservations'[run].lines = reservations[run].lines
    BY <1>1 DEF ReleasePool, IInv, SoundReservation, ReservationType
  <1>5. UNCHANGED <<wallets, holds, debits, payouts, budget, locks, external>>
    BY DEF ReleasePool
  <1>6. HeldBooks'
    <2>1. \A u \in Users : PoolPart(pools'[p], u) - PoolPart(pools[p], u) = 0
      BY <1>2, <1>3 DEF PoolPart, PoolFields
    <2>2. \A u \in Users : wallets[u].held \in Int
      BY FieldsOfWallet DEF IInv, WalletFields
    <2>3. \A u \in Users : wallets'[u].held =
             wallets[u].held + (PoolPart(pools'[p], u) - PoolPart(pools[p], u))
      BY <1>5, <2>1, <2>2
    <2> QED BY <1>2, <1>3, <1>5, <2>3, HeldFollowsPool
  <1>7. PoolBooks'
    <2>1. pools'[p].remaining >= 0 /\ pools'[p].refunded >= 0 BY <1>2, <1>3
    <2> QED BY <1>1, <1>2, <1>3, <1>4, <2>1, ReservationEnds
  <1>8. EarnedBooks'
    BY <1>4, <1>5, EarnedKept
  <1>9. DocumentsInv'
    <2>1. \A r \in Runs : reservations[r].status = "reserved" => reservations[r].pool \in Pools
      BY DEF IInv, SoundReservation
    <2> QED BY <1>2, <1>3, <1>4, <1>5, <2>1 DEF AInv, DocumentsInv
  <1>10. PayoutBooks' /\ BudgetBooks'
    BY <1>5, BooksKept
  <1>11. MoneyBooks'
    BY <1>5 DEF AInv, MoneyBooks, TotalWorth, TotalSpent, TotalEarned, Outer, TotalLocked
  <1> QED BY <1>6, <1>7, <1>8, <1>9, <1>10, <1>11 DEF AInv

\* Debiting a pool: the lines come out of what remains in it.
LEMMA DebitPoolAudit ==
    ASSUME IInv, IInv', AInv, NEW p \in Pools, NEW run \in Runs, NEW key \in Keys,
           DebitPool(p, run, key)
    PROVE  AInv'
  <1> DEFINE payer == pools[p].payer
             rest == pools[p].remaining
  <1>1. pools[p] \in SoundPool /\ pools[p].status = "open" BY DEF IInv, DebitPool
  <1>2. /\ PoolFields(pools[p]) /\ payer \in Users /\ rest \in Nat
        /\ pools[p].refunded >= 0 /\ wallets[payer] \in SoundWallet
    BY <1>1, OpenPoolFields
  <1>3. PICK delta \in 1..rest, lines \in Shares(payer, rest) :
          /\ delta = SumFunction(lines)
          /\ wallets' = [u \in Users |->
                 IF u = payer
                 THEN [wallets[u] EXCEPT !.held = @ - delta, !.spent = @ + delta]
                 ELSE Earn(wallets[u], lines[u])]
          /\ pools' = [pools EXCEPT ![p].remaining = @ - delta, ![p].spent = @ + delta]
          /\ debits' = [debits EXCEPT ![run] =
                 [payer |-> IF debits[run].payer = None THEN payer
                                                        ELSE debits[run].payer,
                  credits |-> [u \in Users |-> debits[run].credits[u] + lines[u]]]]
    BY DEF DebitPool
  <1>4. delta \in Nat /\ delta <= rest /\ -delta \in Int BY <1>2
  <1>5. lines \in Share /\ lines[payer] = 0
    BY <1>2, SharesAreShares DEF Shares
  <1>6. UNCHANGED <<holds, reservations, payouts, budget, locks, external>>
    BY DEF DebitPool
  <1>7. /\ \A k \in Pools \ {p} : pools'[k] = pools[k]
        /\ pools'[p].status = "open" /\ pools'[p].payer = payer
        /\ pools'[p].remaining = rest - delta
        /\ pools'[p].reserved = pools[p].reserved
        /\ pools'[p].refunded = pools[p].refunded
    BY <1>1, <1>3 DEF IInv, SoundPool, PoolType
  <1>8. /\ \A r \in Runs \ {run} : debits'[r] = debits[r]
        /\ \A u \in Users : debits'[run].credits[u] = debits[run].credits[u] + lines[u]
    BY <1>3 DEF IInv
  <1> DEFINE w == [wallets[payer] EXCEPT !.held = @ - delta, !.spent = @ + delta]
  <1>9. Differs(w, wallets[payer], -delta, 0, 0, SumFunction(lines), -SumFunction(lines))
    <2>1. Differs(w, wallets[payer], -delta, 0, 0, delta, -delta)
      BY <1>2, <1>4, ChargeDiffers
    <2> HIDE DEF w
    <2> QED BY <1>3, <2>1
  <1>10. wallets' = [u \in Users |-> IF u = payer THEN w ELSE Earn(wallets[u], lines[u])]
    BY <1>3
  <1> HIDE DEF w
  <1>11. /\ \A u \in Users :
              /\ wallets'[u].held = wallets[u].held + (IF u = payer THEN -delta ELSE 0)
              /\ wallets'[u].payoutHeld = wallets[u].payoutHeld
              /\ wallets'[u].earned = wallets[u].earned + lines[u]
         /\ MoneyBooks'
    BY <1>2, <1>4, <1>5, <1>6, <1>9, <1>10, LinesArePaid
  <1>12. HeldBooks'
    <2>1. \A u \in Users : PoolPart(pools'[p], u) - PoolPart(pools[p], u)
                             = IF u = payer THEN -delta ELSE 0
      BY <1>1, <1>2, <1>4, <1>7 DEF PoolPart, PoolFields
    <2> QED BY <1>6, <1>7, <1>11, <2>1, HeldFollowsPool
  <1>13. PoolBooks'
    <2>1. \A k \in Pools : /\ pools'[k].remaining >= 0 /\ pools'[k].refunded >= 0
                           /\ pools'[k].reserved = pools[k].reserved
      BY <1>2, <1>4, <1>7 DEF AInv, PoolBooks
    <2> QED BY <1>6, <2>1, ReservedKept
  <1>14. EarnedBooks'
    <2>1. \A u \in Users : debits[run].credits[u] \in Int
      BY DEF IInv, DebitType, Share
    <2>2. \A u \in Users : reservations[run].lines[u] \in Int
      BY DEF IInv, SoundReservation, ReservationType, Share
    <2>3. \A u \in Users : (reservations'[run].lines[u] + debits'[run].credits[u])
                           - (reservations[run].lines[u] + debits[run].credits[u]) = lines[u]
      BY <1>5, <1>6, <1>8, <2>1, <2>2 DEF Share
    <2> QED BY <1>6, <1>8, <1>11, <2>3, EarnedFollowsRun
  <1>15. \A k \in Pools : /\ pools'[k].payer = pools[k].payer
                          /\ pools'[k].status = "none" => pools'[k] = pools[k]
    BY <1>7
  <1>16. DocumentsInv' /\ PayoutBooks' /\ BudgetBooks'
    BY <1>6, <1>11, <1>15, BooksKept
  <1> QED BY <1>11, <1>12, <1>13, <1>14, <1>16 DEF AInv

\* What a payment to or from outside leaves alone.
LEMMA OutsideAudit ==
    ASSUME IInv, IInv', AInv, NEW user \in Users, NEW w, NEW n \in Int,
           wallets' = [wallets EXCEPT ![user] = w],
           Differs(w, wallets[user], 0, 0, 0, 0, n),
           Outer' = Outer + n,
           UNCHANGED <<holds, pools, reservations, debits, payouts, budget>>
    PROVE  AInv'
  <1>1. 0 \in Int OBVIOUS
  <1>2. /\ \A u \in Users :
             /\ wallets'[u].held = wallets[u].held + (IF u = user THEN 0 ELSE 0)
             /\ wallets'[u].payoutHeld = wallets[u].payoutHeld + (IF u = user THEN 0 ELSE 0)
             /\ wallets'[u].earned = wallets[u].earned
        /\ MoneyBooks'
    BY <1>1, OneWalletChanges
  <1>3. \A u \in Users : wallets[u].held \in Int /\ wallets[u].payoutHeld \in Int
    BY FieldsOfWallet DEF IInv, WalletFields
  <1>4. \A u \in Users : /\ wallets'[u].held = wallets[u].held
                         /\ wallets'[u].payoutHeld = wallets[u].payoutHeld
    BY <1>2, <1>3
  <1>5. /\ DocumentsInv' /\ PoolBooks' /\ HeldBooks' /\ PayoutBooks'
        /\ EarnedBooks' /\ BudgetBooks'
    BY <1>2, <1>4, BooksKept
  <1> QED BY <1>2, <1>5 DEF AInv

\* A payment.
LEMMA MintAudit ==
    ASSUME IInv, IInv', AInv, NEW user \in Users, NEW key \in Keys, NEW amount \in Amounts,
           Mint(user, key, amount)
    PROVE  AInv'
  <1>1. amount \in Nat /\ amount \in Int BY Inputs
  <1>2. Differs(TopUp(wallets[user], amount), wallets[user], 0, 0, 0, 0, amount)
    BY <1>1, TopUpDiffers DEF IInv
  <1>3. Outer' = Outer + amount
    <2>1. external'.payments - external'.payouts
            = external.payments - external.payouts + amount
      BY <1>1 DEF Mint, IInv
    <2>2. UNCHANGED locks BY DEF Mint
    <2> QED BY <1>1, <2>1, <2>2, OuterMoves
  <1>4. /\ wallets' = [wallets EXCEPT ![user] = TopUp(wallets[user], amount)]
        /\ UNCHANGED <<holds, pools, reservations, debits, payouts, budget>>
    BY DEF Mint
  <1> QED BY <1>1, <1>2, <1>3, <1>4, OutsideAudit

\* A reversal or a correction.
LEMMA PaymentAdjustmentAudit ==
    ASSUME IInv, IInv', AInv, NEW user \in Users, NEW key \in Keys, NEW amount \in Amounts,
           PaymentAdjustment(user, key, amount)
    PROVE  AInv'
  <1>1. amount \in Nat /\ amount \in Int /\ -amount \in Int BY Inputs
  <1>2. /\ Differs(TopUp(wallets[user], amount), wallets[user], 0, 0, 0, 0, amount)
        /\ Differs(Reverse(wallets[user], amount), wallets[user], 0, 0, 0, 0, -amount)
    BY <1>1, TopUpDiffers, ReverseDiffers DEF IInv
  <1>3. UNCHANGED <<holds, pools, reservations, debits, payouts, locks, budget>>
    BY DEF PaymentAdjustment
  <1>4. CASE /\ wallets' = [wallets EXCEPT ![user] = Reverse(@, amount)]
             /\ external' = [external EXCEPT !.payments = @ - amount]
    <2>1. Outer' = Outer + (-amount)
      <3>1. external'.payments - external'.payouts
              = external.payments - external.payouts + (-amount)
        BY <1>1, <1>4 DEF IInv
      <3> QED BY <1>1, <1>3, <3>1, OuterMoves
    <2>2. wallets' = [wallets EXCEPT ![user] = Reverse(wallets[user], amount)] BY <1>4
    <2> QED BY <1>1, <1>2, <1>3, <2>1, <2>2, OutsideAudit
  <1>5. CASE /\ wallets' = [wallets EXCEPT ![user] = TopUp(@, amount)]
             /\ external' = [external EXCEPT !.payments = @ + amount]
    <2>1. Outer' = Outer + amount
      <3>1. external'.payments - external'.payouts
              = external.payments - external.payouts + amount
        BY <1>1, <1>5 DEF IInv
      <3> QED BY <1>1, <1>3, <3>1, OuterMoves
    <2>2. wallets' = [wallets EXCEPT ![user] = TopUp(wallets[user], amount)] BY <1>5
    <2> QED BY <1>1, <1>2, <1>3, <2>1, <2>2, OutsideAudit
  <1> QED BY <1>4, <1>5 DEF PaymentAdjustment

\* A transfer: what one wallet loses the other gains, as balance or as less debt.
LEMMA TransferAudit ==
    ASSUME IInv, IInv', AInv, NEW from \in Users, NEW to \in Users, NEW amount \in Amounts,
           Transfer(from, to, amount)
    PROVE  AInv'
  <1> DEFINE f == wallets[from]
             t == wallets[to]
             sent == DebitPortion(f, amount)
             repaid == Lesser(t.debt, amount)
             received == sent - (repaid - (amount - sent))
             paid == [f EXCEPT !.balance = @ - amount, !.withdrawable = @ - sent]
             got == [t EXCEPT !.balance = @ + amount - repaid,
                              !.withdrawable = @ + received, !.debt = @ - repaid]
  <1>1. amount \in Nat BY Inputs
  <1>2. f \in SoundWallet /\ t \in SoundWallet /\ WalletFields(f) /\ WalletFields(t)
    BY FieldsOfWallet DEF IInv
  <1>3. from # to /\ wallets' = [wallets EXCEPT ![from] = paid, ![to] = got]
    BY DEF Transfer, IInv
  <1>4. repaid \in Int BY <1>1, <1>2 DEF Lesser, WalletFields
  <1>5. UNCHANGED <<holds, pools, reservations, debits, payouts, budget, locks, external>>
    BY DEF Transfer
  <1> HIDE DEF sent, repaid, received, f, t
  <1>6. /\ paid.held = f.held /\ paid.payoutHeld = f.payoutHeld /\ paid.earned = f.earned
        /\ paid.spent = f.spent /\ paid.debt = f.debt /\ paid.balance = f.balance - amount
    BY <1>2 DEF SoundWallet, Wallet
  <1>7. /\ got.held = t.held /\ got.payoutHeld = t.payoutHeld /\ got.earned = t.earned
        /\ got.spent = t.spent /\ got.debt = t.debt - repaid
        /\ got.balance = t.balance + amount - repaid
    BY <1>2 DEF SoundWallet, Wallet
  <1> HIDE DEF paid, got
  <1>8. Worth(paid) = Worth(f) - amount
    BY <1>1, <1>2, <1>6 DEF Worth, WalletFields
  <1>9. Worth(got) = Worth(t) + amount
    BY <1>1, <1>2, <1>4, <1>7 DEF Worth, WalletFields
  <1>10. wallets \in [Users -> SoundWallet] /\ wallets' \in [Users -> SoundWallet]
    BY DEF IInv
  <1>11. /\ wallets'[from] = paid /\ wallets'[to] = got
         /\ \A u \in Users \ {from, to} : wallets'[u] = wallets[u]
    BY <1>3, <1>10
  <1>12. \A u \in Users : /\ wallets'[u].held = wallets[u].held
                          /\ wallets'[u].payoutHeld = wallets[u].payoutHeld
                          /\ wallets'[u].earned = wallets[u].earned
                          /\ wallets'[u].spent = wallets[u].spent
    BY <1>6, <1>7, <1>11 DEF f, t
  <1>13. MoneyBooks'
    <2> DEFINE lines == [u \in Users |-> IF u = to THEN amount ELSE 0]
               zero == [u \in Users |-> 0]
               was == [u \in Users |-> Worth(wallets[u])]
               becomes == [u \in Users |-> Worth(wallets'[u])]
    <2>1. \A v \in SoundWallet : Worth(v) \in Int
      BY FieldsOfWallet DEF WalletFields, Worth
    <2>2. /\ lines \in [Users -> Int] /\ zero \in [Users -> Int]
          /\ \A u \in Users \ {to} : lines[u] = zero[u]
          /\ lines[to] = amount /\ zero[to] = 0 /\ lines[from] = 0
          /\ \A u \in Users : zero[u] = 0
      BY <1>1, <1>3
    <2>3. was \in [Users -> Int] /\ becomes \in [Users -> Int]
      BY <1>10, <2>1
    <2>4. /\ was[from] = Worth(f) /\ was[to] = Worth(t)
          /\ becomes[from] = Worth(f) - amount /\ becomes[to] = Worth(t) + amount
          /\ \A u \in Users \ {from, to} : becomes[u] = was[u]
      BY <1>8, <1>9, <1>11 DEF f, t
    <2>5. \A u \in Users \ {from, to} : lines[u] = 0 OBVIOUS
    <2> HIDE DEF lines, zero, was, becomes
    <2>6. \A u \in Users \ {from} : becomes[u] = was[u] + lines[u]
      BY <2>2, <2>3, <2>4, <2>5
    <2>7. SumFunction(zero) = 0
      BY <2>2, TotalZero, PartiesAssumption
    <2>8. SumFunction(lines) = amount
      <3>1. SumFunction(lines) = SumFunction(zero) + (lines[to] - zero[to])
        BY <2>2, TotalChange, PartiesAssumption
      <3> QED BY <1>1, <2>2, <2>7, <3>1
    <2>9. SumFunction(becomes) = SumFunction(was) + SumFunction(lines)
                                + (becomes[from] - was[from])
      BY <2>2, <2>3, <2>6, TotalShares, PartiesAssumption
    <2>10. SumFunction(was) \in Int BY <2>3, TotalType, PartiesAssumption
    <2>11. Worth(f) \in Int BY <1>2, <2>1
    <2>12. SumFunction(becomes) = SumFunction(was)
      BY <1>1, <2>4, <2>8, <2>9, <2>10, <2>11
    <2>13. TotalWorth' = TotalWorth BY <2>12 DEF TotalWorth, was, becomes
    <2>14. TotalSpent' = TotalSpent /\ TotalEarned' = TotalEarned
      BY <1>12 DEF TotalSpent, TotalEarned
    <2>15. Outer' = Outer BY <1>5, OuterStays
    <2> QED BY <2>13, <2>14, <2>15 DEF AInv, MoneyBooks
  <1>14. /\ DocumentsInv' /\ PoolBooks' /\ HeldBooks' /\ PayoutBooks'
         /\ EarnedBooks' /\ BudgetBooks'
    BY <1>5, <1>12, BooksKept
  <1> QED BY <1>13, <1>14 DEF AInv

\* Requesting a payout.
LEMMA RequestPayoutAudit ==
    ASSUME IInv, IInv', AInv, NEW q \in Payouts, NEW user \in Users, NEW amount \in Amounts,
           RequestPayout(q, user, amount)
    PROVE  AInv'
  <1> DEFINE w == [wallets[user] EXCEPT !.balance = @ - amount, !.withdrawable = @ - amount,
                                        !.payoutHeld = @ + amount]
  <1>1. amount \in Nat /\ amount \in Int /\ 0 \in Int BY Inputs
  <1>2. wallets[user] \in SoundWallet /\ WalletFields(wallets[user])
    BY FieldsOfWallet DEF IInv
  <1>3. wallets' = [wallets EXCEPT ![user] = w] BY DEF RequestPayout, IInv
  <1>4. /\ w.balance = wallets[user].balance - amount /\ w.held = wallets[user].held
        /\ w.payoutHeld = wallets[user].payoutHeld + amount
        /\ w.earned = wallets[user].earned /\ w.spent = wallets[user].spent
        /\ w.debt = wallets[user].debt
    BY <1>2 DEF SoundWallet, Wallet
  <1> HIDE DEF w
  <1>5. Differs(w, wallets[user], 0, amount, 0, 0, 0)
    BY <1>1, <1>2, <1>4 DEF Differs, Worth, WalletFields
  <1>6. /\ UNCHANGED <<holds, pools, reservations, debits, budget, locks, external>>
        /\ payouts[q].status = "none"
    BY DEF RequestPayout
  <1>7. /\ \A k \in Payouts \ {q} : payouts'[k] = payouts[k]
        /\ payouts'[q].status = "pending" /\ payouts'[q].user = user
        /\ payouts'[q].amount = amount
    BY DEF RequestPayout, IInv
  <1>8. Outer' = Outer + 0
    BY <1>6, OuterStays
  <1>9. /\ \A u \in Users :
             /\ wallets'[u].held = wallets[u].held + (IF u = user THEN 0 ELSE 0)
             /\ wallets'[u].payoutHeld = wallets[u].payoutHeld + (IF u = user THEN amount ELSE 0)
             /\ wallets'[u].earned = wallets[u].earned
        /\ MoneyBooks'
    BY <1>1, <1>3, <1>5, <1>8, OneWalletChanges
  <1>10. \A u \in Users : wallets'[u].held = wallets[u].held
    <2>1. \A u \in Users : wallets[u].held \in Int
      BY FieldsOfWallet DEF IInv, WalletFields
    <2> QED BY <1>9, <2>1
  <1>11. PayoutBooks'
    <2>1. \A u \in Users : PayoutPart(payouts'[q], u) - PayoutPart(payouts[q], u)
                             = IF u = user THEN amount ELSE 0
      BY <1>1, <1>6, <1>7 DEF PayoutPart
    <2> QED BY <1>7, <1>9, <2>1, PayoutsFollow
  <1>12. DocumentsInv' /\ PoolBooks' /\ HeldBooks' /\ EarnedBooks' /\ BudgetBooks'
    BY <1>6, <1>9, <1>10, BooksKept
  <1> QED BY <1>9, <1>11, <1>12 DEF AInv

\* Resolving a payout: what was held for it goes out or comes back.
LEMMA ResolvePayoutAudit ==
    ASSUME IInv, IInv', AInv, NEW q \in Payouts, NEW status \in {"paid", "rejected"},
           ResolvePayout(q, status)
    PROVE  AInv'
  <1> DEFINE user == payouts[q].user
             amount == payouts[q].amount
             w == wallets[user]
             paid == [w EXCEPT !.payoutHeld = @ - amount]
             back == [w EXCEPT !.payoutHeld = @ - amount, !.balance = @ + amount,
                               !.withdrawable = @ + amount]
  <1>1. payouts[q] \in SoundPayout /\ payouts[q].status = "pending"
    BY DEF IInv, ResolvePayout
  <1>2. user \in Users /\ amount \in Nat BY <1>1 DEF SoundPayout, PayoutType
  <1>3. amount \in Int /\ -amount \in Int /\ 0 \in Int BY <1>2
  <1>4. w \in SoundWallet /\ WalletFields(w) BY <1>2, FieldsOfWallet DEF IInv
  <1>5. /\ \A k \in Payouts \ {q} : payouts'[k] = payouts[k]
        /\ payouts'[q].status = status
    BY <1>1 DEF ResolvePayout, IInv, SoundPayout, PayoutType
  <1>6. UNCHANGED <<holds, pools, reservations, debits, locks, budget>>
    BY DEF ResolvePayout
  <1>7. /\ \A u \in Users :
             /\ wallets'[u].held = wallets[u].held + (IF u = user THEN 0 ELSE 0)
             /\ wallets'[u].payoutHeld = wallets[u].payoutHeld + (IF u = user THEN -amount ELSE 0)
             /\ wallets'[u].earned = wallets[u].earned
        /\ MoneyBooks'
    <2>1. CASE wallets' = [wallets EXCEPT ![user] = back] /\ UNCHANGED external
      <3>1. Differs(back, w, 0, -amount, 0, 0, 0)
        <4>1. /\ back.balance = w.balance + amount /\ back.held = w.held
              /\ back.payoutHeld = w.payoutHeld - amount /\ back.earned = w.earned
              /\ back.spent = w.spent /\ back.debt = w.debt
          BY <1>4 DEF SoundWallet, Wallet
        <4> HIDE DEF back, w
        <4> QED BY <1>2, <1>4, <4>1 DEF Differs, Worth, WalletFields
      <3>2. Outer' = Outer + 0
        BY <1>6, <2>1, OuterStays
      <3> HIDE DEF back
      <3> QED BY <1>2, <1>3, <2>1, <3>1, <3>2, OneWalletChanges DEF w
    <2>2. CASE /\ wallets' = [wallets EXCEPT ![user] = paid]
               /\ external' = [external EXCEPT !.payouts = @ + amount]
      <3>1. Differs(paid, w, 0, -amount, 0, 0, -amount)
        <4>1. /\ paid.balance = w.balance /\ paid.held = w.held
              /\ paid.payoutHeld = w.payoutHeld - amount /\ paid.earned = w.earned
              /\ paid.spent = w.spent /\ paid.debt = w.debt
          BY <1>4 DEF SoundWallet, Wallet
        <4> HIDE DEF paid, w
        <4> QED BY <1>2, <1>4, <4>1 DEF Differs, Worth, WalletFields
      <3>2. Outer' = Outer + (-amount)
        <4>1. external'.payments - external'.payouts
                = external.payments - external.payouts + (-amount)
          BY <1>2, <2>2 DEF IInv
        <4> QED BY <1>3, <1>6, <4>1, OuterMoves
      <3> HIDE DEF paid
      <3> QED BY <1>2, <1>3, <2>2, <3>1, <3>2, OneWalletChanges DEF w
    <2>3. \/ wallets' = [wallets EXCEPT ![user] = back] /\ UNCHANGED external
          \/ /\ wallets' = [wallets EXCEPT ![user] = paid]
             /\ external' = [external EXCEPT !.payouts = @ + amount]
      BY <1>2 DEF ResolvePayout, IInv
    <2> QED BY <2>1, <2>2, <2>3
  <1>8. \A u \in Users : wallets'[u].held = wallets[u].held
    <2>1. \A u \in Users : wallets[u].held \in Int
      BY FieldsOfWallet DEF IInv, WalletFields
    <2> QED BY <1>7, <2>1
  <1>9. PayoutBooks'
    <2>1. \A u \in Users : PayoutPart(payouts'[q], u) - PayoutPart(payouts[q], u)
                             = IF u = user THEN -amount ELSE 0
      BY <1>1, <1>2, <1>5 DEF PayoutPart
    <2> QED BY <1>5, <1>7, <2>1, PayoutsFollow
  <1>10. DocumentsInv' /\ PoolBooks' /\ HeldBooks' /\ EarnedBooks' /\ BudgetBooks'
    BY <1>6, <1>7, <1>8, BooksKept
  <1> QED BY <1>7, <1>9, <1>10 DEF AInv

\* One wallet changes by what a lock takes or gives.
LEMMA LockAudit ==
    ASSUME IInv, IInv', AInv, NEW l \in Locks, \A k \in Locks \ {l} : locks'[k] = locks[k],
           NEW user \in Users, NEW w, NEW n \in Int,
           wallets' = [wallets EXCEPT ![user] = w],
           Differs(w, wallets[user], 0, 0, 0, 0, n),
           LockPart(locks'[l]) = LockPart(locks[l]) - n,
           UNCHANGED <<holds, pools, reservations, debits, payouts, budget, external>>
    PROVE  AInv'
  <1>1. TotalLocked' = TotalLocked + (LockPart(locks'[l]) - LockPart(locks[l]))
    BY LockChange DEF IInv, TotalLocked
  <1>2. LockPart(locks[l]) \in Int
    BY DEF IInv, SoundLock, LockType, LockPart
  <1>3. TotalLocked \in Int BY TotalsAreIntegers
  <1>4. external.payments \in Int /\ external.payouts \in Int BY DEF IInv
  <1>5. Outer' = Outer + n
    BY <1>1, <1>2, <1>3, <1>4 DEF Outer
  <1> QED BY <1>5, OutsideAudit

\* Locking a token.
LEMMA LockTokenAudit ==
    ASSUME IInv, IInv', AInv, NEW l \in Locks, NEW payer \in Users, NEW payee \in Users,
           NEW amount \in Amounts, NEW unlocks \in Expiries,
           LockToken(l, payer, payee, amount, unlocks)
    PROVE  AInv'
  <1> DEFINE w == wallets[payer]
             paid == [w EXCEPT !.balance = @ - amount, !.locked = @ + amount]
  <1>1. amount \in Nat /\ -amount \in Int BY Inputs
  <1>2. w \in SoundWallet /\ WalletFields(w) BY FieldsOfWallet DEF IInv
  <1>3. wallets' = [wallets EXCEPT ![payer] = paid] BY DEF LockToken, IInv
  <1>4. Differs(paid, w, 0, 0, 0, 0, -amount)
    <2>1. /\ paid.balance = w.balance - amount /\ paid.held = w.held
          /\ paid.payoutHeld = w.payoutHeld /\ paid.earned = w.earned
          /\ paid.spent = w.spent /\ paid.debt = w.debt
      BY <1>2 DEF SoundWallet, Wallet
    <2> HIDE DEF paid, w
    <2> QED BY <1>1, <1>2, <2>1 DEF Differs, Worth, WalletFields
  <1>5. /\ \A k \in Locks \ {l} : locks'[k] = locks[k]
        /\ locks[l].status = "none"
        /\ locks'[l].status = "locked" /\ locks'[l].amount = amount
    BY DEF LockToken, IInv
  <1>6. LockPart(locks'[l]) = LockPart(locks[l]) - (-amount)
    BY <1>1, <1>5 DEF LockPart
  <1>7. UNCHANGED <<holds, pools, reservations, debits, payouts, budget, external>>
    BY DEF LockToken
  <1> HIDE DEF paid
  <1> QED BY <1>1, <1>3, <1>4, <1>5, <1>6, <1>7, LockAudit DEF w

\* Consuming a lock.
LEMMA ConsumeLockAudit ==
    ASSUME IInv, IInv', AInv, NEW l \in Locks, ConsumeLock(l)
    PROVE  AInv'
  <1> DEFINE payee == locks[l].payee
             amount == locks[l].amount
             w == wallets[payee]
             got == [w EXCEPT !.balance = @ + amount]
  <1>1. locks[l] \in SoundLock /\ locks[l].status = "locked" BY DEF IInv, ConsumeLock
  <1>2. payee \in Users /\ amount \in Nat /\ amount \in Int
    BY <1>1 DEF SoundLock, LockType
  <1>3. w \in SoundWallet /\ WalletFields(w) BY <1>2, FieldsOfWallet DEF IInv
  <1>4. wallets' = [wallets EXCEPT ![payee] = got] BY <1>2 DEF ConsumeLock, IInv
  <1>5. Differs(got, w, 0, 0, 0, 0, amount)
    <2>1. /\ got.balance = w.balance + amount /\ got.held = w.held
          /\ got.payoutHeld = w.payoutHeld /\ got.earned = w.earned
          /\ got.spent = w.spent /\ got.debt = w.debt
      BY <1>3 DEF SoundWallet, Wallet
    <2> HIDE DEF got, w, amount
    <2> QED BY <1>2, <1>3, <2>1 DEF Differs, Worth, WalletFields
  <1>6. /\ \A k \in Locks \ {l} : locks'[k] = locks[k]
        /\ locks'[l].status = "consumed"
    BY <1>1 DEF ConsumeLock, IInv, SoundLock, LockType
  <1>7. LockPart(locks'[l]) = LockPart(locks[l]) - amount
    BY <1>1, <1>2, <1>6 DEF LockPart
  <1>8. UNCHANGED <<holds, pools, reservations, debits, payouts, budget, external>>
    BY DEF ConsumeLock
  <1> HIDE DEF got
  <1> QED BY <1>2, <1>4, <1>5, <1>6, <1>7, <1>8, LockAudit DEF w

\* A step that leaves the documents and the wallets alone.
LEMMA IdleAudit ==
    ASSUME AInv, UNCHANGED <<wallets, holds, pools, reservations, debits, payouts, locks,
                             budget, external>>
    PROVE  AInv'
  BY DEF AInv, DocumentsInv, PoolBooks, HeldBooks, PayoutBooks, EarnedBooks, MoneyBooks,
         BudgetBooks, HoldsHeld, PoolsHeld, Reserved, PayoutsHeld, HoldsEarned, RunsEarned,
         BudgetReserved, BudgetSpent, TotalWorth, TotalSpent, TotalEarned, Outer, TotalLocked

\* Every action keeps the books.
LEMMA MoneyAudit ==
    ASSUME IInv, IInv', AInv, MoneyStep
    PROVE  AInv'
  <1>1. CASE HoldStep
    BY <1>1, CreateHoldAudit, StartHoldAudit, SettleHoldAudit, ReleaseHoldAudit DEF HoldStep
  <1>2. CASE PoolStep
    BY <1>2, OpenPoolAudit, RefreshPoolAudit, ClosePoolAudit, ReservePoolAudit,
       DebitPoolAudit, SettlePoolAudit, ReleasePoolAudit DEF PoolStep
  <1>3. CASE WalletStep
    BY <1>3, MintAudit, PaymentAdjustmentAudit, TransferAudit, RequestPayoutAudit,
       ResolvePayoutAudit DEF WalletStep
  <1>4. CASE LockStep BY <1>4, LockTokenAudit, ConsumeLockAudit DEF LockStep
  <1> QED BY <1>1, <1>2, <1>3, <1>4 DEF MoneyStep

\* Every step of the node keeps the books.
LEMMA NextAudit ==
    ASSUME IInv, IInv', AInv, [Next]_vars
    PROVE  AInv'
  <1>1. CASE MoneyStep BY <1>1, MoneyAudit
  <1>2. CASE Tick BY <1>2, IdleAudit DEF Tick
  <1>3. CASE ConfigureProject BY <1>3, IdleAudit DEF ConfigureProject
  <1>4. CASE Repeat \/ UNCHANGED vars BY <1>4, IdleAudit DEF Repeat, vars
  <1> QED BY <1>1, <1>2, <1>3, <1>4 DEF Next

-----------------------------------------------------------------------------
(* What only grows *)

\* A pool that was opened stays opened and keeps its payer, a budget that was
\* given stays given, and what was paid out stays paid out.
Grows ==
    /\ \A p \in Pools : pools[p].status # "none" =>
          pools'[p].status # "none" /\ pools'[p].payer = pools[p].payer
    /\ project.budgets \subseteq project'.budgets
    /\ external'.payouts >= external.payouts

\* Steps that leave the pools, the project and the outside alone.
LEMMA IdleGrows ==
    ASSUME IInv, UNCHANGED <<pools, project, external>>
    PROVE  Grows
  BY DEF IInv, Grows

\* A pool changes, and nothing else of these.
LEMMA PoolGrows ==
    ASSUME IInv, UNCHANGED <<project, external>>, NEW p \in Pools,
           \A k \in Pools \ {p} : pools'[k] = pools[k],
           pools[p].status # "none" =>
               pools'[p].status # "none" /\ pools'[p].payer = pools[p].payer
    PROVE  Grows
  BY DEF IInv, Grows

\* What the actions on pools leave alone.
LEMMA PoolStepLeaves ==
    ASSUME PoolStep
    PROVE  UNCHANGED <<holds, budget, project>>
  <1>1. ASSUME NEW p, NEW payer, NEW amount, NEW expires, OpenPool(p, payer, amount, expires)
        PROVE  UNCHANGED <<holds, budget, project>>
    BY <1>1 DEF OpenPool
  <1>2. ASSUME NEW p, NEW key, NEW amount, NEW expires, RefreshPool(p, key, amount, expires)
        PROVE  UNCHANGED <<holds, budget, project>>
    BY <1>2 DEF RefreshPool
  <1>3. ASSUME NEW p, NEW caller, ClosePool(p, caller)
        PROVE  UNCHANGED <<holds, budget, project>>
    BY <1>3 DEF ClosePool
  <1>4. ASSUME NEW p, NEW run, NEW amount, ReservePool(p, run, amount)
        PROVE  UNCHANGED <<holds, budget, project>>
    BY <1>4 DEF ReservePool
  <1>5. ASSUME NEW p, NEW run, NEW key, DebitPool(p, run, key)
        PROVE  UNCHANGED <<holds, budget, project>>
    BY <1>5 DEF DebitPool
  <1>6. ASSUME NEW run, SettlePool(run)
        PROVE  UNCHANGED <<holds, budget, project>>
    BY <1>6 DEF SettlePool
  <1>7. ASSUME NEW run, NEW caller, ReleasePool(run, caller)
        PROVE  UNCHANGED <<holds, budget, project>>
    BY <1>7 DEF ReleasePool
  <1> QED BY <1>1, <1>2, <1>3, <1>4, <1>5, <1>6, <1>7 DEF PoolStep

\* What the actions on wallets leave alone.
LEMMA WalletStepLeaves ==
    ASSUME WalletStep
    PROVE  UNCHANGED <<holds, budget, project, pools>>
  <1>1. ASSUME NEW user, NEW key, NEW amount, Mint(user, key, amount)
        PROVE  UNCHANGED <<holds, budget, project, pools>>
    BY <1>1 DEF Mint
  <1>2. ASSUME NEW user, NEW key, NEW amount, PaymentAdjustment(user, key, amount)
        PROVE  UNCHANGED <<holds, budget, project, pools>>
    BY <1>2 DEF PaymentAdjustment
  <1>3. ASSUME NEW from, NEW to, NEW amount, Transfer(from, to, amount)
        PROVE  UNCHANGED <<holds, budget, project, pools>>
    BY <1>3 DEF Transfer
  <1>4. ASSUME NEW q, NEW user, NEW amount, RequestPayout(q, user, amount)
        PROVE  UNCHANGED <<holds, budget, project, pools>>
    BY <1>4 DEF RequestPayout
  <1>5. ASSUME NEW q, NEW status, ResolvePayout(q, status)
        PROVE  UNCHANGED <<holds, budget, project, pools>>
    BY <1>5 DEF ResolvePayout
  <1> QED BY <1>1, <1>2, <1>3, <1>4, <1>5 DEF WalletStep

\* Every step only adds to these.
LEMMA NextGrows ==
    ASSUME IInv, [Next]_vars
    PROVE  Grows
  <1>1. CASE HoldStep
    <2>1. UNCHANGED <<pools, project, external>>
      BY <1>1 DEF HoldStep, CreateHold, StartHold, SettleHold, ReleaseHold
    <2> QED BY <2>1, IdleGrows
  <1>2. CASE PoolStep
    <2>1. ASSUME NEW p \in Pools, NEW amount \in Amounts, NEW expires \in Expiries,
                 \/ \E payer \in Payers : OpenPool(p, payer, amount, expires)
                 \/ \E key \in Keys : RefreshPool(p, key, amount, expires)
          PROVE  Grows
      <3>1. ASSUME NEW payer \in Payers, OpenPool(p, payer, amount, expires) PROVE Grows
        <4>1. /\ UNCHANGED <<project, external>> /\ pools[p].status = "none"
              /\ \A k \in Pools \ {p} : pools'[k] = pools[k]
          BY <3>1 DEF OpenPool, IInv
        <4> QED BY <4>1, PoolGrows
      <3>2. ASSUME NEW key \in Keys, RefreshPool(p, key, amount, expires) PROVE Grows
        <4>1. UNCHANGED <<project, external>> /\ pools[p] \in SoundPool
          BY <3>2 DEF RefreshPool, IInv
        <4> DEFINE d == [pools[p] EXCEPT
                     !.max = @ + amount, !.remaining = @ + amount,
                     !.withdrawable = @ + DebitPortion(wallets[pools[p].payer], amount),
                     !.expires = IF expires > clock THEN expires ELSE @]
        <4>2. pools' = [pools EXCEPT ![p] = d] BY <3>2 DEF RefreshPool, IInv
        <4>3. d.status = pools[p].status /\ d.payer = pools[p].payer
          BY <4>1 DEF SoundPool, PoolType
        <4> HIDE DEF d
        <4>4. pools'[p] = d /\ \A k \in Pools \ {p} : pools'[k] = pools[k]
          BY <4>2 DEF IInv
        <4> QED BY <4>1, <4>3, <4>4, PoolGrows
      <3> QED BY <2>1, <3>1, <3>2
    <2>2. ASSUME NEW p \in Pools, NEW caller \in Users, ClosePool(p, caller) PROVE Grows
      <3>1. /\ UNCHANGED <<project, external>>
            /\ \A k \in Pools \ {p} : pools'[k] = pools[k]
            /\ pools'[p].status = "closed" /\ pools'[p].payer = pools[p].payer
        BY <2>2 DEF ClosePool, IInv, SoundPool, PoolType
      <3> QED BY <3>1, PoolGrows
    <2>3. ASSUME NEW p \in Pools, NEW run \in Runs, NEW amount \in Amounts,
                 ReservePool(p, run, amount)
          PROVE  Grows
      <3>1. /\ UNCHANGED <<project, external>>
            /\ \A k \in Pools \ {p} : pools'[k] = pools[k]
            /\ pools'[p].status = pools[p].status /\ pools'[p].payer = pools[p].payer
        BY <2>3 DEF ReservePool, IInv, SoundPool, PoolType
      <3> QED BY <3>1, PoolGrows
    <2>4. ASSUME NEW p \in Pools, NEW run \in Runs, NEW key \in Keys, DebitPool(p, run, key)
          PROVE  Grows
      <3>1. PICK delta \in 1..pools[p].remaining :
              pools' = [pools EXCEPT ![p].remaining = @ - delta, ![p].spent = @ + delta]
        BY <2>4 DEF DebitPool
      <3>2. /\ \A k \in Pools \ {p} : pools'[k] = pools[k]
            /\ pools'[p].status = pools[p].status /\ pools'[p].payer = pools[p].payer
        BY <3>1 DEF IInv, SoundPool, PoolType
      <3>3. UNCHANGED <<project, external>> BY <2>4 DEF DebitPool
      <3> QED BY <3>2, <3>3, PoolGrows
    <2>5. ASSUME NEW run \in Runs, SettlePool(run) PROVE Grows
      <3> DEFINE p == reservations[run].pool
                 slice == reservations[run].amount
      <3>1. PICK actual \in 0..slice :
              pools' = [pools EXCEPT ![p].remaining = @ + slice - actual,
                                     ![p].reserved = @ - slice,
                                     ![p].spent = @ + actual]
        BY <2>5 DEF SettlePool
      <3>2. p \in Pools BY <2>5 DEF SettlePool, IInv, SoundReservation
      <3> DEFINE d == [pools[p] EXCEPT !.remaining = @ + slice - actual,
                                       !.reserved = @ - slice, !.spent = @ + actual]
      <3>3. pools' = [pools EXCEPT ![p] = d] BY <3>1, <3>2 DEF IInv
      <3>4. d.status = pools[p].status /\ d.payer = pools[p].payer
        BY <3>2 DEF IInv, SoundPool, PoolType
      <3> HIDE DEF d
      <3>5. pools'[p] = d /\ \A k \in Pools \ {p} : pools'[k] = pools[k]
        BY <3>2, <3>3 DEF IInv
      <3>6. UNCHANGED <<project, external>> BY <2>5 DEF SettlePool
      <3> QED BY <3>2, <3>4, <3>5, <3>6, PoolGrows
    <2>6. ASSUME NEW run \in Runs, NEW caller \in Users, ReleasePool(run, caller) PROVE Grows
      <3> DEFINE p == reservations[run].pool
      <3>1. p \in Pools BY <2>6 DEF ReleasePool, IInv, SoundReservation
      <3>2. /\ UNCHANGED <<project, external>>
            /\ \A k \in Pools \ {p} : pools'[k] = pools[k]
            /\ pools'[p].status = pools[p].status /\ pools'[p].payer = pools[p].payer
        BY <2>6, <3>1 DEF ReleasePool, IInv, SoundPool, PoolType
      <3> QED BY <3>1, <3>2, PoolGrows
    <2> QED BY <1>2, <2>1, <2>2, <2>3, <2>4, <2>5, <2>6 DEF PoolStep
  <1>3. CASE WalletStep
    <2>1. UNCHANGED <<pools, project>> BY <1>3, WalletStepLeaves
    <2>2. external \in [payments : Int, payouts : Nat] BY DEF IInv
    <2>3. ASSUME NEW user \in Users, NEW key \in Keys, NEW amount \in Amounts,
                 Mint(user, key, amount) \/ PaymentAdjustment(user, key, amount)
          PROVE  external'.payouts >= external.payouts
      BY <2>2, <2>3 DEF Mint, PaymentAdjustment
    <2>4. ASSUME NEW from \in Users, NEW to \in Users, NEW amount \in Amounts,
                 Transfer(from, to, amount)
          PROVE  external'.payouts >= external.payouts
      BY <2>2, <2>4 DEF Transfer
    <2>5. ASSUME NEW q \in Payouts, NEW user \in Users, NEW amount \in Amounts,
                 RequestPayout(q, user, amount)
          PROVE  external'.payouts >= external.payouts
      BY <2>2, <2>5 DEF RequestPayout
    <2>6. ASSUME NEW q \in Payouts, NEW status \in {"paid", "rejected"},
                 ResolvePayout(q, status)
          PROVE  external'.payouts >= external.payouts
      <3>1. payouts[q].amount \in Nat BY DEF IInv, SoundPayout, PayoutType
      <3> QED BY <2>2, <2>6, <3>1 DEF ResolvePayout
    <2> QED BY <1>3, <2>1, <2>3, <2>4, <2>5, <2>6 DEF WalletStep, Grows
  <1>4. CASE LockStep
    BY <1>4, IdleGrows DEF LockStep, LockToken, ConsumeLock
  <1>5. CASE ConfigureProject
    <2>1. project.budgets \subseteq project'.budgets BY <1>5 DEF ConfigureProject
    <2> QED BY <1>5, <2>1 DEF ConfigureProject, Grows, IInv
  <1>6. CASE Tick BY <1>6, IdleGrows DEF Tick
  <1>7. CASE Repeat \/ UNCHANGED vars BY <1>7, IdleGrows DEF Repeat, vars
  <1> QED BY <1>1, <1>2, <1>3, <1>4, <1>5, <1>6, <1>7 DEF Next, MoneyStep

\* An action leaves the project's metadata alone, and the ledger never knows of
\* less spending beyond the lines of the project's holds.
LEMMA MoneyGrows ==
    ASSUME IInv, IInv', AInv, MoneyStep
    PROVE  project' = project /\ SpentGrows
  <1>1. CASE HoldStep
    <2>1. SpentGrows
      BY <1>1, CreateHoldAudit, StartHoldAudit, SettleHoldAudit, ReleaseHoldAudit DEF HoldStep
    <2>2. project' = project
      BY <1>1 DEF HoldStep, CreateHold, StartHold, SettleHold, ReleaseHold
    <2> QED BY <2>1, <2>2
  <1>2. CASE UNCHANGED <<holds, budget, project>>
    <2>1. BudgetSpent' = BudgetSpent BY <1>2 DEF BudgetSpent
    <2>2. BudgetSpent \in Int /\ budget.spent \in Int
      BY TotalsAreIntegers DEF IInv, SoundBudget
    <2> QED BY <1>2, <2>1, <2>2 DEF SpentGrows
  <1>3. CASE PoolStep BY <1>2, <1>3, PoolStepLeaves
  <1>4. CASE WalletStep BY <1>2, <1>4, WalletStepLeaves
  <1>5. CASE LockStep
    <2>1. UNCHANGED <<holds, budget, project>>
      BY <1>5 DEF LockStep, LockToken, ConsumeLock
    <2> QED BY <1>2, <2>1
  <1> QED BY <1>1, <1>3, <1>4, <1>5 DEF MoneyStep

-----------------------------------------------------------------------------
(* Rows as an action read them, decided them and leaves them *)

\* The rows of a record are sound.
SoundRows(R) ==
    /\ R.wallets \in [Users -> SoundWallet]
    /\ R.holds \in [Holds -> SoundHold]
    /\ R.pools \in [Pools -> SoundPool]
    /\ R.reservations \in [Runs -> SoundReservation]
    /\ R.debits \in [Runs -> DebitType]
    /\ R.payouts \in [Payouts -> SoundPayout]
    /\ R.locks \in [Locks -> SoundLock]
    /\ R.project \in SoundProject
    /\ R.budget \in SoundBudget(R.project.budgets)
    /\ R.applied \subseteq {"mint", "adjust", "refresh", "debit"} \X Keys
    /\ R.external \in [payments : Int, payouts : Nat]

\* The totals of a record.
HoldsHeldOf(R, u) == SumFunction([h \in Holds |-> HoldPart(R.holds[h], u)])
PoolsHeldOf(R, u) == SumFunction([p \in Pools |-> PoolPart(R.pools[p], u)])
ReservedOf(R, p) == SumFunction([r \in Runs |-> ReservedPart(R.reservations[r], p)])
PayoutsHeldOf(R, u) == SumFunction([q \in Payouts |-> PayoutPart(R.payouts[q], u)])
HoldsEarnedOf(R, u) == SumFunction([h \in Holds |-> R.holds[h].lines[u]])
RunsEarnedOf(R, u) ==
    SumFunction([r \in Runs |-> R.reservations[r].lines[u] + R.debits[r].credits[u]])
BudgetReservedOf(R) == SumFunction([h \in ProjectHolds |-> BudgetPart(R.holds[h])])
BudgetSpentOf(R) == SumFunction([h \in ProjectHolds |-> SumFunction(R.holds[h].lines)])
WorthOf(R) == SumFunction([u \in Users |-> Worth(R.wallets[u])])
SpentOf(R) == SumFunction([u \in Users |-> R.wallets[u].spent])
EarnedOf(R) == SumFunction([u \in Users |-> R.wallets[u].earned])
LockedOf(R) == SumFunction([l \in Locks |-> LockPart(R.locks[l])])

\* Its books.
DocumentsOf(R) ==
    /\ \A h \in Holds : R.holds[h].status # "settled" => R.holds[h].lines = NoLines
    /\ \A r \in Runs : R.reservations[r].status # "settled" =>
                         R.reservations[r].lines = NoLines
    /\ \A r \in Runs : R.reservations[r].status = "reserved" =>
          /\ R.reservations[r].payer = R.pools[R.reservations[r].pool].payer
          /\ R.pools[R.reservations[r].pool].status # "none"
    /\ \A p \in Pools : R.pools[p].status = "none" => R.pools[p].reserved = 0

PoolBooksOf(R) ==
    \A p \in Pools : /\ R.pools[p].remaining >= 0 /\ R.pools[p].refunded >= 0
                     /\ R.pools[p].reserved = ReservedOf(R, p)

WalletBooksOf(R) ==
    \A u \in Users : /\ R.wallets[u].held = HoldsHeldOf(R, u) + PoolsHeldOf(R, u)
                     /\ R.wallets[u].payoutHeld = PayoutsHeldOf(R, u)
                     /\ R.wallets[u].earned = HoldsEarnedOf(R, u) + RunsEarnedOf(R, u)

MoneyBooksOf(R) ==
    /\ WorthOf(R) = Cardinality(Users) * OpeningBalance
                    + (R.external.payments - R.external.payouts - LockedOf(R))
    /\ SpentOf(R) = EarnedOf(R)

BudgetBooksOf(R) ==
    R.budget.reserved = BudgetReservedOf(R) /\ R.budget.spent >= BudgetSpentOf(R)

BooksOf(R) == /\ DocumentsOf(R) /\ PoolBooksOf(R) /\ WalletBooksOf(R)
              /\ MoneyBooksOf(R) /\ BudgetBooksOf(R)

\* The rows of the storage are such a record.
LEMMA RowsFields ==
    /\ Rows.wallets = wallets /\ Rows.holds = holds /\ Rows.pools = pools
    /\ Rows.reservations = reservations /\ Rows.debits = debits /\ Rows.payouts = payouts
    /\ Rows.locks = locks /\ Rows.project = project /\ Rows.budget = budget
    /\ Rows.applied = applied /\ Rows.external = external
  BY DEF Rows

\* They are sound and in order when the invariants hold.
LEMMA RowsAreSound ==
    ASSUME IInv, AInv
    PROVE  SoundRows(Rows) /\ BooksOf(Rows)
  <1>1. SoundRows(Rows) BY RowsFields DEF IInv, SoundRows
  <1>2. DocumentsOf(Rows) BY RowsFields DEF AInv, DocumentsInv, DocumentsOf
  <1>3. PoolBooksOf(Rows) BY RowsFields DEF AInv, PoolBooks, PoolBooksOf, Reserved, ReservedOf
  <1>4. WalletBooksOf(Rows)
    BY RowsFields DEF AInv, HeldBooks, PayoutBooks, EarnedBooks, WalletBooksOf,
       HoldsHeld, HoldsHeldOf, PoolsHeld, PoolsHeldOf, PayoutsHeld, PayoutsHeldOf,
       HoldsEarned, HoldsEarnedOf, RunsEarned, RunsEarnedOf
  <1>5. MoneyBooksOf(Rows)
    BY RowsFields DEF AInv, MoneyBooks, MoneyBooksOf, Outer, TotalWorth, WorthOf,
       TotalSpent, SpentOf, TotalEarned, EarnedOf, TotalLocked, LockedOf
  <1>6. BudgetBooksOf(Rows)
    BY RowsFields DEF AInv, BudgetBooks, BudgetBooksOf, BudgetReserved, BudgetReservedOf,
       BudgetSpent, BudgetSpentOf
  <1> QED BY <1>1, <1>2, <1>3, <1>4, <1>5, <1>6 DEF BooksOf

\* The invariants hold once the rows are those of a record that is.
LEMMA RowsAreSet ==
    ASSUME NEW R, SoundRows(R), BooksOf(R), SetRows(R), IInv, UNCHANGED clock
    PROVE  IInv' /\ AInv'
  <1>1. /\ wallets' = R.wallets /\ holds' = R.holds /\ pools' = R.pools
        /\ reservations' = R.reservations /\ debits' = R.debits /\ payouts' = R.payouts
        /\ locks' = R.locks /\ project' = R.project /\ budget' = R.budget
        /\ applied' = R.applied /\ external' = R.external
    BY DEF SetRows
  <1>2. IInv' BY <1>1 DEF IInv, SoundRows
  <1>3. DocumentsInv' BY <1>1 DEF BooksOf, DocumentsInv, DocumentsOf
  <1>4. PoolBooks' BY <1>1 DEF BooksOf, PoolBooks, PoolBooksOf, Reserved, ReservedOf
  <1>5. HeldBooks' /\ PayoutBooks' /\ EarnedBooks'
    BY <1>1 DEF BooksOf, HeldBooks, PayoutBooks, EarnedBooks, WalletBooksOf,
       HoldsHeld, HoldsHeldOf, PoolsHeld, PoolsHeldOf, PayoutsHeld, PayoutsHeldOf,
       HoldsEarned, HoldsEarnedOf, RunsEarned, RunsEarnedOf
  <1>6. MoneyBooks'
    BY <1>1 DEF BooksOf, MoneyBooks, MoneyBooksOf, Outer, TotalWorth, WorthOf,
       TotalSpent, SpentOf, TotalEarned, EarnedOf, TotalLocked, LockedOf
  <1>7. BudgetBooks'
    BY <1>1 DEF BooksOf, BudgetBooks, BudgetBooksOf, BudgetReserved, BudgetReservedOf,
       BudgetSpent, BudgetSpentOf
  <1> QED BY <1>2, <1>3, <1>4, <1>5, <1>6, <1>7 DEF AInv

-----------------------------------------------------------------------------
(* Rows of two actions, merged *)

\* The values m are those of a where a differs from b, and those of c elsewhere;
\* c and a do not both differ from b.
Joined(S, b, a, c, m) ==
    \A k \in S : \/ m[k] = a[k] /\ c[k] = b[k]
                 \/ m[k] = c[k] /\ a[k] = b[k]

\* An overlay is such values.
LEMMA OverlayJoins ==
    ASSUME NEW S, NEW T, NEW b \in [S -> T], NEW a \in [S -> T], NEW c \in [S -> T],
           ~Clash(b, a, c)
    PROVE  Overlay(b, a, c) \in [S -> T] /\ Joined(S, b, a, c, Overlay(b, a, c))
  BY DEF Overlay, Clash, Joined

\* A wallet is its fields, and all wallets have the same.
LEMMA WalletIsFields ==
    ASSUME NEW w \in Wallet, NEW v \in Wallet
    PROVE  [k \in DOMAIN w |-> w[k]] = w /\ DOMAIN w = DOMAIN v
  BY DEF Wallet

\* A wallet is overlaid field by field; when only one action changed it, it is
\* the wallet of that one.
LEMMA WalletOverlay ==
    ASSUME NEW b \in Wallet, NEW a \in Wallet, NEW c \in Wallet, a = b \/ c = b
    PROVE  \/ Overlay(b, a, c) = a /\ c = b
           \/ Overlay(b, a, c) = c /\ a = b
  <1>1. CASE a = b
    <2>1. Overlay(b, a, c) = [k \in DOMAIN c |-> c[k]] BY <1>1 DEF Overlay
    <2> QED BY <1>1, <2>1, WalletIsFields
  <1>2. CASE c = b
    <2>1. Overlay(b, a, c) = [k \in DOMAIN c |-> a[k]] BY <1>2 DEF Overlay
    <2> QED BY <1>2, <2>1, WalletIsFields
  <1> QED BY <1>1, <1>2

\* The total of joined values.
LEMMA JoinedTotal ==
    ASSUME NEW S, IsFiniteSet(S), NEW b \in [S -> Int], NEW a \in [S -> Int],
           NEW c \in [S -> Int], NEW m \in [S -> Int], Joined(S, b, a, c, m)
    PROVE  /\ SumFunction(m) = SumFunction(c) + (SumFunction(a) - SumFunction(b))
           /\ SumFunction(c) \in Int /\ SumFunction(a) \in Int /\ SumFunction(b) \in Int
  <1> DEFINE f == [x \in S |-> m[x] + b[x]]
             g == [x \in S |-> c[x] + a[x]]
  <1>1. f \in [S -> Int] /\ g \in [S -> Int]
    OBVIOUS
  <1>2. f = g
    <2>1. \A x \in S : m[x] + b[x] = c[x] + a[x] BY DEF Joined
    <2> QED BY <2>1
  <1>3. SumFunction(f) = SumFunction(m) + SumFunction(b)
    <2>1. \A x \in S : f[x] = m[x] + b[x] OBVIOUS
    <2> HIDE DEF f
    <2> QED BY <1>1, <2>1, TotalPlus
  <1>4. SumFunction(g) = SumFunction(c) + SumFunction(a)
    <2>1. \A x \in S : g[x] = c[x] + a[x] OBVIOUS
    <2> HIDE DEF g
    <2> QED BY <1>1, <2>1, TotalPlus
  <1>5. /\ SumFunction(m) \in Int /\ SumFunction(b) \in Int
        /\ SumFunction(c) \in Int /\ SumFunction(a) \in Int
    BY TotalType
  <1> HIDE DEF f, g
  <1> QED BY <1>2, <1>3, <1>4, <1>5

\* The number m follows from the other three in the same way.
Combined(b, a, c, m) == m = c + (a - b) /\ b \in Int /\ a \in Int /\ c \in Int

\* The rows m are those of c with what the action moved from b to a.
JoinedRows(b, a, c, m) ==
    /\ Joined(Users, b.wallets, a.wallets, c.wallets, m.wallets)
    /\ Joined(Holds, b.holds, a.holds, c.holds, m.holds)
    /\ Joined(Pools, b.pools, a.pools, c.pools, m.pools)
    /\ Joined(Runs, b.reservations, a.reservations, c.reservations, m.reservations)
    /\ Joined(Runs, b.debits, a.debits, c.debits, m.debits)
    /\ Joined(Payouts, b.payouts, a.payouts, c.payouts, m.payouts)
    /\ Joined(Locks, b.locks, a.locks, c.locks, m.locks)
    /\ \/ m.budget = a.budget /\ c.budget = b.budget
       \/ m.budget = c.budget /\ a.budget = b.budget
    /\ Combined(b.external.payments, a.external.payments, c.external.payments,
             m.external.payments)
    /\ Combined(b.external.payouts, a.external.payouts, c.external.payouts, m.external.payouts)

\* The totals over the holds are joined.
LEMMA HoldTotals ==
    ASSUME NEW b, NEW a, NEW c, NEW m, SoundRows(b), SoundRows(a), SoundRows(c), SoundRows(m),
           JoinedRows(b, a, c, m)
    PROVE  /\ \A u \in Users :
                /\ Combined(HoldsHeldOf(b, u), HoldsHeldOf(a, u), HoldsHeldOf(c, u),
                         HoldsHeldOf(m, u))
                /\ Combined(HoldsEarnedOf(b, u), HoldsEarnedOf(a, u), HoldsEarnedOf(c, u),
                         HoldsEarnedOf(m, u))
           /\ Combined(BudgetReservedOf(b), BudgetReservedOf(a), BudgetReservedOf(c),
                    BudgetReservedOf(m))
           /\ Combined(BudgetSpentOf(b), BudgetSpentOf(a), BudgetSpentOf(c), BudgetSpentOf(m))
  <1>1. /\ b.holds \in [Holds -> SoundHold] /\ a.holds \in [Holds -> SoundHold]
        /\ c.holds \in [Holds -> SoundHold] /\ m.holds \in [Holds -> SoundHold]
        /\ Joined(Holds, b.holds, a.holds, c.holds, m.holds)
    BY DEF SoundRows, JoinedRows
  <1>2. \A x \in SoundHold : /\ x.max \in Int /\ x.lines \in [Users -> Int]
                             /\ \A u \in Users : HoldPart(x, u) \in Int /\ x.lines[u] \in Int
                             /\ BudgetPart(x) \in Int
    BY DEF SoundHold, HoldType, Share, HoldPart, BudgetPart
  <1>3. \A x \in SoundHold : SumFunction(x.lines) \in Int
    BY <1>2, TotalType, PartiesAssumption
  <1>4. ASSUME NEW u \in Users
        PROVE  Combined(HoldsHeldOf(b, u), HoldsHeldOf(a, u), HoldsHeldOf(c, u), HoldsHeldOf(m, u))
    <2> DEFINE F(R) == [h \in Holds |-> HoldPart(R.holds[h], u)]
    <2>1. /\ F(b) \in [Holds -> Int] /\ F(a) \in [Holds -> Int]
          /\ F(c) \in [Holds -> Int] /\ F(m) \in [Holds -> Int]
      BY <1>1, <1>2
    <2>2. Joined(Holds, F(b), F(a), F(c), F(m)) BY <1>1 DEF Joined
    <2> HIDE DEF F
    <2>3. Combined(SumFunction(F(b)), SumFunction(F(a)), SumFunction(F(c)), SumFunction(F(m)))
      BY <2>1, <2>2, JoinedTotal, DocumentsAssumption DEF Combined
    <2> QED BY <2>3 DEF F, HoldsHeldOf
  <1>5. ASSUME NEW u \in Users
        PROVE  Combined(HoldsEarnedOf(b, u), HoldsEarnedOf(a, u), HoldsEarnedOf(c, u),
                     HoldsEarnedOf(m, u))
    <2> DEFINE F(R) == [h \in Holds |-> R.holds[h].lines[u]]
    <2>1. /\ F(b) \in [Holds -> Int] /\ F(a) \in [Holds -> Int]
          /\ F(c) \in [Holds -> Int] /\ F(m) \in [Holds -> Int]
      BY <1>1, <1>2
    <2>2. Joined(Holds, F(b), F(a), F(c), F(m)) BY <1>1 DEF Joined
    <2> HIDE DEF F
    <2>3. Combined(SumFunction(F(b)), SumFunction(F(a)), SumFunction(F(c)), SumFunction(F(m)))
      BY <2>1, <2>2, JoinedTotal, DocumentsAssumption DEF Combined
    <2> QED BY <2>3 DEF F, HoldsEarnedOf
  <1>6. IsFiniteSet(ProjectHolds) /\ ProjectHolds \subseteq Holds
    BY PartiesAssumption, DocumentsAssumption, FS_Subset
  <1>7. Combined(BudgetReservedOf(b), BudgetReservedOf(a), BudgetReservedOf(c), BudgetReservedOf(m))
    <2> DEFINE F(R) == [h \in ProjectHolds |-> BudgetPart(R.holds[h])]
    <2>1. /\ F(b) \in [ProjectHolds -> Int] /\ F(a) \in [ProjectHolds -> Int]
          /\ F(c) \in [ProjectHolds -> Int] /\ F(m) \in [ProjectHolds -> Int]
      BY <1>1, <1>2, <1>6
    <2>2. Joined(ProjectHolds, F(b), F(a), F(c), F(m)) BY <1>1, <1>6 DEF Joined
    <2> HIDE DEF F
    <2>3. Combined(SumFunction(F(b)), SumFunction(F(a)), SumFunction(F(c)), SumFunction(F(m)))
      BY <1>6, <2>1, <2>2, JoinedTotal DEF Combined
    <2> QED BY <2>3 DEF F, BudgetReservedOf
  <1>8. Combined(BudgetSpentOf(b), BudgetSpentOf(a), BudgetSpentOf(c), BudgetSpentOf(m))
    <2> DEFINE F(R) == [h \in ProjectHolds |-> SumFunction(R.holds[h].lines)]
    <2>1. /\ F(b) \in [ProjectHolds -> Int] /\ F(a) \in [ProjectHolds -> Int]
          /\ F(c) \in [ProjectHolds -> Int] /\ F(m) \in [ProjectHolds -> Int]
      BY <1>1, <1>3, <1>6
    <2>2. Joined(ProjectHolds, F(b), F(a), F(c), F(m)) BY <1>1, <1>6 DEF Joined
    <2> HIDE DEF F
    <2>3. Combined(SumFunction(F(b)), SumFunction(F(a)), SumFunction(F(c)), SumFunction(F(m)))
      BY <1>6, <2>1, <2>2, JoinedTotal DEF Combined
    <2> QED BY <2>3 DEF F, BudgetSpentOf
  <1> QED BY <1>4, <1>5, <1>7, <1>8

\* So are those over the other documents.
LEMMA DocumentTotals ==
    ASSUME NEW b, NEW a, NEW c, NEW m, SoundRows(b), SoundRows(a), SoundRows(c), SoundRows(m),
           JoinedRows(b, a, c, m)
    PROVE  /\ \A u \in Users :
                /\ Combined(PoolsHeldOf(b, u), PoolsHeldOf(a, u), PoolsHeldOf(c, u),
                         PoolsHeldOf(m, u))
                /\ Combined(PayoutsHeldOf(b, u), PayoutsHeldOf(a, u), PayoutsHeldOf(c, u),
                         PayoutsHeldOf(m, u))
                /\ Combined(RunsEarnedOf(b, u), RunsEarnedOf(a, u), RunsEarnedOf(c, u),
                         RunsEarnedOf(m, u))
           /\ \A p \in Pools :
                Combined(ReservedOf(b, p), ReservedOf(a, p), ReservedOf(c, p), ReservedOf(m, p))
           /\ Combined(LockedOf(b), LockedOf(a), LockedOf(c), LockedOf(m))
  <1>1. ASSUME NEW u \in Users
        PROVE  Combined(PoolsHeldOf(b, u), PoolsHeldOf(a, u), PoolsHeldOf(c, u), PoolsHeldOf(m, u))
    <2> DEFINE F(R) == [p \in Pools |-> PoolPart(R.pools[p], u)]
    <2>1. \A x \in SoundPool : PoolPart(x, u) \in Int
      BY DEF SoundPool, PoolType, PoolPart
    <2>2. /\ F(b) \in [Pools -> Int] /\ F(a) \in [Pools -> Int]
          /\ F(c) \in [Pools -> Int] /\ F(m) \in [Pools -> Int]
      BY <2>1 DEF SoundRows
    <2>3. Joined(Pools, F(b), F(a), F(c), F(m)) BY DEF JoinedRows, Joined
    <2> HIDE DEF F
    <2>4. Combined(SumFunction(F(b)), SumFunction(F(a)), SumFunction(F(c)), SumFunction(F(m)))
      BY <2>2, <2>3, JoinedTotal, DocumentsAssumption DEF Combined
    <2> QED BY <2>4 DEF F, PoolsHeldOf
  <1>2. ASSUME NEW u \in Users
        PROVE  Combined(PayoutsHeldOf(b, u), PayoutsHeldOf(a, u), PayoutsHeldOf(c, u),
                     PayoutsHeldOf(m, u))
    <2> DEFINE F(R) == [q \in Payouts |-> PayoutPart(R.payouts[q], u)]
    <2>1. \A x \in SoundPayout : PayoutPart(x, u) \in Int
      BY DEF SoundPayout, PayoutType, PayoutPart
    <2>2. /\ F(b) \in [Payouts -> Int] /\ F(a) \in [Payouts -> Int]
          /\ F(c) \in [Payouts -> Int] /\ F(m) \in [Payouts -> Int]
      BY <2>1 DEF SoundRows
    <2>3. Joined(Payouts, F(b), F(a), F(c), F(m)) BY DEF JoinedRows, Joined
    <2> HIDE DEF F
    <2>4. Combined(SumFunction(F(b)), SumFunction(F(a)), SumFunction(F(c)), SumFunction(F(m)))
      BY <2>2, <2>3, JoinedTotal, DocumentsAssumption DEF Combined
    <2> QED BY <2>4 DEF F, PayoutsHeldOf
  <1>3. ASSUME NEW u \in Users
        PROVE  Combined(RunsEarnedOf(b, u), RunsEarnedOf(a, u), RunsEarnedOf(c, u),
                     RunsEarnedOf(m, u))
    <2> DEFINE L(R) == [r \in Runs |-> R.reservations[r].lines[u]]
               D(R) == [r \in Runs |-> R.debits[r].credits[u]]
               F(R) == [r \in Runs |-> R.reservations[r].lines[u] + R.debits[r].credits[u]]
    <2>1. /\ \A x \in SoundReservation : x.lines[u] \in Int
          /\ \A x \in DebitType : x.credits[u] \in Int
      BY DEF SoundReservation, ReservationType, DebitType, Share
    <2>2. /\ L(b) \in [Runs -> Int] /\ L(a) \in [Runs -> Int]
          /\ L(c) \in [Runs -> Int] /\ L(m) \in [Runs -> Int]
      BY <2>1 DEF SoundRows
    <2>3. /\ D(b) \in [Runs -> Int] /\ D(a) \in [Runs -> Int]
          /\ D(c) \in [Runs -> Int] /\ D(m) \in [Runs -> Int]
      BY <2>1 DEF SoundRows
    <2>4. Joined(Runs, L(b), L(a), L(c), L(m)) BY DEF JoinedRows, Joined
    <2>5. Joined(Runs, D(b), D(a), D(c), D(m)) BY DEF JoinedRows, Joined
    <2>6. ASSUME NEW R, L(R) \in [Runs -> Int], D(R) \in [Runs -> Int]
          PROVE  SumFunction(F(R)) = SumFunction(L(R)) + SumFunction(D(R))
      <3>1. \A r \in Runs : F(R)[r] = L(R)[r] + D(R)[r] OBVIOUS
      <3>2. F(R) \in [Runs -> Int]
        <4>1. \A r \in Runs : L(R)[r] \in Int /\ D(R)[r] \in Int BY <2>6
        <4>2. \A r \in Runs : R.reservations[r].lines[u] + R.debits[r].credits[u] \in Int
          BY <4>1
        <4> QED BY <4>2
      <3> HIDE DEF F, L, D
      <3> QED BY <2>6, <3>1, <3>2, TotalPlus, DocumentsAssumption
    <2>7. \A R : RunsEarnedOf(R, u) = SumFunction(F(R)) BY DEF RunsEarnedOf
    <2> HIDE DEF F, L, D
    <2>8. Combined(SumFunction(L(b)), SumFunction(L(a)), SumFunction(L(c)), SumFunction(L(m)))
      BY <2>2, <2>4, JoinedTotal, DocumentsAssumption DEF Combined
    <2>9. Combined(SumFunction(D(b)), SumFunction(D(a)), SumFunction(D(c)), SumFunction(D(m)))
      BY <2>3, <2>5, JoinedTotal, DocumentsAssumption DEF Combined
    <2>10. /\ RunsEarnedOf(b, u) = SumFunction(L(b)) + SumFunction(D(b))
           /\ RunsEarnedOf(a, u) = SumFunction(L(a)) + SumFunction(D(a))
           /\ RunsEarnedOf(c, u) = SumFunction(L(c)) + SumFunction(D(c))
           /\ RunsEarnedOf(m, u) = SumFunction(L(m)) + SumFunction(D(m))
      BY <2>2, <2>3, <2>6, <2>7
    <2> QED BY <2>8, <2>9, <2>10 DEF Combined
  <1>4. ASSUME NEW p \in Pools
        PROVE  Combined(ReservedOf(b, p), ReservedOf(a, p), ReservedOf(c, p), ReservedOf(m, p))
    <2> DEFINE F(R) == [r \in Runs |-> ReservedPart(R.reservations[r], p)]
    <2>1. \A x \in SoundReservation : ReservedPart(x, p) \in Int
      BY DEF SoundReservation, ReservationType, ReservedPart
    <2>2. /\ F(b) \in [Runs -> Int] /\ F(a) \in [Runs -> Int]
          /\ F(c) \in [Runs -> Int] /\ F(m) \in [Runs -> Int]
      BY <2>1 DEF SoundRows
    <2>3. Joined(Runs, F(b), F(a), F(c), F(m)) BY DEF JoinedRows, Joined
    <2> HIDE DEF F
    <2>4. Combined(SumFunction(F(b)), SumFunction(F(a)), SumFunction(F(c)), SumFunction(F(m)))
      BY <2>2, <2>3, JoinedTotal, DocumentsAssumption DEF Combined
    <2> QED BY <2>4 DEF F, ReservedOf
  <1>5. Combined(LockedOf(b), LockedOf(a), LockedOf(c), LockedOf(m))
    <2> DEFINE F(R) == [l \in Locks |-> LockPart(R.locks[l])]
    <2>1. \A x \in SoundLock : LockPart(x) \in Int
      BY DEF SoundLock, LockType, LockPart
    <2>2. /\ F(b) \in [Locks -> Int] /\ F(a) \in [Locks -> Int]
          /\ F(c) \in [Locks -> Int] /\ F(m) \in [Locks -> Int]
      BY <2>1 DEF SoundRows
    <2>3. Joined(Locks, F(b), F(a), F(c), F(m)) BY DEF JoinedRows, Joined
    <2> HIDE DEF F
    <2>4. Combined(SumFunction(F(b)), SumFunction(F(a)), SumFunction(F(c)), SumFunction(F(m)))
      BY <2>2, <2>3, JoinedTotal, DocumentsAssumption DEF Combined
    <2> QED BY <2>4 DEF F, LockedOf
  <1> QED BY <1>1, <1>2, <1>3, <1>4, <1>5

\* And those over the wallets.
LEMMA WalletTotals ==
    ASSUME NEW b, NEW a, NEW c, NEW m, SoundRows(b), SoundRows(a), SoundRows(c), SoundRows(m),
           JoinedRows(b, a, c, m)
    PROVE  /\ Combined(WorthOf(b), WorthOf(a), WorthOf(c), WorthOf(m))
           /\ Combined(SpentOf(b), SpentOf(a), SpentOf(c), SpentOf(m))
           /\ Combined(EarnedOf(b), EarnedOf(a), EarnedOf(c), EarnedOf(m))
  <1>1. \A w \in SoundWallet : Worth(w) \in Int /\ w.spent \in Int /\ w.earned \in Int
    BY FieldsOfWallet DEF WalletFields, Worth
  <1>2. Combined(WorthOf(b), WorthOf(a), WorthOf(c), WorthOf(m))
    <2> DEFINE F(R) == [u \in Users |-> Worth(R.wallets[u])]
    <2>1. /\ F(b) \in [Users -> Int] /\ F(a) \in [Users -> Int]
          /\ F(c) \in [Users -> Int] /\ F(m) \in [Users -> Int]
      BY <1>1 DEF SoundRows
    <2>2. Joined(Users, F(b), F(a), F(c), F(m)) BY DEF JoinedRows, Joined
    <2> HIDE DEF F
    <2>3. Combined(SumFunction(F(b)), SumFunction(F(a)), SumFunction(F(c)), SumFunction(F(m)))
      BY <2>1, <2>2, JoinedTotal, PartiesAssumption DEF Combined
    <2> QED BY <2>3 DEF F, WorthOf
  <1>3. Combined(SpentOf(b), SpentOf(a), SpentOf(c), SpentOf(m))
    <2> DEFINE F(R) == [u \in Users |-> R.wallets[u].spent]
    <2>1. /\ F(b) \in [Users -> Int] /\ F(a) \in [Users -> Int]
          /\ F(c) \in [Users -> Int] /\ F(m) \in [Users -> Int]
      BY <1>1 DEF SoundRows
    <2>2. Joined(Users, F(b), F(a), F(c), F(m)) BY DEF JoinedRows, Joined
    <2> HIDE DEF F
    <2>3. Combined(SumFunction(F(b)), SumFunction(F(a)), SumFunction(F(c)), SumFunction(F(m)))
      BY <2>1, <2>2, JoinedTotal, PartiesAssumption DEF Combined
    <2> QED BY <2>3 DEF F, SpentOf
  <1>4. Combined(EarnedOf(b), EarnedOf(a), EarnedOf(c), EarnedOf(m))
    <2> DEFINE F(R) == [u \in Users |-> R.wallets[u].earned]
    <2>1. /\ F(b) \in [Users -> Int] /\ F(a) \in [Users -> Int]
          /\ F(c) \in [Users -> Int] /\ F(m) \in [Users -> Int]
      BY <1>1 DEF SoundRows
    <2>2. Joined(Users, F(b), F(a), F(c), F(m)) BY DEF JoinedRows, Joined
    <2> HIDE DEF F
    <2>3. Combined(SumFunction(F(b)), SumFunction(F(a)), SumFunction(F(c)), SumFunction(F(m)))
      BY <2>1, <2>2, JoinedTotal, PartiesAssumption DEF Combined
    <2> QED BY <2>3 DEF F, EarnedOf
  <1> QED BY <1>2, <1>3, <1>4

-----------------------------------------------------------------------------
(* The commit of a slow action *)

\* The rows R come after the rows b.
Follows(b, R) ==
    /\ \A p \in Pools : b.pools[p].status # "none" =>
          R.pools[p].status # "none" /\ R.pools[p].payer = b.pools[p].payer
    /\ b.project.budgets \subseteq R.project.budgets
    /\ R.external.payouts >= b.external.payouts

\* What the ledger knows of beyond the lines of the project's holds.
Slack(R) == R.budget.spent - BudgetSpentOf(R)

\* An action decided on the rows b that they become a.
Decides(b, a) ==
    /\ SoundRows(b) /\ BooksOf(b)
    /\ Follows(b, a)
    /\ a.project = b.project
    /\ Slack(a) >= Slack(b)

\* A step takes rows to rows that follow.
LEMMA StepFollows ==
    ASSUME Grows
    PROVE  Follows(Rows, Rows')
  BY RowsFields DEF Grows, Follows, Rows

\* To follow is transitive.
LEMMA FollowsOn ==
    ASSUME NEW b, Follows(b, Rows), Grows, SoundRows(b), SoundRows(Rows), SoundRows(Rows')
    PROVE  Follows(b, Rows')
  <1>1. Follows(Rows, Rows') BY StepFollows
  <1>2. /\ b.external.payouts \in Nat /\ Rows.external.payouts \in Nat
        /\ Rows'.external.payouts \in Nat
    BY DEF SoundRows
  <1>3. \A p \in Pools : b.pools[p].status # "none" =>
          Rows'.pools[p].status # "none" /\ Rows'.pools[p].payer = b.pools[p].payer
    BY <1>1 DEF Follows
  <1>4. b.project.budgets \subseteq Rows'.project.budgets BY <1>1 DEF Follows
  <1>5. Rows'.external.payouts >= b.external.payouts BY <1>1, <1>2 DEF Follows
  <1> QED BY <1>3, <1>4, <1>5 DEF Follows

\* The merged rows are joined and sound.
LEMMA MergedRows ==
    ASSUME SoundRows(before), SoundRows(after), SoundRows(Rows), ~Overwrites,
           Follows(before, after), Follows(before, Rows), after.project = before.project
    PROVE  SoundRows(Merged) /\ JoinedRows(before, after, Rows, Merged)
  <1> DEFINE b == before
             a == after
             m == Merged
  <1>1. /\ m.wallets = [u \in Users |-> Overlay(b.wallets[u], a.wallets[u], wallets[u])]
        /\ m.holds = Overlay(b.holds, a.holds, holds)
        /\ m.pools = Overlay(b.pools, a.pools, pools)
        /\ m.reservations = Overlay(b.reservations, a.reservations, reservations)
        /\ m.debits = Overlay(b.debits, a.debits, debits)
        /\ m.payouts = Overlay(b.payouts, a.payouts, payouts)
        /\ m.locks = Overlay(b.locks, a.locks, locks)
        /\ m.project = project
        /\ m.budget = IF a.budget # b.budget THEN a.budget ELSE budget
        /\ m.applied = applied \cup a.applied
        /\ m.external =
             [payments |-> external.payments + a.external.payments - b.external.payments,
              payouts |-> external.payouts + a.external.payouts - b.external.payouts]
    BY DEF Merged
  <1> HIDE DEF m
  <1>2. /\ m.holds \in [Holds -> SoundHold]
        /\ Joined(Holds, b.holds, a.holds, Rows.holds, m.holds)
    <2>1. /\ b.holds \in [Holds -> SoundHold] /\ a.holds \in [Holds -> SoundHold]
          /\ holds \in [Holds -> SoundHold]
      BY RowsFields DEF SoundRows
    <2>2. ~Clash(b.holds, a.holds, holds) BY DEF Overwrites
    <2>3. m.holds = Overlay(b.holds, a.holds, holds) BY <1>1
    <2>4. Rows.holds = holds BY RowsFields
    <2> HIDE DEF b, a
    <2>5. /\ Overlay(b.holds, a.holds, holds) \in [Holds -> SoundHold]
          /\ Joined(Holds, b.holds, a.holds, holds, Overlay(b.holds, a.holds, holds))
      BY <2>1, <2>2, OverlayJoins
    <2> QED BY <2>3, <2>4, <2>5
  <1>3. /\ m.pools \in [Pools -> SoundPool]
        /\ Joined(Pools, b.pools, a.pools, Rows.pools, m.pools)
    <2>1. /\ b.pools \in [Pools -> SoundPool] /\ a.pools \in [Pools -> SoundPool]
          /\ pools \in [Pools -> SoundPool]
      BY RowsFields DEF SoundRows
    <2>2. ~Clash(b.pools, a.pools, pools) BY DEF Overwrites
    <2>3. m.pools = Overlay(b.pools, a.pools, pools) BY <1>1
    <2>4. Rows.pools = pools BY RowsFields
    <2> HIDE DEF b, a
    <2>5. /\ Overlay(b.pools, a.pools, pools) \in [Pools -> SoundPool]
          /\ Joined(Pools, b.pools, a.pools, pools, Overlay(b.pools, a.pools, pools))
      BY <2>1, <2>2, OverlayJoins
    <2> QED BY <2>3, <2>4, <2>5
  <1>4. /\ m.reservations \in [Runs -> SoundReservation]
        /\ Joined(Runs, b.reservations, a.reservations, Rows.reservations, m.reservations)
    <2>1. /\ b.reservations \in [Runs -> SoundReservation] /\ a.reservations \in [Runs -> SoundReservation]
          /\ reservations \in [Runs -> SoundReservation]
      BY RowsFields DEF SoundRows
    <2>2. ~Clash(b.reservations, a.reservations, reservations) BY DEF Overwrites
    <2>3. m.reservations = Overlay(b.reservations, a.reservations, reservations) BY <1>1
    <2>4. Rows.reservations = reservations BY RowsFields
    <2> HIDE DEF b, a
    <2>5. /\ Overlay(b.reservations, a.reservations, reservations) \in [Runs -> SoundReservation]
          /\ Joined(Runs, b.reservations, a.reservations, reservations, Overlay(b.reservations, a.reservations, reservations))
      BY <2>1, <2>2, OverlayJoins
    <2> QED BY <2>3, <2>4, <2>5
  <1>5. /\ m.debits \in [Runs -> DebitType]
        /\ Joined(Runs, b.debits, a.debits, Rows.debits, m.debits)
    <2>1. /\ b.debits \in [Runs -> DebitType] /\ a.debits \in [Runs -> DebitType]
          /\ debits \in [Runs -> DebitType]
      BY RowsFields DEF SoundRows
    <2>2. ~Clash(b.debits, a.debits, debits) BY DEF Overwrites
    <2>3. m.debits = Overlay(b.debits, a.debits, debits) BY <1>1
    <2>4. Rows.debits = debits BY RowsFields
    <2> HIDE DEF b, a
    <2>5. /\ Overlay(b.debits, a.debits, debits) \in [Runs -> DebitType]
          /\ Joined(Runs, b.debits, a.debits, debits, Overlay(b.debits, a.debits, debits))
      BY <2>1, <2>2, OverlayJoins
    <2> QED BY <2>3, <2>4, <2>5
  <1>6. /\ m.payouts \in [Payouts -> SoundPayout]
        /\ Joined(Payouts, b.payouts, a.payouts, Rows.payouts, m.payouts)
    <2>1. /\ b.payouts \in [Payouts -> SoundPayout] /\ a.payouts \in [Payouts -> SoundPayout]
          /\ payouts \in [Payouts -> SoundPayout]
      BY RowsFields DEF SoundRows
    <2>2. ~Clash(b.payouts, a.payouts, payouts) BY DEF Overwrites
    <2>3. m.payouts = Overlay(b.payouts, a.payouts, payouts) BY <1>1
    <2>4. Rows.payouts = payouts BY RowsFields
    <2> HIDE DEF b, a
    <2>5. /\ Overlay(b.payouts, a.payouts, payouts) \in [Payouts -> SoundPayout]
          /\ Joined(Payouts, b.payouts, a.payouts, payouts, Overlay(b.payouts, a.payouts, payouts))
      BY <2>1, <2>2, OverlayJoins
    <2> QED BY <2>3, <2>4, <2>5
  <1>7. /\ m.locks \in [Locks -> SoundLock]
        /\ Joined(Locks, b.locks, a.locks, Rows.locks, m.locks)
    <2>1. /\ b.locks \in [Locks -> SoundLock] /\ a.locks \in [Locks -> SoundLock]
          /\ locks \in [Locks -> SoundLock]
      BY RowsFields DEF SoundRows
    <2>2. ~Clash(b.locks, a.locks, locks) BY DEF Overwrites
    <2>3. m.locks = Overlay(b.locks, a.locks, locks) BY <1>1
    <2>4. Rows.locks = locks BY RowsFields
    <2> HIDE DEF b, a
    <2>5. /\ Overlay(b.locks, a.locks, locks) \in [Locks -> SoundLock]
          /\ Joined(Locks, b.locks, a.locks, locks, Overlay(b.locks, a.locks, locks))
      BY <2>1, <2>2, OverlayJoins
    <2> QED BY <2>3, <2>4, <2>5
  <1>8. /\ m.wallets \in [Users -> SoundWallet]
        /\ Joined(Users, b.wallets, a.wallets, Rows.wallets, m.wallets)
    <2>1. /\ b.wallets \in [Users -> SoundWallet] /\ a.wallets \in [Users -> SoundWallet]
          /\ wallets \in [Users -> SoundWallet]
      BY RowsFields DEF SoundRows
    <2>2. ~Clash(b.wallets, a.wallets, wallets) BY DEF Overwrites
    <2>3. ASSUME NEW u \in Users
          PROVE  \/ m.wallets[u] = a.wallets[u] /\ wallets[u] = b.wallets[u]
                 \/ m.wallets[u] = wallets[u] /\ a.wallets[u] = b.wallets[u]
      <3>1. /\ b.wallets[u] \in Wallet /\ a.wallets[u] \in Wallet /\ wallets[u] \in Wallet
        BY <2>1 DEF SoundWallet
      <3>2. a.wallets[u] = b.wallets[u] \/ wallets[u] = b.wallets[u]
        BY <2>1, <2>2 DEF Clash
      <3>3. m.wallets[u] = Overlay(b.wallets[u], a.wallets[u], wallets[u]) BY <1>1
      <3> QED BY <3>1, <3>2, <3>3, WalletOverlay
    <2>4. \A u \in Users : m.wallets[u] \in SoundWallet BY <2>1, <2>3
    <2>5. m.wallets \in [Users -> SoundWallet]
      <3>1. \A u \in Users :
              Overlay(b.wallets[u], a.wallets[u], wallets[u]) \in SoundWallet
        BY <1>1, <2>4
      <3> QED BY <1>1, <3>1
    <2> QED BY <2>3, <2>5, RowsFields DEF Joined
  <1>9. \/ m.budget = a.budget /\ Rows.budget = b.budget
        \/ m.budget = Rows.budget /\ a.budget = b.budget
    BY <1>1, RowsFields DEF Overwrites
  <1>10. m.project \in SoundProject /\ m.budget \in SoundBudget(m.project.budgets)
    <2>1. /\ a.budget \in SoundBudget(a.project.budgets)
          /\ budget \in SoundBudget(project.budgets) /\ project \in SoundProject
      BY RowsFields DEF SoundRows
    <2>2. a.project.budgets \subseteq project.budgets BY RowsFields DEF Follows
    <2>3. a.budget \in SoundBudget(project.budgets) BY <2>1, <2>2 DEF SoundBudget
    <2> QED BY <1>1, <2>1, <2>3
  <1>11. m.applied \subseteq {"mint", "adjust", "refresh", "debit"} \X Keys
    BY <1>1, RowsFields DEF SoundRows
  <1>12. /\ b.external.payments \in Int /\ a.external.payments \in Int
         /\ external.payments \in Int
         /\ b.external.payouts \in Nat /\ a.external.payouts \in Nat
         /\ external.payouts \in Nat /\ a.external.payouts >= b.external.payouts
    BY RowsFields DEF SoundRows, Follows
  <1>13. m.external \in [payments : Int, payouts : Nat] BY <1>1, <1>12
  <1>14. /\ Combined(b.external.payments, a.external.payments, Rows.external.payments,
                     m.external.payments)
         /\ Combined(b.external.payouts, a.external.payouts, Rows.external.payouts,
                     m.external.payouts)
    BY <1>1, <1>12, RowsFields DEF Combined
  <1>15. SoundRows(m)
    BY <1>2, <1>3, <1>4, <1>5, <1>6, <1>7, <1>8, <1>10, <1>11, <1>13 DEF SoundRows
  <1>16. JoinedRows(b, a, Rows, m)
    BY <1>2, <1>3, <1>4, <1>5, <1>6, <1>7, <1>8, <1>9, <1>14 DEF JoinedRows
  <1> QED BY <1>15, <1>16 DEF m

\* Two totals that move together leave the sum where the action or the others left it.
LEMMA SumsCombine ==
    ASSUME NEW b1, NEW a1, NEW c1, NEW m1, NEW b2, NEW a2, NEW c2, NEW m2,
           Combined(b1, a1, c1, m1), Combined(b2, a2, c2, m2)
    PROVE  /\ c1 + c2 = b1 + b2 => m1 + m2 = a1 + a2
           /\ a1 + a2 = b1 + b2 => m1 + m2 = c1 + c2
  BY DEF Combined

\* The books of joined rows are in order.
LEMMA JoinedBooks ==
    ASSUME NEW b, NEW a, NEW c, NEW m, SoundRows(b), SoundRows(a), SoundRows(c), SoundRows(m),
           BooksOf(b), BooksOf(a), BooksOf(c), JoinedRows(b, a, c, m),
           Follows(b, a), Follows(b, c), Slack(a) >= Slack(b)
    PROVE  BooksOf(m)
  <1>1. DocumentsOf(m)
    <2>1. /\ Joined(Holds, b.holds, a.holds, c.holds, m.holds)
          /\ Joined(Pools, b.pools, a.pools, c.pools, m.pools)
          /\ Joined(Runs, b.reservations, a.reservations, c.reservations, m.reservations)
      BY DEF JoinedRows
    <2>2. DocumentsOf(a) /\ DocumentsOf(c) BY DEF BooksOf
    <2>3. \A h \in Holds : m.holds[h].status # "settled" => m.holds[h].lines = NoLines
      BY <2>1, <2>2 DEF Joined, DocumentsOf
    <2>4. \A r \in Runs : m.reservations[r].status # "settled" =>
                            m.reservations[r].lines = NoLines
      BY <2>1, <2>2 DEF Joined, DocumentsOf
    <2>5. \A p \in Pools : m.pools[p].status = "none" => m.pools[p].reserved = 0
      BY <2>1, <2>2 DEF Joined, DocumentsOf
    <2>6. ASSUME NEW r \in Runs, m.reservations[r].status = "reserved"
          PROVE  /\ m.reservations[r].payer = m.pools[m.reservations[r].pool].payer
                 /\ m.pools[m.reservations[r].pool].status # "none"
      <3> DEFINE p == m.reservations[r].pool
      <3>1. p \in Pools BY <2>6 DEF SoundRows, SoundReservation
      <3>2. \/ m.pools[p] = a.pools[p] /\ c.pools[p] = b.pools[p]
            \/ m.pools[p] = c.pools[p] /\ a.pools[p] = b.pools[p]
        BY <2>1, <3>1 DEF Joined
      <3>3. /\ b.pools[p].status # "none" =>
                 a.pools[p].status # "none" /\ a.pools[p].payer = b.pools[p].payer
            /\ b.pools[p].status # "none" =>
                 c.pools[p].status # "none" /\ c.pools[p].payer = b.pools[p].payer
        BY <3>1 DEF Follows
      <3>4. CASE m.reservations[r] = a.reservations[r]
        <4>1. a.reservations[r].payer = a.pools[p].payer /\ a.pools[p].status # "none"
          BY <2>2, <2>6, <3>4 DEF DocumentsOf
        <4> QED BY <3>2, <3>3, <3>4, <4>1
      <3>5. CASE m.reservations[r] = c.reservations[r]
        <4>1. c.reservations[r].payer = c.pools[p].payer /\ c.pools[p].status # "none"
          BY <2>2, <2>6, <3>5 DEF DocumentsOf
        <4> QED BY <3>2, <3>3, <3>5, <4>1
      <3> QED BY <2>1, <3>4, <3>5 DEF Joined
    <2> QED BY <2>3, <2>4, <2>5, <2>6 DEF DocumentsOf
  <1>2. PoolBooksOf(m)
    <2> SUFFICES ASSUME NEW p \in Pools
                 PROVE  /\ m.pools[p].remaining >= 0 /\ m.pools[p].refunded >= 0
                        /\ m.pools[p].reserved = ReservedOf(m, p)
      BY DEF PoolBooksOf
    <2>1. \/ m.pools[p] = a.pools[p] /\ c.pools[p] = b.pools[p]
          \/ m.pools[p] = c.pools[p] /\ a.pools[p] = b.pools[p]
      BY DEF JoinedRows, Joined
    <2>2. /\ a.pools[p].remaining >= 0 /\ a.pools[p].refunded >= 0
          /\ a.pools[p].reserved = ReservedOf(a, p)
          /\ b.pools[p].reserved = ReservedOf(b, p)
          /\ c.pools[p].remaining >= 0 /\ c.pools[p].refunded >= 0
          /\ c.pools[p].reserved = ReservedOf(c, p)
      BY DEF BooksOf, PoolBooksOf
    <2>3. Combined(ReservedOf(b, p), ReservedOf(a, p), ReservedOf(c, p), ReservedOf(m, p))
      BY DocumentTotals
    <2>4. CASE m.pools[p] = a.pools[p] /\ c.pools[p] = b.pools[p]
      <3>1. ReservedOf(c, p) = ReservedOf(b, p) BY <2>2, <2>4
      <3>2. ReservedOf(m, p) = ReservedOf(a, p) BY <2>3, <3>1 DEF Combined
      <3> QED BY <2>2, <2>4, <3>2
    <2>5. CASE m.pools[p] = c.pools[p] /\ a.pools[p] = b.pools[p]
      <3>1. ReservedOf(a, p) = ReservedOf(b, p) BY <2>2, <2>5
      <3>2. ReservedOf(m, p) = ReservedOf(c, p) BY <2>3, <3>1 DEF Combined
      <3> QED BY <2>2, <2>5, <3>2
    <2> QED BY <2>1, <2>4, <2>5
  <1>3. WalletBooksOf(m)
    <2> SUFFICES ASSUME NEW u \in Users
                 PROVE  /\ m.wallets[u].held = HoldsHeldOf(m, u) + PoolsHeldOf(m, u)
                        /\ m.wallets[u].payoutHeld = PayoutsHeldOf(m, u)
                        /\ m.wallets[u].earned = HoldsEarnedOf(m, u) + RunsEarnedOf(m, u)
      BY DEF WalletBooksOf
    <2>1. \/ m.wallets[u] = a.wallets[u] /\ c.wallets[u] = b.wallets[u]
          \/ m.wallets[u] = c.wallets[u] /\ a.wallets[u] = b.wallets[u]
      BY DEF JoinedRows, Joined
    <2>2. /\ Combined(HoldsHeldOf(b, u), HoldsHeldOf(a, u), HoldsHeldOf(c, u), HoldsHeldOf(m, u))
          /\ Combined(HoldsEarnedOf(b, u), HoldsEarnedOf(a, u), HoldsEarnedOf(c, u),
                      HoldsEarnedOf(m, u))
      BY HoldTotals
    <2>3. /\ Combined(PoolsHeldOf(b, u), PoolsHeldOf(a, u), PoolsHeldOf(c, u), PoolsHeldOf(m, u))
          /\ Combined(PayoutsHeldOf(b, u), PayoutsHeldOf(a, u), PayoutsHeldOf(c, u),
                      PayoutsHeldOf(m, u))
          /\ Combined(RunsEarnedOf(b, u), RunsEarnedOf(a, u), RunsEarnedOf(c, u),
                      RunsEarnedOf(m, u))
      BY DocumentTotals
    <2>4. /\ b.wallets[u].held = HoldsHeldOf(b, u) + PoolsHeldOf(b, u)
          /\ a.wallets[u].held = HoldsHeldOf(a, u) + PoolsHeldOf(a, u)
          /\ c.wallets[u].held = HoldsHeldOf(c, u) + PoolsHeldOf(c, u)
      BY DEF BooksOf, WalletBooksOf
    <2>5. /\ b.wallets[u].payoutHeld = PayoutsHeldOf(b, u)
          /\ a.wallets[u].payoutHeld = PayoutsHeldOf(a, u)
          /\ c.wallets[u].payoutHeld = PayoutsHeldOf(c, u)
      BY DEF BooksOf, WalletBooksOf
    <2>6. /\ b.wallets[u].earned = HoldsEarnedOf(b, u) + RunsEarnedOf(b, u)
          /\ a.wallets[u].earned = HoldsEarnedOf(a, u) + RunsEarnedOf(a, u)
          /\ c.wallets[u].earned = HoldsEarnedOf(c, u) + RunsEarnedOf(c, u)
      BY DEF BooksOf, WalletBooksOf
    <2>7. m.wallets[u].held = HoldsHeldOf(m, u) + PoolsHeldOf(m, u)
      BY <2>1, <2>2, <2>3, <2>4 DEF Combined
    <2>8. m.wallets[u].payoutHeld = PayoutsHeldOf(m, u)
      <3>1. Combined(PayoutsHeldOf(b, u), PayoutsHeldOf(a, u), PayoutsHeldOf(c, u),
                     PayoutsHeldOf(m, u))
        BY <2>3
      <3>2. CASE m.wallets[u] = a.wallets[u] /\ c.wallets[u] = b.wallets[u]
        <4>1. PayoutsHeldOf(c, u) = PayoutsHeldOf(b, u) BY <2>5, <3>2
        <4>2. PayoutsHeldOf(m, u) = PayoutsHeldOf(a, u) BY <3>1, <4>1 DEF Combined
        <4> QED BY <2>5, <3>2, <4>2
      <3>3. CASE m.wallets[u] = c.wallets[u] /\ a.wallets[u] = b.wallets[u]
        <4>1. PayoutsHeldOf(a, u) = PayoutsHeldOf(b, u) BY <2>5, <3>3
        <4>2. PayoutsHeldOf(m, u) = PayoutsHeldOf(c, u) BY <3>1, <4>1 DEF Combined
        <4> QED BY <2>5, <3>3, <4>2
      <3> QED BY <2>1, <3>2, <3>3
    <2>9. m.wallets[u].earned = HoldsEarnedOf(m, u) + RunsEarnedOf(m, u)
      <3>1. Combined(HoldsEarnedOf(b, u), HoldsEarnedOf(a, u), HoldsEarnedOf(c, u),
                     HoldsEarnedOf(m, u))
        BY <2>2
      <3>2. Combined(RunsEarnedOf(b, u), RunsEarnedOf(a, u), RunsEarnedOf(c, u),
                     RunsEarnedOf(m, u))
        BY <2>3
      <3>3. CASE m.wallets[u] = a.wallets[u] /\ c.wallets[u] = b.wallets[u]
        <4>1. HoldsEarnedOf(c, u) + RunsEarnedOf(c, u) = HoldsEarnedOf(b, u) + RunsEarnedOf(b, u)
          BY <2>6, <3>3
        <4>2. HoldsEarnedOf(m, u) + RunsEarnedOf(m, u) = HoldsEarnedOf(a, u) + RunsEarnedOf(a, u)
          BY <3>1, <3>2, <4>1, SumsCombine
        <4> QED BY <2>6, <3>3, <4>2
      <3>4. CASE m.wallets[u] = c.wallets[u] /\ a.wallets[u] = b.wallets[u]
        <4>1. HoldsEarnedOf(a, u) + RunsEarnedOf(a, u) = HoldsEarnedOf(b, u) + RunsEarnedOf(b, u)
          BY <2>6, <3>4
        <4>2. HoldsEarnedOf(m, u) + RunsEarnedOf(m, u) = HoldsEarnedOf(c, u) + RunsEarnedOf(c, u)
          BY <3>1, <3>2, <4>1, SumsCombine
        <4> QED BY <2>6, <3>4, <4>2
      <3> QED BY <2>1, <3>3, <3>4
    <2> QED BY <2>7, <2>8, <2>9
  <1>4. MoneyBooksOf(m)
    <2> DEFINE opened == Cardinality(Users) * OpeningBalance
    <2>1. opened \in Int
      BY PartiesAssumption, AmountsAssumption, FS_CardinalityType
    <2>2. /\ WorthOf(b) = opened + (b.external.payments - b.external.payouts - LockedOf(b))
          /\ WorthOf(a) = opened + (a.external.payments - a.external.payouts - LockedOf(a))
          /\ WorthOf(c) = opened + (c.external.payments - c.external.payouts - LockedOf(c))
          /\ SpentOf(b) = EarnedOf(b) /\ SpentOf(a) = EarnedOf(a) /\ SpentOf(c) = EarnedOf(c)
      BY DEF BooksOf, MoneyBooksOf
    <2> HIDE DEF opened
    <2>3. /\ Combined(WorthOf(b), WorthOf(a), WorthOf(c), WorthOf(m))
          /\ Combined(SpentOf(b), SpentOf(a), SpentOf(c), SpentOf(m))
          /\ Combined(EarnedOf(b), EarnedOf(a), EarnedOf(c), EarnedOf(m))
      BY WalletTotals
    <2>4. Combined(LockedOf(b), LockedOf(a), LockedOf(c), LockedOf(m)) BY DocumentTotals
    <2>5. /\ Combined(b.external.payments, a.external.payments, c.external.payments,
                      m.external.payments)
          /\ Combined(b.external.payouts, a.external.payouts, c.external.payouts,
                      m.external.payouts)
      BY DEF JoinedRows
    <2>6. WorthOf(m) = opened + (m.external.payments - m.external.payouts - LockedOf(m))
      BY <2>1, <2>2, <2>3, <2>4, <2>5 DEF Combined
    <2>7. SpentOf(m) = EarnedOf(m) BY <2>2, <2>3 DEF Combined
    <2> QED BY <2>6, <2>7 DEF MoneyBooksOf, opened
  <1>5. BudgetBooksOf(m)
    <2>1. \/ m.budget = a.budget /\ c.budget = b.budget
          \/ m.budget = c.budget /\ a.budget = b.budget
      BY DEF JoinedRows
    <2>2. /\ Combined(BudgetReservedOf(b), BudgetReservedOf(a), BudgetReservedOf(c),
                      BudgetReservedOf(m))
          /\ Combined(BudgetSpentOf(b), BudgetSpentOf(a), BudgetSpentOf(c), BudgetSpentOf(m))
      BY HoldTotals
    <2>3. /\ b.budget.reserved = BudgetReservedOf(b) /\ a.budget.reserved = BudgetReservedOf(a)
          /\ c.budget.reserved = BudgetReservedOf(c) /\ c.budget.spent >= BudgetSpentOf(c)
      BY DEF BooksOf, BudgetBooksOf
    <2>4. b.budget.spent \in Int /\ a.budget.spent \in Int /\ c.budget.spent \in Int
      BY DEF SoundRows, SoundBudget
    <2>5. m.budget.reserved = BudgetReservedOf(m) BY <2>1, <2>2, <2>3 DEF Combined
    <2>6. a.budget.spent - BudgetSpentOf(a) >= b.budget.spent - BudgetSpentOf(b)
      BY DEF Slack
    <2>7. m.budget.spent = c.budget.spent + (a.budget.spent - b.budget.spent)
      BY <2>1, <2>4
    <2>8. m.budget.spent >= BudgetSpentOf(m)
      BY <2>2, <2>3, <2>4, <2>6, <2>7 DEF Combined
    <2> QED BY <2>5, <2>8 DEF BudgetBooksOf
  <1> QED BY <1>1, <1>2, <1>3, <1>4, <1>5 DEF BooksOf

-----------------------------------------------------------------------------
(* The node *)

\* The inductive invariant: until a row is written over, the rows are sound and
\* in order, and so are those that the slow action read and decided.
NodeInv ==
    raced \/ /\ IInv /\ AInv
             /\ phase = "decided" => Decides(before, Rows)
             /\ phase = "overtaken" => /\ Decides(before, after)
                                       /\ SoundRows(after) /\ BooksOf(after)
                                       /\ Follows(before, Rows)

\* It holds of a node that has served nothing.
LEMMA NodeInitInv == NodeInit => NodeInv
  BY InitInv, AuditInit DEF NodeInit, NodeInv

\* Rows follow themselves.
LEMMA FollowsItself ==
    ASSUME NEW b, NEW R, SoundRows(b), R.pools = b.pools, R.project = b.project,
           R.external = b.external
    PROVE  Follows(b, R)
  <1>1. b.external.payouts \in Nat BY DEF SoundRows
  <1> QED BY <1>1 DEF Follows

\* Every step of the node keeps it.
LEMMA NodeNextInv ==
    ASSUME NodeInv, [NodeNext]_nodeVars
    PROVE  NodeInv'
  <1>1. CASE raced
    <2>1. raced' = TRUE
      BY <1>1 DEF NodeNext, Alone, Decide, Overtaken, Commit, Refused, nodeVars, NodeInv
    <2> QED BY <2>1 DEF NodeInv
  <1>2. CASE ~raced
    <2>1. /\ IInv /\ AInv
          /\ phase = "decided" => Decides(before, Rows)
          /\ phase = "overtaken" => /\ Decides(before, after)
                                    /\ SoundRows(after) /\ BooksOf(after)
                                    /\ Follows(before, Rows)
      BY <1>2 DEF NodeInv
    <2>2. SoundRows(Rows) /\ BooksOf(Rows) BY <2>1, RowsAreSound
    <2>3. CASE Alone
      <3>1. /\ IInv' /\ AInv' BY <2>1, <2>3, NextInv, NextAudit DEF Alone
      <3>2. Grows BY <2>1, <2>3, NextGrows DEF Alone
      <3>3. SoundRows(Rows') BY <3>1 DEF IInv, SoundRows, Rows
      <3>4. UNCHANGED <<phase, before, after>> /\ phase # "decided" BY <2>3 DEF Alone
      <3>5. phase = "overtaken" => Follows(before, Rows')
        BY <2>1, <2>2, <3>2, <3>3, FollowsOn DEF Decides
      <3> QED BY <2>1, <3>1, <3>4, <3>5 DEF NodeInv
    <2>4. CASE Decide
      <3>1. [Next]_vars /\ MoneyStep BY <2>4 DEF Decide, Next
      <3>2. IInv' /\ AInv' BY <2>1, <3>1, NextInv, MoneyAudit
      <3>3. Grows /\ project' = project /\ SpentGrows
        BY <2>1, <3>1, <3>2, NextGrows, MoneyGrows
      <3>4. Follows(Rows, Rows') BY <3>3, StepFollows
      <3>5. Rows'.project = Rows.project BY <3>3 DEF Rows
      <3>6. Slack(Rows') >= Slack(Rows)
        BY <3>3 DEF SpentGrows, Slack, Rows, BudgetSpent, BudgetSpentOf
      <3>7. Decides(Rows, Rows') BY <2>2, <3>4, <3>5, <3>6 DEF Decides
      <3>8. phase' = "decided" /\ before' = Rows BY <2>4 DEF Decide
      <3> QED BY <3>2, <3>7, <3>8 DEF NodeInv
    <2>5. CASE Overtaken
      <3>1. /\ phase = "decided" /\ phase' = "overtaken" /\ after' = Rows /\ before' = before
            /\ SetRows(before) /\ UNCHANGED clock
        BY <2>5 DEF Overtaken
      <3>2. Decides(before, Rows) BY <2>1, <3>1
      <3>3. SoundRows(before) /\ BooksOf(before) BY <3>2 DEF Decides
      <3>4. IInv' /\ AInv' BY <2>1, <3>1, <3>3, RowsAreSet
      <3>5. /\ Rows'.pools = before.pools /\ Rows'.project = before.project
            /\ Rows'.external = before.external
        BY <3>1 DEF SetRows, Rows
      <3>6. Follows(before, Rows') BY <3>3, <3>5, FollowsItself
      <3> QED BY <2>2, <3>1, <3>2, <3>4, <3>6 DEF NodeInv
    <2>6. CASE Commit
      <3>1. /\ phase = "overtaken" /\ phase' = "none" /\ SetRows(Merged) /\ UNCHANGED clock
            /\ raced' = (raced \/ Overwrites)
        BY <2>6 DEF Commit, Ended
      <3>2. CASE Overwrites BY <3>1, <3>2 DEF NodeInv
      <3>3. CASE ~Overwrites
        <4>1. /\ SoundRows(before) /\ BooksOf(before) /\ Follows(before, after)
              /\ after.project = before.project /\ Slack(after) >= Slack(before)
              /\ SoundRows(after) /\ BooksOf(after) /\ Follows(before, Rows)
          BY <2>1, <3>1 DEF Decides
        <4>2. SoundRows(Merged) /\ JoinedRows(before, after, Rows, Merged)
          BY <2>2, <3>3, <4>1, MergedRows
        <4>3. BooksOf(Merged) BY <2>2, <4>1, <4>2, JoinedBooks
        <4>4. IInv' /\ AInv' BY <2>1, <3>1, <4>2, <4>3, RowsAreSet
        <4> QED BY <3>1, <4>4 DEF NodeInv
      <3> QED BY <3>2, <3>3
    <2>7. CASE Refused
      <3>1. phase' = "none" /\ UNCHANGED vars BY <2>7 DEF Refused, Ended
      <3>2. IInv' /\ AInv' BY <2>1, <3>1, NextInv, NextAudit
      <3> QED BY <3>1, <3>2 DEF NodeInv
    <2>8. CASE UNCHANGED nodeVars
      <3>1. UNCHANGED <<phase, before, after>> /\ UNCHANGED vars BY <2>8 DEF nodeVars, slow
      <3>2. IInv' /\ AInv' BY <2>1, <3>1, NextInv, NextAudit
      <3>3. Rows' = Rows BY <3>1 DEF vars, Rows
      <3> QED BY <2>1, <3>1, <3>2, <3>3 DEF NodeInv
    <2> QED BY <2>3, <2>4, <2>5, <2>6, <2>7, <2>8 DEF NodeNext
  <1> QED BY <1>1, <1>2

\* The invariant holds.
LEMMA NodeAlwaysInv == Spec => []NodeInv
  BY NodeInitInv, NodeNextInv, PTL DEF Spec

-----------------------------------------------------------------------------
(* Theorems *)

\* Until a row is written over, every variable has its type and no counter of any
\* wallet is negative, whatever requests the node executes and however they
\* overlap.
THEOREM FinanceTypeCorrect == Spec => [](raced \/ TypeOK)
<1>1. NodeInv => raced \/ TypeOK BY InvImplies DEF NodeInv
<1> QED BY <1>1, NodeAlwaysInv, PTL

\* What may be paid out of a wallet stays covered by its balance and by what was
\* locked of it, although holds and pools return money whose withdrawable part
\* they computed long before, and slow actions write what they computed on older
\* rows, until one writes over a row that another one changed.
THEOREM WithdrawableAlwaysCovered == Spec => []WithdrawableStaysCovered
<1>1. NodeInv => WithdrawableStaysCovered BY InvImplies DEF NodeInv, WithdrawableStaysCovered
<1> QED BY <1>1, NodeAlwaysInv, PTL

\* The audit finds nothing, for any number of wallets, holds, pools, runs and
\* payouts, any order of the requests and any overlap of them, until an action
\* writes over a row: counters adjusted by differences are the sums of what the
\* documents say, also when a slow action is merged with what overtook it.
THEOREM BooksAlwaysInOrder == Spec => []BooksStayInOrder
<1>1. NodeInv => BooksStayInOrder BY AuditImplies DEF NodeInv, BooksStayInOrder
<1> QED BY <1>1, NodeAlwaysInv, PTL

\* No sequence of requests, overlapping or not, makes or loses money until an
\* action writes over a row: what the wallets own and what is locked is what was
\* opened, paid in and not paid out.
THEOREM MoneyAlwaysConserved == Spec => []MoneyStaysConserved
<1>1. NodeInv => MoneyStaysConserved BY AuditImplies DEF NodeInv, MoneyStaysConserved
<1> QED BY <1>1, NodeAlwaysInv, PTL

\* A project stays within the budgets it was given, however its owner changes
\* them and what it says is spent while holds are decided, created and ended,
\* until an action writes over a row.
THEOREM BudgetAlwaysKept == Spec => []BudgetStaysKept
<1>1. NodeInv => BudgetStaysKept BY AuditImplies DEF NodeInv, BudgetStaysKept
<1> QED BY <1>1, NodeAlwaysInv, PTL
=============================================================================
