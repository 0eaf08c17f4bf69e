SPECIFICATION Spec
CONSTANTS
    Users = {payer, worker}
    Payers = {payer}
    Authority = worker
    Holds = {hold, other}
    ProjectHolds = {hold, other}
    Pools = {pool}
    Runs = {run}
    Payouts = {payout}
    Locks = {lock}
    Keys = {key}
    Amounts = {2}
    Expiries = {1}
    Budgets = {2}
    Spendings = {1}
    OpeningBalance = 2
    OpeningBudget = 4
    HoldTtl = 1
    MaxRequests = 3
    MaxClock = 2
    MaxBehind = 1
    MaxEarlier = 1
    None = None
\* TLC stops at the first of these it violates: keep one at a time.
INVARIANTS
    WithdrawableIsBacked
    WithdrawableInBalance
    MoneyIsConserved
