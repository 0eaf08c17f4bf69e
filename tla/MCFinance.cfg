SPECIFICATION Spec
CONSTANTS
    Users = {payer, worker}
    Payers = {payer}
    Authority = worker
    Holds = {hold, other}
    ProjectHolds = {hold, other}
    Pools = {pool}
    Runs = {run}
    Payouts = {payout}
    Locks = {lock}
    Keys = {key}
    Amounts = {2}
    Expiries = {1}
    Budgets = {2}
    Spendings = {1}
    OpeningBalance = 2
    OpeningBudget = 4
    HoldTtl = 1
    MaxRequests = 3
    MaxClock = 2
    MaxBehind = 1
    MaxEarlier = 1
    None = None
CONSTRAINT UpToRaced
SYMMETRY HoldSymmetry
INVARIANTS
    WithdrawableStaysCovered
    BooksStayInOrder
    MoneyStaysConserved
    BudgetStaysKept
