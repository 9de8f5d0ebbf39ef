\* Queries, traces and time budgets.
SPECIFICATION Spec
CONSTANTS
    p1 = p1
    p2 = p2
    Procs = {p1, p2}
    Blocks = {1, 2}
    TxCount <- TwoBlocks
    Payment <- SomePay
    Flaky <- Failures
    Targets <- LastOfFirst
    Plans <- AllPlans
    Budget = 2
    Grace = 1
    UploadBudget = 2
    Outer = 3
    MaxReplay = 2
    MaxPurges = 1
INVARIANTS StoredIsTrue BackfillIsComplete
PROPERTIES TracedIsKept BudgetKept
