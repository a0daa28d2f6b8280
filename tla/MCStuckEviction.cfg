SPECIFICATION Spec
CONSTANTS
    t1 = t1
    t2 = t2
    t3 = t3
    p1 = p1
    q1 = q1
    q2 = q2
    f1 = f1
    f2 = f2
    None = None
    Threads <- MCThreads
    Pages <- MCPages
    Files <- MCFiles
    FileOf <- MCFileOf
    Calls <- MCCalls
    Budgets <- MCBudgets
    Values = {0, 1}
    InitVal = 0
    Capacity = 1
    Unreadable = {}
    WriteMayFail = FALSE
INVARIANT
    EvictionIsInProgress
CHECK_DEADLOCK FALSE
