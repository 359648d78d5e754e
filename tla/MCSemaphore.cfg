CONSTANTS
    PLAT_CPU_NUM = 2
    DEFAULT_BUDGET = 2
    User = {u1, u2, u3}
    Root = u1
    Shadow = {}
    AffArg <- MCAffArg
    NULL = NULL
    i0 = i0
    i1 = i1
    idle_threads <- MCIdle
    Sem = {s1}
    MaxSemCount = 1
SPECIFICATION SemSpec
SYMMETRY MCSymmetry
INVARIANTS
    SemTypeOK
    SchedInv
    QueuesConsistent
    CurrentConsistent
    NoBug
    BudgetLeft
    SemCountsAgree
    NoThreadLost
PROPERTIES
    QueuesFifo
