CONSTANTS
    PLAT_CPU_NUM = 2
    DEFAULT_BUDGET = 1
    User = {u1, u2}
    Root = u1
    Shadow = {}
    AffArg <- MCAffArg
    NULL = NULL
    i0 = i0
    i1 = i1
    idle_threads <- MCIdle
    Sem = {s1}
    MaxSemCount = 1
SPECIFICATION SemSpec
INVARIANTS
    ReadyOnACpu
