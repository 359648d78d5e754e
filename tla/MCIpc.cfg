CONSTANTS
    PLAT_CPU_NUM = 2
    DEFAULT_BUDGET = 2
    h1 = h1
    h2 = h2
    n1 = n1
    n2 = n2
    i0 = i0
    i1 = i1
    NULL = NULL
    User = {u1, u2}
    Root = u1
    Shadow = {h1}
    Sem = {s1}
    Conn = {n1}
    AffArg <- MCAffArg
    NullCalls = {}
    MaxSemCount = 1
    CapCalls = {FALSE}
    idle_threads <- MCIdle
    target <- MCTarget
    clients <- MCClients
SPECIFICATION IpcSpec
INVARIANTS
    IpcTypeOK
    QueuesConsistent
    CurrentConsistent
    NoBug
    NoThreadLostIpc
    CallerSuspended
    OneThreadPerContext
