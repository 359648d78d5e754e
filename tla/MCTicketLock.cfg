CONSTANTS
    CPU = {c1, c2, c3}
    TicketMod = 4
SPECIFICATION LockSpec
INVARIANTS
    LockTypeOK
    MutualExclusion
    HolderSeesLocked
    TicketsInv
PROPERTIES
    EveryRequestServed
    RefinesFifo
