CONSTANTS
    CPU = {0, 1}
    TicketMod = 3
SPECIFICATION EntrySpec
INVARIANTS
    EntryTypeOK
    MutualExclusion
    HandlersHoldLock
    NothingHeldOutside
    UnlockFindsLocked
    AllActiveBeforeRoot
PROPERTIES
    BootCompletes
    
