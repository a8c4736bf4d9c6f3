SPECIFICATION Spec
CONSTANTS
    o1 = o1
    o2 = o2
    o3 = o3
    Data <- CursorData
    Owners = {o1, o2, o3}
    Locks = {100}
    OwnerOf <- FirstOf
    LockOf <- OneLock
    ThreadOf <- CursorThread
    MayRequest <- CursorTypes
    MaxWriteLockCount = 0
    HasCheckStatus = TRUE
    AllowMultipleInsert = FALSE
    UpgradedInsert = 12
    UpgradeTo = 12
    MaxKilled = 1
    Abortable = {100}
INVARIANTS HoldersHold FreeLockServes UpgradedHasNoWaiters
