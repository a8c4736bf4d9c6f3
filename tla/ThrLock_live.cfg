SPECIFICATION FairSpec
CONSTANTS
    o1 = o1
    o2 = o2
    o3 = o3
    Data <- LiveData
    Owners = {o1, o2, o3}
    Locks = {100, 200}
    OwnerOf <- FirstOf
    LockOf <- SecondOf
    ThreadOf <- OneEach
    MayRequest <- LiveTypes
    MaxWriteLockCount = 0
    HasCheckStatus = TRUE
    AllowMultipleInsert = TRUE
    UpgradedInsert = 12
    UpgradeTo = 12
    MaxKilled = 1
    Abortable = {}
INVARIANTS HoldersHold
PROPERTIES LockingEnds
