SPECIFICATION CheckSpec
CONSTANTS
    o1 = o1
    o2 = o2
    o3 = o3
    Data = {o1, o2, o3}
    Owners = {o1, o2, o3}
    Locks = {100}
    OwnerOf <- OneEach
    LockOf <- OneLock
    ThreadOf <- OneEach
    MayRequest <- TypesUsed
    MaxWriteLockCount = 0
    HasCheckStatus = TRUE
    AllowMultipleInsert = TRUE
    UpgradedInsert = 12
    UpgradeTo = 12
    MaxKilled = 1
    Abortable = {100}
SYMMETRY AnyOwner
INVARIANTS ListsAgree HoldersHold Compatible ReadersNotStranded GrantedIsWoken
PROPERTIES QueuesInOrder
