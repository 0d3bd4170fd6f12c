SPECIFICATION FairSpec
CONSTANTS
    None = None
    AlreadyReady = AlreadyReady
    Hub = Hub
    HeadSlot = HeadSlot
    MaxBranches = 3
INVARIANTS
    HubIsSound
    FiredInOrder
PROPERTIES
    ImplementsFork
    BranchesResolve
CHECK_DEADLOCK FALSE
