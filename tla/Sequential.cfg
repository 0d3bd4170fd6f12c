SPECIFICATION SequentialSpec
CONSTANTS
    Object = {o1, o2, o3}
    Counted = {o2, o3}
    Local = {x, y}
    Nobody = Nobody
    PointerSize = 2
    SizeRange = 256
    NewAlign = 4
    Memory = 30
    Hints = {0, 20}
    Scratches <- MCScratches
    Allocations <- MCAllocations
    MaxObjects = 3
    Block = {b1, b2, b3}
    Null = Null
    FirstCapacity = 2
    MaxSize = 3
    MaxSerial = 4
    OneOfs = {u, v}
    Maybes = {p, q}
    Variants = {1, 2}
    MaxDepth = 5
    MaxFaults = 3
    FileSize = 7
    InputSize = 3
    OutputSize = 2
    MaxRequest = 7
    SourceSize = 5
    TargetSize = 4
    Width = 2
    Verbose <- MCVerbose
    Version <- MCVersion
    HelpName <- MCHelpName
    Candidates <- MCCandidates
    Specs <- MCSpecs
    Texts <- MCTexts
    ArgKeepsCallback = TRUE
    Many = 100
    MaxText = 3
    MaxCalls = 3
    MaxArguments = 4
INVARIANTS
    OwnedOnce
    ArenaIsSound
    ElementsAreKept
    TagTellsTheValue
    TreeSaysThePieces
    ExceptionsAreTold
    NamesTheArguments
    CopiedInOrder
    Distributed
    ExitCodeTells
    HelpIsComplete
CHECK_DEADLOCK FALSE
