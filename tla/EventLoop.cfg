SPECIFICATION LoopSpec
CONSTANTS
    Event = {e1, e2, e3}
    HeadSlot = HeadSlot
    Null = Null
    Unlimited = Unlimited
    TurnCounts = {1, Unlimited}
    MaxDepth = 2
INVARIANTS
    ListOK
    OnlyLiveQueued
    WorkIsAnnounced
PROPERTIES
    ImplementsQueue
    NoStarvation
