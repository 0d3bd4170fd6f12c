SPECIFICATION LoopSpec
CONSTANTS
    Event = {e1, e2}
    HeadSlot = HeadSlot
    Null = Null
    Unlimited = Unlimited
    TurnCounts = {1, Unlimited}
    MaxDepth = 3
INVARIANT
    WaitOnlyAtTheBottom
