SPECIFICATION FairSpec
CONSTANTS
    Wrap = 34
    StartDelay = 1
    MarginDelay = 1
    JitDelay = 3
    MaxAdvance = 7
    BeaconGuard = 3
    BeaconReserved = 2
    Airtimes = {2}
    QueueMax = 2
    Offered <- ClassesAAndC
    ServerOffsets <- ServerWindow
    BeaconOffsets <- NextPeriods
    MaxDownLag = 1
    PeekPeriod = 1
    MaxPeekGap = 4
INVARIANTS NoOverlap
PROPERTIES QueuedLeaves

