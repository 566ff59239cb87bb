SPECIFICATION TxSpec
CONSTANTS
    Wrap = 256
    StartDelay = 1
    MarginDelay = 1
    JitDelay = 5
    MaxAdvance = 18
    BeaconGuard = 3
    BeaconReserved = 2
    Airtimes = {1, 2}
    QueueMax = 2
    Offered <- Scheduled
    ServerOffsets <- WellAhead
    BeaconOffsets <- NextPeriods
    MaxDownLag = 1
    PeekPeriod = 1
    MaxPeekGap = 2
VIEW RelativeTx
INVARIANTS NoneSkipped
PROPERTIES RadiatedWhole
