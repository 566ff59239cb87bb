SPECIFICATION Spec
CONSTANTS
    Wrap = 256
    StartDelay = 1
    MarginDelay = 1
    JitDelay = 3
    MaxAdvance = 14
    BeaconGuard = 3
    BeaconReserved = 2
    Airtimes = {1, 2}
    QueueMax = 3
    Offered <- WithBeacons
    ServerOffsets <- ServerWindow
    BeaconOffsets <- NextPeriods
    MaxDownLag = 1
    PeekPeriod = 1
    MaxPeekGap = 2
VIEW Relative
INVARIANTS TypeOK NothingMissed
PROPERTIES AcceptedInFuture ImplementsSchedule

