SPECIFICATION Spec
CONSTANTS
    Wrap = 256
    StartDelay = 1
    MarginDelay = 1
    JitDelay = 3
    MaxAdvance = 11
    BeaconGuard = 3
    BeaconReserved = 2
    Airtimes = {2}
    QueueMax = 3
    Offered <- DownlinksOnly
    ServerOffsets <- ServerWindow
    BeaconOffsets <- NextPeriods
    MaxDownLag = 9
    PeekPeriod = 1
    MaxPeekGap = 6
VIEW Relative
INVARIANTS DepartureOrder ClassCNeverCollides PeekedStillDue

