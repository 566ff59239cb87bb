SPECIFICATION TxSpec
CONSTANTS
    Wrap = 256
    StartDelay = 1
    MarginDelay = 1
    JitDelay = 5
    MaxAdvance = 14
    BeaconGuard = 3
    BeaconReserved = 2
    Airtimes = {2}
    QueueMax = 2
    Offered <- DownlinksOnly
    ServerOffsets <- ServerWindow
    BeaconOffsets <- NextPeriods
    MaxDownLag = 1
    PeekPeriod = 1
    MaxPeekGap = 2
VIEW RelativeTx
INVARIANTS TriggerAhead
