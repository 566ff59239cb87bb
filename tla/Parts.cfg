SPECIFICATION Spec
CONSTANTS
    Bits = 3
    Size = 2
    Chunk = 1
    MaxFaults = 1
    Radios = {0}
    RegisterMap <- McFields
    Values <- McValues
    Turn = 17
    Second = 2
    Depth = 3
    Outage = 1
    Stall = 1
    Wait = 2
    NbChan = 2
    Chains = {0, 1}
    MaxErrors = 1
    Packets <- McPackets
    Channels <- McChannels
    Powers <- McPowers
    Radioed <- McRadioed
    Plans <- McPlans
    Metadata <- McMetadata
    Tunings <- McTunings
    Leftovers <- McLeftovers
    MaxFailures = 2
    Batches <- McBatches
    CounterTurn = 16
    Apart = 1
VIEW Relative
INVARIANTS BusSound MergedOnce ParametersAgree SetUpSound FramesRecovered FineIsTrue Sx1261Shared
PROPERTY NoScanOverDownlink
CHECK_DEADLOCK FALSE
