SPECIFICATION FairSpec
CONSTANTS
    Forward <- ValidOnly
    Kinds <- Samples
    Tokens = {t1, t2}
    MaxFetch = 2
    MaxPackets = 2
    MaxReports = 2
INVARIANTS PacketsInOrder ReportsOnce CountersKept
PROPERTIES EverybodyGoesOn
CHECK_DEADLOCK FALSE
