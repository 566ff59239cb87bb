SPECIFICATION FairSpec
CONSTANTS
    RawMax = 2
    Wraps = 3
    MaxPkt = 2
    Arriving <- AnyKind
    ReadsFail = TRUE
    FifoMax = 3
    MaxArrivals = 4
INVARIANTS TimesTrue InOrder
PROPERTIES LostOnlyWithDamage
CHECK_DEADLOCK FALSE
