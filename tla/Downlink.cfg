SPECIFICATION FairSpec
CONSTANTS
    Chains <- TwoChains
    TxEnabled <- FirstChain
    FreqMin <- LowFreq
    FreqMax <- HighFreq
    Lut <- Gains
    AntennaGain = 0
    Tokens = {t1, t2}
    Requests <- Samples
    Gps = "unlocked"
    QueueSize = 1
    AutoquitThreshold = 2
    MaxResponses = 2
    MaxInFlight = 1
    MaxReports = 1
INVARIANTS AnswersTrue DownlinksAddUp QuitOnlyInSilence
PROPERTIES QuitsInSilence
CHECK_DEADLOCK FALSE
