\* Three interventions of the user or power cuts, two attempts in a row to connect.
CONSTANTS
    MaxRetry = 1
    MaxTouches = 3
SPECIFICATION FairSpec
INVARIANTS SavedWhenQuiet UnservedReturns ServingKept
PROPERTY LeftAlone
