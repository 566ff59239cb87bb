\* doc/user_guide.md:34 on the Wi-Fi link that is lost after the forwarder has worked.
CONSTANTS
    MaxRetry = 1
    MaxTouches = 1
SPECIFICATION FairSpec
PROPERTIES LossReturns
