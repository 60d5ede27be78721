CONSTANTS
    c1 = c1
    c2 = c2
    c3 = c3
    Caller <- MCCaller
    Threshold = 2
SPECIFICATION FairSpec
INVARIANT TypeOK
PROPERTIES
    HealedRecovers
    OutageTrips
