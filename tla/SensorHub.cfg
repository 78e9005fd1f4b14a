SPECIFICATION FairSpec
CONSTANTS
    Sensors <- MCSensors
    RetryMax = 3
    Levels <- MCLevels
    LinkTexts <- MCLinkTexts
    DisplayFaults = TRUE
INVARIANTS
    TypeOK
    RetryWhileMissing
    LatchIsTrue
    InitFailShown
    
PROPERTIES
    VerifyEnds
