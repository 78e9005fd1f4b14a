SPECIFICATION FairSpec
CONSTANTS
    Bpms = {60, 90}
    StillSamples = 2
    CalmMin = 2
    Holdoff = 2
    AgreePct = 50
    MaxDelta = 25
    Resync = 2
    BaseMin = 2
    StaleWin = 3
    SlackBpm = 3
    SlackPct = 5
    Limit = 12
INVARIANTS
    ValidOnlySettled
    BaselineInBand
    ChangeNeedsBaseline
    TrendNeedsCalm
PROPERTIES
    JumpNeedsResync
    GuardLetsThrough
