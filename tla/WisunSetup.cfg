SPECIFICATION Spec
CONSTANTS
    AtCount = 2
    ProvMax = 1
    ResetRetries = 2
    MissedMax = 1
    TooLongMax = 1
    ProbeMax = 1
    ReportLines = 1
    TxCap = 2
    RxCap = 1
INVARIANTS
    DialogueNeverStalls
    QuietWhenOff
    AtOkMeansAllPassed
    ProbesFollowProvisioning
