SPECIFICATION Spec
CONSTANTS
    AtCount = 1
    ProvMax = 0
    ResetRetries = 1
    MissedMax = 1
    TooLongMax = 1
    ProbeMax = 1
    ReportLines = 1
    TxCap = 2
    RxCap = 1
INVARIANTS
    OnlineMeansReporting
