SPECIFICATION Spec
CONSTANTS
    AtCount = 1
    ProvMax = 0
    ResetRetries = 1
    MissedMax = 2
    TooLongMax = 2
    ProbeMax = 1
    ReportLines = 2
    TxCap = 2
    RxCap = 1
INVARIANTS
    
    SetupNeverPayload
    OnlineExcludesRejoining
PROPERTIES
    OpenSessionReports
    ImplementsHelmetLink
