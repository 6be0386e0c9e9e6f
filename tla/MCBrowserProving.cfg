SPECIFICATION FairSpec
CONSTANTS
    Sources <- MCSources
    MaxEdits = 1
    MaxCeremonies = 2
    MaxLaunches = 3
    MaxKills = 1
    None = None
    Absent = Absent
    Corrupt = Corrupt
INVARIANTS
    FetchReportTrue
    GateReportTrue
    SuiteReportTrue
    PublicManifestTrue
    AnswerVerifies
CHECK_DEADLOCK FALSE
PROPERTY
    TestsEnd
