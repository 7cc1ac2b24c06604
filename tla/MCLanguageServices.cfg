CONSTANTS
    NumFiles = 2
    MaxEdits = 2
    MaxQueries = 2
    MaxReports = 2
SPECIFICATION FairSpec
INVARIANTS ResultIsCurrent ReportIsOfItsText
PROPERTY StalePeersStop
CHECK_DEADLOCK FALSE
