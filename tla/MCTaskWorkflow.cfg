SPECIFICATION Spec
CONSTANTS
    Digests = {d1, d2}
    NoDigest = NoDigest
    NoReview = NoReview
    NoTask = NoTask
    Checks = 1
    CorrectionLimit = 1
    HistoryLimit = 1
    ArchiveLimit = 1
    MaxGeneration = 1
SYMMETRY Symmetry
INVARIANTS AcceptedIsEvidenced ReviewMatchesChecks 
PROPERTIES AcceptanceIsQuiet
