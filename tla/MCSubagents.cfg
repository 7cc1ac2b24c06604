SPECIFICATION Spec
CONSTANTS
    MaxAgents = 2
    ActiveLimit = 1
    CorrectionLimit = 1
    Lingering = FALSE
INVARIANTS   OneWorker NothingRunsAfterStop
 
