CONSTANTS
    native = native
    first = first
    second = second
    opus = opus
    sonnet = sonnet
    Models <- MCModels
    Native <- MCNative
    Claude <- MCClaude
    NoRoot = NoRoot
    MaxOps = 2
    MaxLives = 2
    Calls = {first, second}
    Adapters = {"native", "codex", "claude"}
    Limit = 1
    MaxSubmissions = 2
    MaxSteers = 1
    MaxDeaths = 1
SPECIFICATION MCSpec
INVARIANTS OneRoot HandoffOnce DeliveredBeforeWork CorrectionPaidOnce
PROPERTIES InstallsAsPromised TransitionEnds
CHECK_DEADLOCK FALSE
