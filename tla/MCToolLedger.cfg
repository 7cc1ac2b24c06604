SPECIFICATION Spec
CONSTANTS
    Parent = parent
    Children = {child1}
    Calls = {call1}
    NoCall = NoCall
    ToolLimit = 1
    ModelLimit = 1
    RetireLimit = 1
    MaxOps = 3
    MaxEpoch = 2
    MaxReports = 1
INVARIANTS EffectsAreCharged UsageAccounted
PROPERTIES AtMostOnceKept UnknownStopsWork
