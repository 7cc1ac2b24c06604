SPECIFICATION MCSpec
CONSTANTS
    e1 = e1
    e2 = e2
    e3 = e3
    Events = {e1, e2, e3}
    MaxEpoch = 2
    c1 = c1
    c2 = c2
    c3 = c3
    r1 = r1
    r2 = r2
    Candidates = {c1, c2, c3}
    ReadSets = {r1, r2}
    HandlerPlans <- PlansDef
    MaxRewrites = 2
    MaxEdits = 1
SYMMETRY EventsSym
CHECK_DEADLOCK FALSE
INVARIANT EffectIsApproved
 
