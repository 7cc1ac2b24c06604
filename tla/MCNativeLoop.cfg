SPECIFICATION Spec
CONSTANTS
    c1 = c1
    c2 = c2
    c3 = c3
    ordinary = ordinary
    rewake = rewake
    startup = startup
    Calls = {c1, c2}
    Ordinary = {ordinary}
    Rewakes = {rewake}
    Startups = {startup}
    AutoLength = 5
    MaxPrompts = 3
    MaxContexts = 1
    MaxCrashes = 1
SYMMETRY CallsSym
CHECK_DEADLOCK FALSE
INVARIANTS CallsAnswered ContextOnce LastWord
