SPECIFICATION StoreSpec
CONSTANTS
    Procs = {p1, p2}
    NoProc = NoProc
    MaxVersion = 4
    MaxDamage = 2
SYMMETRY Symmetry
INVARIANTS AcknowledgedSurvives
PROPERTIES NoLostUpdate
