SPECIFICATION SettingsSpec
CONSTANTS
    Saves = {save1, save2}
    Others = {other1}
    Initially = initially
    NoOne = NoOne
    NoPlan = NoPlan
    MaxControl = 2
SYMMETRY Symmetry
INVARIANTS WorkSeesSaved FailureMeansUnpublished
PROPERTIES NoLostSettings InspectedPublication
