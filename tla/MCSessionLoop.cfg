SPECIFICATION FairSpec
CONSTANTS
    CommandCapacity = 2
    EventCapacity = 1
    CorrectionCapacity = 1
    MaxDrafts = 2
    MaxCancels = 2
INVARIANTS DraftHasOneOwner BusyTracksTurns CorrectionsApply
PROPERTIES Responsive
CHECK_DEADLOCK FALSE
