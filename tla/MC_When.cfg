CONSTANTS
    Results = {1, 2}
    MaxCalls = 2
SPECIFICATION WhenSpec
INVARIANTS
    WhenInv
PROPERTIES
    ResumesOnlyTheSuspended
    RegisteredInputResumes
    WhenAllEnds
CHECK_DEADLOCK FALSE
