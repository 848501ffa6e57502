CONSTANTS
    Results = {1, 2}
    MaxCalls = 1
SPECIFICATION WhenSpec
PROPERTY ReadyWhenOneCompletes
CHECK_DEADLOCK FALSE
