CONSTANTS
    MaxMoves = 2
    MaxGoals = 2
    MaxUnanswered = 2
    MaxRequests = 2
    MaxCommands = 3
    MaxOutages = 1
    MaxResults = 2
SPECIFICATION MissionSpec
INVARIANTS MissionTypeOK DriveHasSession StatusHasSession CancelReachesCart StatusReachesBackend
CHECK_DEADLOCK FALSE
