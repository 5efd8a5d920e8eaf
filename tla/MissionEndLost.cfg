CONSTANTS
    MaxMoves = 2
    MaxGoals = 2
    MaxUnanswered = 1
    MaxRequests = 2
    MaxCommands = 3
    MaxOutages = 1
    MaxResults = 2
SPECIFICATION MissionSpec
INVARIANT EndsAreDelivered
CHECK_DEADLOCK FALSE
