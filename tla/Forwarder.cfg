CONSTANTS
    MaxGoals = 4
    MaxUnanswered = 3
    MaxRequests = 3
SPECIFICATION FairSpec
INVARIANTS TypeOK CancelNotLost DrivingIsReported
PROPERTIES CancelStops
