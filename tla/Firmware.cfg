CONSTANTS
    stand = stand
    fast = fast
    Velocity <- MCVelocity
    Zero = stand
    QueueSize = 2
    Timeout = 1
    RxSize = 1
    MaxArrivals = 2
    Cause = {left, right}
SPECIFICATION FairSpec
INVARIANTS TypeOK StoppedMeansStill StallMeansStill TimeoutNotLost LastStopWins
PROPERTIES LatchedUntilReboot EmergencyUntilReboot ImplementsGuard StopServed SilenceStops
