CONSTANTS
    stand = stand
    fast = fast
    Velocity <- MCVelocity
    Zero = stand
    QueueSize = 2
    Timeout = 1
    RxSize = 1
    MaxArrivals = 3
    Cause = {left, right}
SPECIFICATION Spec
INVARIANT RestartNeedsNewCommand
