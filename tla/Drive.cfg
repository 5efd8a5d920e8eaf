CONSTANTS
    stand = stand
    fast = fast
    Velocity <- MCVelocity
    Zero = stand
    QueueSize = 2
    Timeout = 1
    RxSize = 1
    MaxArrivals = 1
    CmdTimeout = 1
    Cause = {left, right, both}
SPECIFICATION DriveSpec
INVARIANTS SilenceStandsStill StallIsShown
SYMMETRY CauseSymmetry
