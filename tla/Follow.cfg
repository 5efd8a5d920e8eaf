SPECIFICATION FollowSpec
CONSTANTS
    first = first
    second = second
    other = other
    librarian = librarian
    stranger = stranger
    stand = stand
    fast = fast
    NoTrack = NoTrack
    Tracks <- MCTracks
    People <- MCPeople
    Owner <- MCOwner
    Velocity <- MCVelocity
    Zero = stand
    StableFrames = 2
    ConfirmFrames = 3
    MaxFeatures = 2
    Registration = 1
    Pause = 2
    MaxMixups = 1
    TargetTimeout = 2
    CmdTimeout = 2
INVARIANTS BriefMistakeLeavesNoTrace BlindDriveIsBounded
PROPERTY SwitchIsConfirmed
