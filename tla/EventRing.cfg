CONSTANTS
    stand = stand
    slow = slow
    fast = fast
    Velocity <- MCVelocity
    Zero = stand
    QueueSize = 3
SPECIFICATION Spec
PROPERTIES ImplementsQueue
