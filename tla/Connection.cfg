SPECIFICATION LiveSpec
CONSTANTS
    r1 = r1
    r2 = r2
    Requests <- MCRequests
INVARIANTS ShownIsStored StatusIsSession DriveCanBeCancelled
PROPERTY SilenceShows
