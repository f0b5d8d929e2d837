\* Three attempts, of which the deadline allows three; the call really stops.
SPECIFICATION BarrierFairSpec
CHECK_DEADLOCK FALSE
CONSTANTS
    MaxAttempts = 3
    Interval = 2
    Deadline = 6
    Horizon = 8
INVARIANTS
    ConfirmedMeansRenamed
    MachineFollowsLoop
    NeverGivesUpEarly
PROPERTIES
    ReadsStartInTime
    ConfirmationEnds
