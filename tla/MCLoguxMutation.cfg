\* Each operation against any server; a settled call really stops.
SPECIFICATION LoguxFairSpec
CHECK_DEADLOCK FALSE
CONSTANT MaxSends = 2
INVARIANTS
    UnknownMeansSent
PROPERTIES
    OneMutation
    CallSettles
    ImplementsCall
