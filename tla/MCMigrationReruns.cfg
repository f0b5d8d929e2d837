\* Launches, deaths and reruns; when everything is decided nothing moves.
SPECIFICATION RerunSpec
CHECK_DEADLOCK FALSE
CONSTANTS
    MaxProjects = 4
    MaxSuffix = 1
    MaxClock = 1
    MaxLaunches = 4
INVARIANTS
    ImportsAreIntended
    ConfirmedNamesAreUnique
    ArchivedStaysArchived
