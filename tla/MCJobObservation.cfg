\* Both ways to observe a job, against a job that may never end.
\* The call settles and the job ends: the system really stops.
SPECIFICATION ObservationFairSpec
CHECK_DEADLOCK FALSE
CONSTANT MaxPolls = 3
INVARIANTS
  SuccessIsReal
  VerdictsAreFinal
PROPERTIES
  ReadsAreBounded
  ObservationEnds
