\* The whole state space of the reducer under arbitrary events.
\* A terminal state accepts nothing more: the reducer really stops there.
SPECIFICATION ReducerSpec
CHECK_DEADLOCK FALSE
INVARIANTS
  ContextComplete
  SettlesWhenTerminal
PROPERTY
  StageOrder
