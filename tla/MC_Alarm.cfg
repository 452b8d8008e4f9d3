SPECIFICATION Spec
CONSTANTS
  Alarms = {"a", "b"}
  Wrap = 6
  Nticks = {0, 1, 4}
  Periods = {0, 1, 5}
  StopsOthers = TRUE
CHECK_DEADLOCK FALSE
INVARIANT StoppedIsGone
