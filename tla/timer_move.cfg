SPECIFICATION Spec
CONSTANTS
  Timers = {a, b, c}
  Services = {s1, s2}
  WaitOps = {o1, o2}
  Nil = Nil
  Off = Off
  MaxTime = 1
  MaxWait = 1
  HasTimerfd = {TRUE}
  Moves = TRUE
  Shuts = TRUE
SYMMETRY Symmetry
INVARIANTS QueuesConsistent NoDanglingTimer WaitingOnce FlagCoversWaits
CHECK_DEADLOCK FALSE
