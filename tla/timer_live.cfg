SPECIFICATION FairSpec
CONSTANTS
  Timers = {a, b}
  Services = {s1}
  WaitOps = {o1, o2}
  Nil = Nil
  Off = Off
  MaxTime = 2
  MaxWait = 1
  HasTimerfd = {TRUE, FALSE}
  Moves = FALSE
  Shuts = FALSE
INVARIANTS NotOverslept
PROPERTIES WaitEnds NeverEarly NoBusyTimer
CHECK_DEADLOCK FALSE
