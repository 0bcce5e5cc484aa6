SPECIFICATION LiveSpec
CONSTANTS
  Threads = {t1, t2}
  Handlers = {h1, h2}
  Descriptors = {d1}
  Task = Task
  None = None
  OneThread = {TRUE, FALSE}
  Api <- Live
  MaxGuards = 0
PROPERTIES QueuedIsInvoked StopReleasesAll RunReturnsWhenIdle
CHECK_DEADLOCK FALSE
