SPECIFICATION FairSpec
CONSTANTS
  Threads = {t1, t2}
  Handlers = {h1, h2}
  Descriptors = {}
  Task = Task
  None = None
  OneThread = {FALSE}
  Api <- RunOneDefer
  MaxGuards = 0
PROPERTIES QueuedIsInvoked
CHECK_DEADLOCK FALSE
