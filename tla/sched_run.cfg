SPECIFICATION MCSpec
CONSTANTS
  Threads = {t1, t2, t3}
  Handlers = {h1, h2}
  Descriptors = {d1}
  Task = Task
  None = None
  OneThread = {TRUE, FALSE}
  Api <- RunOnly
  MaxGuards = 1
SYMMETRY Symmetry
INVARIANTS TypeOK TaskToken DescriptorsDequeued NoLostWakeup WorkBalance ExactlyOnce
CHECK_DEADLOCK FALSE
