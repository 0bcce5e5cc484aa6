SPECIFICATION Spec
CONSTANTS
  Sockets = {k1}
  Fds = {f1}
  States = {d1}
  Threads = {t1, t2}
  ReactorOps = {o1, o2, o3}
  Null = Null
  Kinds <- Competing
  MaxAvail = 2
  Ends = TRUE
  Calls = {}
SYMMETRY Symmetry
INVARIANTS ReadinessNotLost NoStrandedOp
PROPERTIES FirstComeFirstServed
CHECK_DEADLOCK FALSE
