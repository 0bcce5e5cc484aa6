SPECIFICATION Spec
CONSTANTS
  Sockets = {k1}
  Fds = {f1}
  States = {d1}
  Threads = {t1}
  ReactorOps = {o1, o2, o3}
  Null = Null
  Kinds <- RecvOnly
  MaxAvail = 2
  Ends = TRUE
  Calls = {}
SYMMETRY Symmetry
INVARIANTS ReadyIsPerformed
CHECK_DEADLOCK FALSE
