SPECIFICATION Spec
CONSTANTS
  Sockets = {k1, k2}
  Fds = {f1, f2}
  States = {d1, d2}
  Threads = {t1}
  ReactorOps = {o1}
  Null = Null
  Kinds <- RecvOnly
  MaxAvail = 1
  Ends = FALSE
  Calls <- AllCalls
SYMMETRY Symmetry
INVARIANTS ReadinessNotLost PoolSound NoDanglingRegistration NoStrandedOp
CHECK_DEADLOCK FALSE
