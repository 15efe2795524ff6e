CONSTANTS
  a = a
  b = b
  w1 = w1
  w2 = w2
  Servers = {a, b}
  Workers = {w1, w2}
  Home <- TwoServers
  Tasks = {t1}
  States = {s0}
  EmptyState = s0
  NULL = NULL
  Outcomes = {"pending", "waiting", "completed", "failed", "invalid"}
  NewStates = {NULL, s0}
  MayHappen = {"crash", "database", "lease", "resume"}
  HeartbeatsKeepUp = FALSE
  MaxKids = 1
  MaxNotify = 1
SPECIFICATION Spec
INVARIANTS TypeOK NoLostWakeup
PROPERTIES ImplementsLifecycle
CHECK_DEADLOCK FALSE
