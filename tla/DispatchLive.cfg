CONSTANTS
  a = a
  b = b
  w1 = w1
  w2 = w2
  Servers = {a}
  Workers = {w1, w2}
  Home <- OneServer
  Tasks = {t1, t2}
  States = {s0}
  EmptyState = s0
  NULL = NULL
  Outcomes = {"waiting", "completed"}
  NewStates = {NULL}
  MayHappen = {"listener", "shutdown"}
  HeartbeatsKeepUp = TRUE
  MaxKids = 1
  MaxNotify = 1
SPECIFICATION FairSpec
INVARIANTS OneToken RunningIsOwned
PROPERTIES PendingIsClaimed ShutdownCompletes
CHECK_DEADLOCK FALSE
