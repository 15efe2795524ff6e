CONSTANTS
  a = a
  b = b
  w1 = w1
  w2 = w2
  Servers = {a}
  Workers = {w1, w2}
  Home <- OneServer
  Tasks = {t1, t2, t3}
  States = {s0}
  EmptyState = s0
  NULL = NULL
  Outcomes = {"waiting", "completed"}
  NewStates = {NULL}
  MayHappen = {}
  HeartbeatsKeepUp = TRUE
  MaxKids = 2
  MaxNotify = 3
SPECIFICATION Spec
SYMMETRY Symmetry
INVARIANTS AnnouncedIsClaimed
CHECK_DEADLOCK FALSE
