CONSTANTS
  Tasks = {t1, t2}
  Workers = {w1, w2}
  States = {s0}
  EmptyState = s0
  NULL = NULL
  HeartbeatsKeepUp = TRUE
  JoinHandlers = TRUE
  Cancellable = {}
  MaxKids = 1
SPECIFICATION Spec
SYMMETRY Symmetry
INVARIANTS WaitingParentHasLiveChild
CHECK_DEADLOCK FALSE
