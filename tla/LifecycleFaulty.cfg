CONSTANTS
  Tasks = {t1, t2}
  Workers = {w1, w2}
  States = {s0}
  EmptyState = s0
  NULL = NULL
  HeartbeatsKeepUp = FALSE
  JoinHandlers = FALSE
  Cancellable = {t1, t2}
  MaxKids = 1
SPECIFICATION Spec
SYMMETRY Symmetry
INVARIANTS TypeOK TableConsistent
PROPERTIES FailedIsFinal OnlyOwnerRenews
