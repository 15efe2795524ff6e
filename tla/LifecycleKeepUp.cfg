CONSTANTS
  Tasks = {t1, t2}
  Workers = {w1, w2}
  States = {s0, s1}
  EmptyState = s0
  NULL = NULL
  HeartbeatsKeepUp = TRUE
  JoinHandlers = FALSE
  Cancellable = {t1, t2}
  MaxKids = 1
SPECIFICATION Spec
SYMMETRY Symmetry
INVARIANTS OneWorkerPerTask WorkerOwnsTask InputIsCurrent
PROPERTIES TerminalIsFinal
