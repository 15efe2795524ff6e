CONSTANTS
  Tasks = {t1}
  Workers = {w1, w2}
  States = {s0}
  EmptyState = s0
  NULL = NULL
  HeartbeatsKeepUp = FALSE
  JoinHandlers = FALSE
  Cancellable = {t1}
  MaxKids = 0
  LeaseDuration = 8
  HeartbeatInterval = 2
  MaxDelay = 1
  MaxSkew = 1
  MaxMisses = 1
  Horizon = 12
SPECIFICATION TimedSpec
SYMMETRY Symmetry
INVARIANTS TimingTypeOK DeadLeaseEnds
PROPERTIES ImplementsKeepUp
CHECK_DEADLOCK FALSE
