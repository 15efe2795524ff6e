CONSTANTS
  Tasks = {t1, t2}
  Workers = {w1, w2}
  States = {s0}
  EmptyState = s0
  NULL = NULL
  HeartbeatsKeepUp = TRUE
  JoinHandlers = FALSE
  Cancellable = {}
  MaxKids = 0
  Inbox = {i1, i2}
  Discs = {d1, d2, d3}
  Forms = {"relative", "absolute"}
  Crashes = TRUE
SPECIFICATION IngestSpec
SYMMETRY Symmetry
INVARIANTS IngestTypeOK DoneIsMoved
PROPERTIES DiscsSurvive
CHECK_DEADLOCK FALSE
