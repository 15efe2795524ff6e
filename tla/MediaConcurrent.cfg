CONSTANTS
  Cards = {c1}
  Kinds = {}
  Media = {m1}
  Sets = {s1, s2}
  Names = {"", "a"}
  KindNames = {""}
  EmptyName = ""
  Lower <- LowerNames
  Clients = {p, q}
  MaxPatches = 2
  MaxPatchRequests = 2
  NULL = NULL
SPECIFICATION Spec
SYMMETRY Symmetry
INVARIANTS TypeOK LinksComplete
PROPERTY ClearedByOwnSet
CHECK_DEADLOCK FALSE
