CONSTANTS
  Cards = {c1, c2}
  Kinds = {k1, k2}
  Media = {}
  Sets = {}
  Names = {"", "A", "a", "B"}
  KindNames = {"", "a"}
  EmptyName = ""
  Lower <- LowerNames
  Clients = {p, q}
  MaxPatches = 1
  MaxPatchRequests = 2
  NULL = NULL
SPECIFICATION Spec
SYMMETRY Symmetry
INVARIANTS OneDetail EditionsComplete UniqueNames AtMostOneDefault
CHECK_DEADLOCK FALSE
