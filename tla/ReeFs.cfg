SPECIFICATION Spec
CONSTANTS
  Clients = {c1, c2}
  Enumerators = {c2}
  Names = {a, b}
  Nil = Nil
  MaxFile = 1
  MaxRoot = 4
  OpenFlags <- MCOpenFlags
  CreateFlags <- MCCreateFlags
  Retry = FALSE
  FindMayFail = FALSE
INVARIANT StoreIntact
INVARIANT HandleMatchesStore
INVARIANT DirhRefsExact
PROPERTY RefinesStore
SYMMETRY MCSymmetry
