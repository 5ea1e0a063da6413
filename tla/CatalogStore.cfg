\* Two refreshers, two providers and two tuples, four row ids.
CONSTANTS
  Writers   = {w1, w2}
  Providers = {p1, p2}
  a         = a
  b         = b
  Tuples    = {a, b}
  Responses <- MCResponses
  MaxRowId  = 4
  NULL      = NULL

SPECIFICATION FairSpec

INVARIANTS
  TypeOK
  RowIdsUnique
  InsertsNeverWait
  CommitStoresAll

PROPERTIES
  ImplementsCatalog
  StoreEnds
