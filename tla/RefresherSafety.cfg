\* Two requests for two providers, a channel of one message, a version listed
\* with platforms or without, failing queries.
CONSTANTS
  Requests   = {r1, r2}
  Providers  = {p1, p2}
  Versions   = {a}
  QueueCap   = 1
  ListFaults = TRUE
  NULL       = NULL

SPECIFICATION Spec
SYMMETRY Symmetry

INVARIANTS
  TypeOK
  WaiterHasOneSender
  AnswerIsStored
  HeldBackOnlyIfKnown
