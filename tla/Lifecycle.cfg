\* Two connections of two streams, so that of the requests of one connection one
\* can ask while another is being served, and the other connection can be idle.
CONSTANTS
  Connections = {c1, c2}
  Streams     = {s1, s2}
  NULL        = NULL

SPECIFICATION FairSpec

\* The process exits.
CHECK_DEADLOCK FALSE

INVARIANTS
  TypeOK
  ShutdownCutsNothing
  NoOneWaitsInVain

PROPERTIES
  RequestsAnswered
  ShutdownEnds
