\* Two requests for one provider, a channel of two messages; the stored
\* versions can always be read.
CONSTANTS
  Requests   = {r1, r2}
  Providers  = {p1}
  Versions   = {a}
  QueueCap   = 2
  ListFaults = FALSE
  NULL       = NULL

SPECIFICATION FairSpec

PROPERTIES
  ListedStaysListed
  ImplementsService
  MirroredAnswered
  EveryRequestAnswered
  CancelStops
