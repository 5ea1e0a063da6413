\* The query of the stored versions may fail; the registry may drop versions.
CONSTANTS
  Requests   = {r1, r2}
  Providers  = {p1}
  Versions   = {a}
  QueueCap   = 1
  ListFaults = TRUE
  NULL       = NULL

SPECIFICATION Spec

PROPERTY ListedStaysListed
