\* A registry that lists a version without platforms; no query fails.
CONSTANTS
  Requests   = {r1, r2}
  Providers  = {p1}
  Versions   = {a}
  QueueCap   = 1
  ListFaults = FALSE
  NULL       = NULL

SPECIFICATION Spec

INVARIANT NewPathOnlyForNew
