\* One connection that its client keeps open.
CONSTANTS
  Connections = {c1}
  Streams     = {s1}
  NULL        = NULL

SPECIFICATION FairSpec
CHECK_DEADLOCK FALSE

PROPERTY ExitsWhenRequestsDone
