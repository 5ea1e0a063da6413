\* A minimum of three bytes and chunks of at most four: bodies that are empty,
\* smaller than a part, exact multiples of the minimum, of two and three parts,
\* and too long for three part numbers.
CONSTANTS
  Sizes     = {0, 1, 3, 6, 8, 9, 10, 13}
  MaxChunk  = 4
  Minimum   = 3
  S3Minimum = 2
  MaxParts  = 3
  NULL      = NULL

SPECIFICATION Spec

\* A call that is done or has failed takes no further step.
CHECK_DEADLOCK FALSE

INVARIANTS
  TypeOK
  ObjectIsBody
  CompletionAccepted
  BufferBounded
