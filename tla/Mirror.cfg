\* One client, three rows of one provider, one of them a platform whose name
\* begins like the other; ticks of 20 seconds.
SPECIFICATION Spec
CONSTANTS
  Clients = {c1}
  Providers = {p1}
  Words <- MCWords
  Tuples <- MCTuples
  Ids = {i1, i2, i3}
  Keys = {k1, k2}
  MaxAge = 3
  Expiry = 6
  Transit = 1
  NULL = NULL
SYMMETRY Symmetry
INVARIANTS TypeOK NeverStuck OwnPackage
