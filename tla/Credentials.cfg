\* Two handlers and one provider_get for one host, on each of the three stores.
CONSTANTS
  Callers        = {c1, c2, f1}
  Fetches        = {f1}
  Hosts          = {h1}
  Tokens         = {t1, t2}
  Helpers        = {"database", "memory", "faulty"}
  DiscoveryLimit = 1
  MetadataLimit  = 2
  MaxBody        = 3
  NULL           = NULL
  Unknown        = Unknown

SPECIFICATION FairSpec

INVARIANTS
  TypeOK
  AcknowledgedInForce
  ReadsInForce
  BodyReadWhole

PROPERTIES
  FetchEnds
