\* Two concurrent calls, for one version or for two, three artifact ids.
CONSTANTS
  Requests      = {r1, r2}
  Versions      = {v1, v2}
  Builds        = {b1, b2}
  Parts         = 1
  MaxArtifactId = 3
  NULL          = NULL
  ABSENT        = ABSENT

SPECIFICATION Spec
SYMMETRY Symmetry

INVARIANTS
  TypeOK
  BoundObjectComplete
  RedirectResolves
  DownloadsApart
  CachedVersionNotRefetched

PROPERTIES
  ObjectsImmutable
  ImplementsStore
