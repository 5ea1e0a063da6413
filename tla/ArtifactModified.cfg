\* Two first downloads of one version.
CONSTANTS
  Requests      = {r1, r2}
  Versions      = {v1}
  Builds        = {b1, b2}
  Parts         = 1
  MaxArtifactId = 2
  NULL          = NULL
  ABSENT        = ABSENT

SPECIFICATION Spec

PROPERTY ArtifactNeverModified
