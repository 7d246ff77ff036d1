\* Three tokens in up to three families and three overlapping requests, with
\* rollbacks; three overlapping requests on one artifact, three texts and
\* five versions.  A deleted artifact, or a user whose tokens are used up,
\* admits no further step: no deadlock check.
CONSTANTS
  MaxTokens = 3
  Requests = {r1, r2, r3}
  Contents = {c1, c2, c3}
  Blank = Blank
  MaxVersions = 5
  Editors = {r1, r2, r3}
SPECIFICATION TableSpec
SYMMETRY EditorSymmetry
INVARIANTS
  OneLiveToken
  RotationChain
  NumbersNeverCollide
PROPERTIES
  IsTokenFamilies
  IsADocument
CHECK_DEADLOCK FALSE
