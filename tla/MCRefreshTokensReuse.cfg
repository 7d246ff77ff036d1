\* A used token presented again: its family should be revoked.
CONSTANTS
  MaxTokens = 3
  Requests = {r1, r2}
SPECIFICATION Spec
SYMMETRY RequestSymmetry
INVARIANT ReuseRevokesFamily
CHECK_DEADLOCK FALSE
