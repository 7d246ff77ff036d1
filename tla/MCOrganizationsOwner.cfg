\* Two overlapping demotions or removals of owners.
CONSTANTS
  Users = {u1, u2}
  MaxRows = 2
  Requests = {r1, r2}
SPECIFICATION Spec
SYMMETRY OrgSymmetry
INVARIANT OwnerRemains
CHECK_DEADLOCK FALSE
