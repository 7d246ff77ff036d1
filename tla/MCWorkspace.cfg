\* Members: three users on at most three membership rows, two requests.
\* Invitations: two users, one membership request and two invitation requests
\* at a time; one invitation with two links, and rows for a member to leave
\* and rejoin.
CONSTANTS
  Users = {u1, u2, u3}
  MaxRows = 3
  Requests = {r1, r2}
  MaxInvitations = 1
  MaxTokens = 2
  Handlers = {h1, h2}
SPECIFICATION WorkspaceSpec
SYMMETRY WorkspaceSymmetry
INVARIANTS
  OwnerRemainsAlone
  SingleUse
PROPERTIES
  JoinsByCurrentLink
  OwnersComeFromOwnersOrInvitations
CHECK_DEADLOCK FALSE
