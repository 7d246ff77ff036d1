CONSTANTS
  MaxTokens = 3
  Tabs = {b1, b2}
  Slots = {s1, s2}
SPECIFICATION MCSpec
INVARIANT
  JarNeverUsed
PROPERTIES
  LogoutEndsSession
  PasswordChangeEndsOthers
  PasswordChangeKeepsThis
CHECK_DEADLOCK FALSE
