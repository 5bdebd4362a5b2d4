SPECIFICATION Spec
CONSTANTS
  u1 = u1
  u2 = u2
  f1 = f1
  f2 = f2
  s1 = s1
  s2 = s2
  owner_only = owner_only
  allowlist = allowlist
  None = None
CHECK_DEADLOCK FALSE
INVARIANTS  OneWinner 
