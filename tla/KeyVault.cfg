SPECIFICATION Spec
CONSTANTS
  Tabs = {t1, t2}
  Accounts = {ann, ben}
  Mfa = {ben}
  Keyless = {ann}
  MaxEvents = 6
  MaxOps = 2
  None = None
CHECK_DEADLOCK FALSE
INVARIANTS UnlockedIsStored IdleArmed
