SPECIFICATION Spec
CONSTANTS
  Addresses = {"ann", "bob"}
  Keys = {"kAnn", "kPasted"}
  Directory <- MCDirectory
  KnownKeys <- MCKnownKeys
  PastedKey = "kPasted"
  Passwords = {"long", "short"}
  TooShort = {"short"}
  MaxDrafts = 2
  MaxEvents = 2
  MaxLookups = 2
  None = None
CHECK_DEADLOCK FALSE
INVARIANTS KeyMatchesMeta SettledKeyIsUsed OneSend
