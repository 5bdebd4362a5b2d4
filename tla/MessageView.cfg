SPECIFICATION Spec
CONSTANTS
  Messages = {1, 2}
  Mails <- MCMails
  Envelope <- MCEnvelope
  Addresses = {"me", "ann", "bob"}
  Keys = {"kMe", "kAnn", "kBob"}
  Self = {"me"}
  LocalKey <- MCLocalKey
  Directory <- MCDirectory
  BACKGROUND_RECOVERY_CONCURRENCY = 1
  MaxMimeDepth = 2
  MaxEvents = 2
  None = None
CHECK_DEADLOCK FALSE
INVARIANTS BestTextShown CacheIsOwn 
 
