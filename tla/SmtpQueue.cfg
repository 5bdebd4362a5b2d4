CONSTANTS
  Sessions = {s1}
  Mode = "submission"
  Recipients = {r1, r2}
  Local = {r1, r2}
  Messages = {m1, m2}
  TLSConfig = TRUE
  AllowPlainAuth = FALSE
  MaxRecipients = 2
  RateMax = 1
  MaxFaults = 1
SPECIFICATION Spec
CHECK_DEADLOCK FALSE
INVARIANT AcceptedForAll
