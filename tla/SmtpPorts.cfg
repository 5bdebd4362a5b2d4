CONSTANTS
  Sessions = {s1}
  Mode = "mx"
  Recipients = {r1, r2}
  Local = {r1, r2}
  SubmissionRecipients = {r1}
  Messages = {m1, m2}
  TLSConfig = TRUE
  AllowPlainAuth = FALSE
  MaxRecipients = 2
  RateMax = 1
  MaxFaults = 1
SPECIFICATION PortsSpec
CHECK_DEADLOCK FALSE
INVARIANTS  AcceptedForAll
