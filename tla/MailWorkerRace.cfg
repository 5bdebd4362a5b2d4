SPECIFICATION Spec
CONSTANTS
  Rows = {r1}
  Workers = {w1, w2}
  Domains = {d1, d2}
  None = None
  BatchSize = 1
  MaxHosts = 1
  LeaseBound = 2
INVARIANTS SentMeansDelivered LeaseExclusive OneCopyPerLease QueuedIsReadable
PROPERTIES CopyStoredOnce ImplementsContract
