CONSTANTS
  Messages = {m1}
  Actors = {a1, a2}
  Sweeper = sweeper
  Requests = {"ingest", "patch", "delete", "permanent"}
  Sources = {"IngestExternal"}
  Targets = {"archive", "trash"}
  Retained = {"trash"}
  SweepLimit = 1
  MaxMoves = 2
  FaultKinds = {"unread", "refused", "applied", "crash"}
  MaxFaults = 2
SPECIFICATION PairsSpec
SYMMETRY Symmetric
CHECK_DEADLOCK FALSE
INVARIANTS AckedHasBody MovedIsListed
