\* Two confirmations of one ticket at a time, and no failure.
CONSTANTS
  Requests = {r1, r2, r3}
  None = None
  Users <- MCUsers
  Messages <- MCMessages
  Extractions <- MCExtractions
  Edits <- MCEdits
  EnumThreshold = 75
  MaxAttempts = 2
  SerialClients = FALSE
  Faults = {}
  MaxFaults = 0
  MaxClock = 0
  MinDistinctUsers = 2
  SimilarityThreshold = 50
  MaxCandidates = 2
  WindowTicks = 0
  RetentionTicks = 3
  Locations <- MCLocations
SPECIFICATION Spec
SYMMETRY Symmetry
INVARIANT
  NoDuplicateTicket
\* Every request may have been answered.
CHECK_DEADLOCK FALSE
