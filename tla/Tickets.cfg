\* Two users, four requests of clients that wait for their answers, and one failure.
CONSTANTS
  Requests = {r1, r2, r3, r4}
  None = None
  Users <- MCUsers
  Messages <- MCMessages
  Extractions <- MCExtractions
  Edits <- MCEdits
  EnumThreshold = 75
  MaxAttempts = 2
  SerialClients = TRUE
  Faults = {"idemGet", "idemSet", "delete", "signal", "serverErr", "refused", "lostReply", "gone", "crash", "expire"}
  MaxFaults = 1
  MaxClock = 1
  MinDistinctUsers = 2
  SimilarityThreshold = 50
  MaxCandidates = 2
  WindowTicks = 0
  RetentionTicks = 3
  Locations <- MCLocations
SPECIFICATION Spec
SYMMETRY Symmetry
INVARIANTS
  TypeOK
  TicketIsComplete
  TicketAsShown
  EscalationIsBacked
  ClusterIsCoherent
PROPERTY
  NoTicketAfterSuccess
\* Every request may have been answered.
CHECK_DEADLOCK FALSE
