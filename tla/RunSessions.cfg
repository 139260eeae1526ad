\* Clients that keep to the page's discipline: sessions and checkpoints stay in step with their runs.
CONSTANTS
  Sessions = {s1}
  Runs = {r1, r2, r3}
  Workers = {w1, w2}
  Callers = {c1, c2}
  None = None
  Faults = {"lostCancel"}
  SerialClients = TRUE
  MaxClock = 2
  MaxCrashes = 0
SPECIFICATION Spec
SYMMETRY Symmetry
INVARIANTS
  OneActiveRunPerSession
  WaitingIsResumable
  QueuedAnswerHasCheckpoint
  DeletedSessionQuiet
  SessionInv
\* Every request may have been served and every run may have ended.
CHECK_DEADLOCK FALSE
