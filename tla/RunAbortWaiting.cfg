\* The page's button that aborts a flow waiting for an answer.
CONSTANTS
  Sessions = {s1}
  Runs = {r1}
  Workers = {w1}
  Callers = {c1}
  None = None
  Faults = {}
  SerialClients = FALSE
  MaxClock = 0
  MaxCrashes = 0
SPECIFICATION Spec
INVARIANT WaitingFlowCanBeAborted
\* Every request may have been served and every run may have ended.
CHECK_DEADLOCK FALSE
