\* A GetRun that fails: the message is acknowledged and the queued run is lost.
CONSTANTS
  Sessions = {s1}
  Runs = {r1}
  Workers = {w1}
  Callers = {c1}
  None = None
  Faults = {"dbErr"}
  SerialClients = FALSE
  MaxClock = 0
  MaxCrashes = 0
SPECIFICATION Spec
INVARIANT NoLostRun
\* Every request may have been served and every run may have ended.
CHECK_DEADLOCK FALSE
