\* Two runs of the same second: the delete request looks at the one that is over.
CONSTANTS
  Sessions = {s1}
  Runs = {r1, r2, r3}
  Workers = {w1}
  Callers = {c1}
  None = None
  Faults = {}
  SerialClients = FALSE
  MaxClock = 2
  MaxCrashes = 0
SPECIFICATION Spec
INVARIANT DeletedSessionQuiet
\* Every request may have been served and every run may have ended.
CHECK_DEADLOCK FALSE
