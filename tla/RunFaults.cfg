\* Failing database calls, requests that stop half-way, a crash and lost cancels; two workers.
CONSTANTS
  Sessions = {s1}
  Runs = {r1, r2}
  Workers = {w1, w2}
  Callers = {c1}
  None = None
  Faults = {"dbErr", "apiErr", "crash", "lostCancel"}
  SerialClients = FALSE
  MaxClock = 0
  MaxCrashes = 1
SPECIFICATION Spec
SYMMETRY Symmetry
INVARIANTS
  TypeOK
  ExecutingIsRunning
  ExclusiveExecution
\* Every request may have been served and every run may have ended.
CHECK_DEADLOCK FALSE
