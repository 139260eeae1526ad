\* Two workers that crash and redeliver, Redis failures, expiries: the runs keep to RunContract.
CONSTANTS
  Sessions = {s1}
  Runs = {r1, r2}
  Workers = {w1, w2}
  Callers = {c1}
  None = None
  Faults = {"crash", "redisErr", "expire", "lateGroup"}
  SerialClients = FALSE
  MaxClock = 0
  MaxCrashes = 1
SPECIFICATION Spec
SYMMETRY Symmetry
INVARIANT AnnouncedIsSettled
PROPERTY ImplementsRunContract
\* Every request may have been served and every run may have ended.
CHECK_DEADLOCK FALSE
