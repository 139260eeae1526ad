\* A worker that dies twice and cancel messages that get lost: nothing is lost or left waiting.
CONSTANTS
  Sessions = {s1}
  Runs = {r1, r2}
  Workers = {w1}
  Callers = {c1}
  None = None
  Faults = {"crash", "lostCancel"}
  SerialClients = FALSE
  MaxClock = 0
  MaxCrashes = 2
SPECIFICATION FairSpec
INVARIANT NoLostRun
PROPERTIES
  QueuedIsServed
  StartedRunFinishes
  SettledIsAnnounced
  RecordedCancelWins
\* Every request may have been served and every run may have ended.
CHECK_DEADLOCK FALSE
