\* Deadlock is not checked: once shutdown() has returned and the session model
\* is gone, nothing is left to do.
CHECK_DEADLOCK FALSE
CONSTANTS
  s1 = s1
  s2 = s2
  k1 = k1
  k2 = k2
  Sessions = {s1, s2}
  Keys <- TwoKeys
  SessionOf <- TwoSessions
  MaxJobs = 2
  MaxDepth = 3
  FinishedLimit = 2
  SilentChanges = TRUE
  SlotsRemoveRows = FALSE
SYMMETRY SessionsAlike
SPECIFICATION Spec
INVARIANTS
  Inv
  QueueMoves
  SessionsAreHeld
PROPERTIES
  StopsStand
  ImplementsLifecycle
