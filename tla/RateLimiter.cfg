SPECIFICATION LimiterSpec
CONSTANTS
  Clients = {ca, cb}
  Arrivals = {q1, q2, q3, q4, q5}
  MaxRequests = 2
  WindowSecs = 2
  MaxClock = 3
SYMMETRY Symmetry
INVARIANTS
  WindowHeld
CHECK_DEADLOCK FALSE
