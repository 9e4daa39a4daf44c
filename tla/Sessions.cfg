SPECIFICATION Spec
CONSTANTS
  Sessions = {ja, jb}
  Replicas = {pa, pb}
  Requests = {q1, q2}
  TTL = 1
  Timeout = 1
  Lifetime = 1
  Leeway = 1
  MaxClock = 3
  None = None
SYMMETRY Symmetry
INVARIANTS
  SettledIsFinal
PROPERTIES
  AcceptedInTime
