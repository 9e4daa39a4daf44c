SPECIFICATION FairSpec
CONSTANTS
  Upstreams = {ua, ub}
  Requests = {q1, q2, q3}
  Threshold = 2
  ResetAfter = 2
  MaxRetries = 1
  MaxFailures = 3
  None = None
INVARIANTS
  BreakerConsistent
PROPERTIES
  RequestsEnd
