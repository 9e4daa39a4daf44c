SPECIFICATION LocksFairSpec
CONSTANTS
  Requests = {q1, q2}
  Refresher = {refresher}
  Seeders = {}
  RequestOps <- Ops
  RequestTimeouts = TRUE
INVARIANTS
  OnlyDisorderDeadlocks
PROPERTIES
  AllGetThrough
