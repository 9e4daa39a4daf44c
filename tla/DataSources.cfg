SPECIFICATION Spec
CONSTANTS
  Names = {roads, rivers}
  Tables = {rivers}
  Files = {f1}
  FileOf <- OneFile
  Servers = {sa, sb}
  Contents = {c1, c2}
  Replicas = {pa, pb}
  Requests = {q1, q2}
  MaxEvents = 5
  None = None
SYMMETRY Symmetry
INVARIANTS
  ConnFits
  AsUploaded
CHECK_DEADLOCK FALSE
