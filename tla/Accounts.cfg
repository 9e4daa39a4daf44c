SPECIFICATION Spec
CONSTANTS
  p1 = p1
  p2 = p2
  s1 = s1
  s2 = s2
  Accounts = {admin}
  Passwords = {p1, p2}
  Settings = {s1, s2}
  Requests = {q1, q2, q3}
  Admin = admin
  AdminRow <- DefaultRow
  None = None
SYMMETRY Symmetry
INVARIANTS
  NeverLost
  AsAnswered
