SPECIFICATION FairSpec
CONSTANTS
  ra = ra
  rb = rb
  c1 = c1
  c2 = c2
  Names = {world}
  Titles = {told, tnew}
  Replicas = {ra, rb}
  Clients = {c1, c2}
  Home <- Apart
  Periodic = TRUE
  StoreFails = TRUE
  Restarts = TRUE
  Timeouts = TRUE
  MaxWrites = 4
  NoRow = NoRow
INVARIANTS
  NothingInvented
PROPERTIES
  Converges
