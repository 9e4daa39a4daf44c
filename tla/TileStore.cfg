SPECIFICATION FairSpec
CONSTANTS
  Gridsets = {epsg4326, epsg3857}
  Tiles = {tile00}
  Requests = {1, 2}
  Ops = {"put", "get", "clear"}
  Sizes = {1, 2}
  Quota = 2
  ExpireAfter = 1
  MaxFailures = 1
  MaxClock = 1
  NoFile = NoFile
INVARIANTS
  QuotaHeld
  MetaRecordsInTurn
PROPERTIES
  EvictsOldestInTurn
  CallsEnd
CHECK_DEADLOCK FALSE
