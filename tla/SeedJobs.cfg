SPECIFICATION SeedFairSpec
CONSTANTS
  j1 = j1
  j2 = j2
  world = world
  g4326 = g4326
  g3857 = g3857
  Jobs = {j1, j2}
  Layers = {world}
  SeedGridsets = {g4326, g3857}
  Formats = {"png", "jpeg"}
  NTiles <- TwoGridsets
  PushEvery = 2
INVARIANTS
  CompletedIsWhole
  SeededIsCached
PROPERTIES
  EndedIsFinal
  JobsEnd
