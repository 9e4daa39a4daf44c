SPECIFICATION Spec
CONSTANTS
  la = la
  lb = lb
  fa = fa
  fb = fb
  r1 = r1
  r2 = r2
  r3 = r3
  Layers = {la, lb}
  Fids = {fa}
  Requests = {r1, r2, r3}
  TypeNames <- TwoLayers
  Ttls <- JustOne
  Never = Never
  NoLock = NoLock
  NoId = NoId
  MaxClock = 1
SYMMETRY Symmetry
INVARIANTS
  RefusedHoldsEarlierOnly
  ReleasedStaysFree
PROPERTIES
  ExclusiveUntilExpiry
  LeaseSpec
CHECK_DEADLOCK FALSE
