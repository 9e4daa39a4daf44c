-------------------------- MODULE WfsLocks_proofs ---------------------------
(***************************************************************************)
(* Proofs about the WFS feature locks, for any number of layers, features, *)
(* requests and instants.                                                  *)
(***************************************************************************)
EXTENDS WfsLocks, TLAPS

USE DEF AcquireOps

\* Progress of a request through TYPENAMES: it works on a layer of its list,
\* the instant it works with has come, and what it asked for is legal.
RequestOK ==
  \A r \in Requests :
    /\ now[r] <= clock
    /\ pc[r] # "new" => ttl[r] \in Ttls /\ names[r] \in TypeNames
    /\ pc[r] \in {"query", "enter", "prune", "apply", "refused"}
         => pos[r] \in DOMAIN names[r]
    /\ pc[r] = "new" => pos[r] = 1

\* An entry is owned by an acquire call that its request has left behind, and
\* that was for the layer of the entry.
OwnerOf(k) == locks[k].lock_id[1]
PlaceOf(k) == locks[k].lock_id[2]

OwnerOK ==
  \A k \in Keys : locks[k] # NoLock =>
    PlaceOf(k) < pos[OwnerOf(k)] /\ k[1] = names[OwnerOf(k)][PlaceOf(k)]

IInv == TypeOK /\ RequestOK /\ OwnerOK

-----------------------------------------------------------------------------
LEMMA LockFacts ==
  ASSUME NEW id \in LockIds, NEW e \in Expiries
  PROVE  /\ [lock_id |-> id, expires_at |-> e] \in Lock
         /\ [lock_id |-> id, expires_at |-> e] # NoLock
<1>1. LockIds \subseteq Requests \X Nat
  BY WfsLocksAssumption DEF LockIds
<1>2. Expiries \subseteq Nat \cup {Never}
  BY WfsLocksAssumption DEF Expiries, ExpiryAt
<1>3. QED
  BY <1>1, <1>2, WfsLocksAssumption DEF Lock

LEMMA PlaceInLockIds ==
  ASSUME NEW r \in Requests, NEW tn \in TypeNames, NEW i \in DOMAIN tn
  PROVE  <<r, i>> \in LockIds
BY DEF LockIds

LEMMA ExpiryInExpiries ==
  ASSUME NEW t \in 0..MaxClock, NEW d \in Ttls
  PROVE  ExpiryAt(t, d) \in Expiries
BY DEF Expiries

LEMMA KeyParts ==
  ASSUME NEW k \in Keys
  PROVE  k[1] \in Layers /\ k[2] \in Fids /\ k = <<k[1], k[2]>>
BY DEF Keys

-----------------------------------------------------------------------------
LEMMA InitIInv == Init => IInv
<1> SUFFICES ASSUME Init PROVE IInv
  OBVIOUS
<1> USE DEF Init
<1>1. TypeOK
  BY WfsLocksAssumption DEF TypeOK
<1>2. RequestOK
  BY WfsLocksAssumption DEF RequestOK
<1>3. OwnerOK
  BY DEF OwnerOK
<1>4. QED
  BY <1>1, <1>2, <1>3 DEF IInv

\* The steps that leave the registry alone and only move a request.
LEMMA NextLayerOK ==
  ASSUME IInv, NEW r \in Requests, NEW again, NEW last,
         pc[r] = "apply", NextLayer(r, again, last),
         again \in {"query", "enter", "apply"}, last \in {"read", "done"}
  PROVE  /\ pc' \in [Requests -> {"new", "query", "enter", "prune", "apply",
                                  "read", "done", "refused", "aborted"}]
         /\ pos' \in [Requests -> Nat \ {0}]
         /\ pos'[r] = pos[r] + 1
         /\ \A q \in Requests : q # r => pos'[q] = pos[q] /\ pc'[q] = pc[q]
         /\ \A q \in Requests : pos'[q] \in Nat /\ pos'[q] >= pos[q]
         /\ pc'[r] \in {again, last}
         /\ pc'[r] = again => pos'[r] \in DOMAIN names[r]
<1>1. pos[r] \in 1..Len(names[r]) /\ names[r] \in Seq(Layers)
  BY DEF IInv, TypeOK, RequestOK
<1>2. DOMAIN names[r] = 1..Len(names[r]) /\ Len(names[r]) \in Nat
  BY <1>1
<1>3. QED
  BY <1>1, <1>2 DEF NextLayer, IInv, TypeOK

\* The owner of an entry is a request that has a place.
LEMMA OwnerFacts ==
  ASSUME IInv, NEW k \in Keys, locks[k] # NoLock
  PROVE  /\ locks[k] \in Lock
         /\ OwnerOf(k) \in Requests /\ PlaceOf(k) \in Nat \ {0}
         /\ locks[k].lock_id = <<OwnerOf(k), PlaceOf(k)>>
         /\ pos[OwnerOf(k)] \in Nat /\ PlaceOf(k) < pos[OwnerOf(k)]
         /\ k[1] = names[OwnerOf(k)][PlaceOf(k)]
<1>1. locks[k] \in Lock
  BY DEF IInv, TypeOK
<1>2. \A tn \in TypeNames : DOMAIN tn \subseteq Nat \ {0}
  BY WfsLocksAssumption
<1>3. locks[k].lock_id \in Requests \X (Nat \ {0})
  BY <1>1, <1>2 DEF Lock, LockIds
<1>4. OwnerOf(k) \in Requests /\ PlaceOf(k) \in Nat \ {0}
  BY <1>3 DEF OwnerOf, PlaceOf
<1>5. locks[k].lock_id = <<OwnerOf(k), PlaceOf(k)>>
  BY <1>3 DEF OwnerOf, PlaceOf
<1>6. pos[OwnerOf(k)] \in Nat
  BY <1>4 DEF IInv, TypeOK
<1>7. QED
  BY <1>1, <1>4, <1>5, <1>6 DEF IInv, OwnerOK

\* Entries that keep their owners stay OwnerOK while requests move on, and
\* requests that have none begin.
LEMMA SameOwners ==
  ASSUME IInv,
         \A k \in Keys : locks'[k] # NoLock =>
           locks[k] # NoLock /\ locks'[k].lock_id = locks[k].lock_id,
         \A q \in Requests : pos'[q] \in Nat /\ pos'[q] >= pos[q],
         \A q \in Requests : names'[q] = names[q] \/ pos[q] = 1
  PROVE  OwnerOK'
<1> SUFFICES ASSUME NEW k \in Keys, locks'[k] # NoLock
             PROVE  /\ PlaceOf(k)' < pos'[OwnerOf(k)']
                    /\ k[1] = names'[OwnerOf(k)'][PlaceOf(k)']
  BY DEF OwnerOK
<1>1. locks[k] # NoLock /\ OwnerOf(k)' = OwnerOf(k) /\ PlaceOf(k)' = PlaceOf(k)
  BY DEF OwnerOf, PlaceOf
<1>2. /\ OwnerOf(k) \in Requests /\ PlaceOf(k) \in Nat \ {0}
      /\ pos[OwnerOf(k)] \in Nat /\ PlaceOf(k) < pos[OwnerOf(k)]
      /\ k[1] = names[OwnerOf(k)][PlaceOf(k)]
  BY <1>1, OwnerFacts
<1>3. names'[OwnerOf(k)] = names[OwnerOf(k)]
  BY <1>2
<1>4. pos'[OwnerOf(k)] \in Nat /\ pos'[OwnerOf(k)] >= pos[OwnerOf(k)]
  BY <1>2
<1>5. QED
  BY <1>1, <1>2, <1>3, <1>4

LEMMA StepIInv == IInv /\ [Next]_vars => IInv'
<1> SUFFICES ASSUME IInv, [Next]_vars PROVE IInv'
  OBVIOUS
<1> USE DEF IInv, TypeOK, RequestOK
<1>1. CASE UNCHANGED vars
  BY <1>1 DEF vars, OwnerOK, OwnerOf, PlaceOf
<1>2. CASE Tick
  BY <1>2, WfsLocksAssumption DEF Tick, reqVars, OwnerOK, OwnerOf, PlaceOf
<1>3. ASSUME NEW r \in Requests, Step(r) PROVE IInv'
  <2>1. CASE StartLock(r)
    <3>1. PICK o \in AcquireOps, d \in Ttls, tn \in TypeNames :
            /\ op' = [op EXCEPT ![r] = o]
            /\ ttl' = [ttl EXCEPT ![r] = d]
            /\ names' = [names EXCEPT ![r] = tn]
      BY <2>1 DEF StartLock
    <3>2. tn \in Seq(Layers) /\ 1 \in DOMAIN tn
      BY WfsLocksAssumption
    <3>3. TypeOK' /\ RequestOK'
      BY <2>1, <3>1, <3>2 DEF StartLock
    <3>4. OwnerOK'
      BY <2>1, <3>1, SameOwners DEF StartLock
    <3>5. QED
      BY <3>3, <3>4
  <2>2. CASE StartWithLockId(r)
    <3>1. PICK id \in Told, o \in {"renew", "release"}, d \in Ttls, tn \in TypeNames :
            /\ lockId' = [lockId EXCEPT ![r] = id]
            /\ op' = [op EXCEPT ![r] = o]
            /\ ttl' = [ttl EXCEPT ![r] = d]
            /\ names' = [names EXCEPT ![r] = tn]
            /\ fn' = [fn EXCEPT ![r] = o]
            /\ pc' = [pc EXCEPT ![r] = IF o = "renew" THEN "enter" ELSE "apply"]
      BY <2>2 DEF StartWithLockId
    <3>2. tn \in Seq(Layers) /\ 1 \in DOMAIN tn
      BY WfsLocksAssumption
    <3>3. id \in LockIds \cup {NoId}
      BY DEF Told
    <3>4. TypeOK' /\ RequestOK'
      BY <2>2, <3>1, <3>2, <3>3 DEF StartWithLockId
    <3>5. OwnerOK'
      BY <2>2, <3>1, SameOwners DEF StartWithLockId
    <3>6. QED
      BY <3>4, <3>5
  <2>3. CASE Query(r)
    BY <2>3 DEF Query, OwnerOK, OwnerOf, PlaceOf
  <2>4. CASE Abort(r)
    BY <2>4 DEF Abort, reqVars, OwnerOK, OwnerOf, PlaceOf
  <2>5. CASE Enter(r)
    BY <2>5, WfsLocksAssumption DEF Enter, OwnerOK, OwnerOf, PlaceOf
  <2>6. CASE Prune(r)
    <3>1. \A k \in Keys : locks'[k] \in {locks[k], NoLock}
      BY <2>6 DEF Prune
    <3>2. locks' \in [Keys -> Lock \cup {NoLock}]
      BY <2>6 DEF Prune
    <3>3. TypeOK' /\ RequestOK'
      BY <2>6, <3>2 DEF Prune, reqVars
    <3>4. OwnerOK'
      BY <2>6, <3>1, SameOwners DEF Prune, reqVars
    <3>5. QED
      BY <3>3, <3>4
  <2>7. CASE AcquireConflict(r)
    BY <2>7 DEF AcquireConflict, reqVars, OwnerOK, OwnerOf, PlaceOf
  <2>8. CASE AcquireGrant(r)
    <3>1. <<r, pos[r]>> \in LockIds
      BY <2>8, PlaceInLockIds DEF AcquireGrant
    <3>2. ExpiryAt(now[r], ttl[r]) \in Expiries
      BY <2>8, ExpiryInExpiries DEF AcquireGrant
    <3> DEFINE new == [lock_id |-> <<r, pos[r]>>,
                       expires_at |-> ExpiryAt(now[r], ttl[r])]
    <3>3. new \in Lock /\ new # NoLock
      BY <3>1, <3>2, LockFacts
    <3>4. Granted(r) \subseteq Keys
      BY <2>8 DEF Granted, Keys, AcquireGrant, Layer
    <3>5. locks' = [k \in Keys |-> IF k \in Granted(r) THEN new ELSE locks[k]]
      BY <2>8 DEF AcquireGrant
    <3>6. new.lock_id = <<r, pos[r]>>
      OBVIOUS
    <3> HIDE DEF new
    <3>7. locks' \in [Keys -> Lock \cup {NoLock}]
      BY <3>3, <3>5
    <3>8. lockId' \in [Requests -> LockIds \cup {NoId}]
      BY <2>8, <3>1 DEF AcquireGrant
    <3>9. reply' \in [Requests -> SUBSET Keys]
      BY <2>8, <3>4 DEF AcquireGrant
    <3>10. PICK last \in {"read", "done"} : NextLayer(r, "query", last)
      BY <2>8 DEF AcquireGrant
    <3>11. /\ pc' \in [Requests -> {"new", "query", "enter", "prune", "apply",
                                    "read", "done", "refused", "aborted"}]
           /\ pos' \in [Requests -> Nat \ {0}]
           /\ pos'[r] = pos[r] + 1
           /\ \A q \in Requests : q # r => pos'[q] = pos[q] /\ pc'[q] = pc[q]
           /\ pc'[r] \in {"query", last}
           /\ pc'[r] = "query" => pos'[r] \in DOMAIN names[r]
      BY <2>8, <3>10, NextLayerOK DEF AcquireGrant
    <3>12. TypeOK'
      BY <2>8, <3>7, <3>8, <3>9, <3>11 DEF AcquireGrant
    <3>13. RequestOK'
      BY <2>8, <3>11 DEF AcquireGrant
    <3>14. OwnerOK'
      <4> SUFFICES ASSUME NEW k \in Keys, locks'[k] # NoLock
                   PROVE  /\ PlaceOf(k)' < pos'[OwnerOf(k)']
                          /\ k[1] = names[OwnerOf(k)'][PlaceOf(k)']
        BY <2>8 DEF OwnerOK, AcquireGrant
      <4>1. CASE k \in Granted(r)
        <5>1. OwnerOf(k)' = r /\ PlaceOf(k)' = pos[r]
          BY <4>1, <3>5, <3>6 DEF OwnerOf, PlaceOf
        <5>2. k[1] = names[r][pos[r]]
          BY <4>1 DEF Granted, Layer
        <5>3. QED
          BY <5>1, <5>2, <3>11
      <4>2. CASE k \notin Granted(r)
        <5>1. locks'[k] = locks[k]
          BY <4>2, <3>5
        <5>2. OwnerOf(k)' = OwnerOf(k) /\ PlaceOf(k)' = PlaceOf(k)
          BY <5>1 DEF OwnerOf, PlaceOf
        <5>3. /\ OwnerOf(k) \in Requests /\ PlaceOf(k) \in Nat \ {0}
              /\ pos[OwnerOf(k)] \in Nat /\ PlaceOf(k) < pos[OwnerOf(k)]
              /\ k[1] = names[OwnerOf(k)][PlaceOf(k)]
          BY <5>1, OwnerFacts
        <5> DEFINE q == OwnerOf(k)
        <5>4. pos'[q] \in Nat /\ pos'[q] >= pos[q]
          <6> HIDE DEF q
          <6>1. q \in Requests /\ pos[q] \in Nat
            BY <5>3 DEF q
          <6>2. CASE q = r
            BY <6>1, <6>2, <3>11
          <6>3. CASE q # r
            BY <6>1, <6>3, <3>11
          <6>4. QED
            BY <6>2, <6>3
        <5>5. QED
          BY <5>2, <5>3, <5>4
      <4>3. QED
        BY <4>1, <4>2
    <3>15. QED
      BY <3>12, <3>13, <3>14
  <2>9. CASE ReadFeatures(r)
    BY <2>9 DEF ReadFeatures, reqVars, OwnerOK, OwnerOf, PlaceOf
  <2>10. CASE Renew(r)
    <3> DEFINE own == OwnedOn(Layer(r), lockId[r])
    <3> DEFINE new == [lock_id |-> lockId[r],
                       expires_at |-> ExpiryAt(now[r], ttl[r])]
    <3>1. ExpiryAt(now[r], ttl[r]) \in Expiries
      BY <2>10, ExpiryInExpiries DEF Renew
    <3>2. \A k \in own : k \in Keys /\ locks[k] # NoLock /\ locks[k].lock_id = lockId[r]
      BY <2>10 DEF OwnedOn, Renew, Layer, Keys
    <3>3. own # {} => lockId[r] \in LockIds
      BY <3>2 DEF Lock
    <3>4. own # {} => new \in Lock /\ new # NoLock
      BY <3>1, <3>3, LockFacts
    <3>5. new.lock_id = lockId[r]
      OBVIOUS
    <3>6. locks' = [k \in Keys |-> IF k \in own THEN new ELSE locks[k]]
      BY <2>10 DEF Renew
    <3>7. /\ pc' \in [Requests -> {"new", "query", "enter", "prune", "apply",
                                   "read", "done", "refused", "aborted"}]
          /\ pos' \in [Requests -> Nat \ {0}]
          /\ \A q \in Requests : q # r => pos'[q] = pos[q] /\ pc'[q] = pc[q]
          /\ \A q \in Requests : pos'[q] \in Nat /\ pos'[q] >= pos[q]
          /\ pc'[r] \in {"enter", "done"}
          /\ pc'[r] = "enter" => pos'[r] \in DOMAIN names[r]
      <4>1. CASE own # {}
        <5>1. pc' = [pc EXCEPT ![r] = "enter"] /\ pos' = pos /\ pc[r] = "apply"
          BY <2>10, <4>1 DEF Renew
        <5>2. QED
          BY <5>1
      <4>2. CASE own = {}
        <5>1. NextLayer(r, "enter", "done") /\ pc[r] = "apply"
          BY <2>10, <4>2 DEF Renew
        <5>2. QED
          BY <5>1, NextLayerOK
      <4>3. QED
        BY <4>1, <4>2
    <3>8. fn' \in [Requests -> {"acquire", "renew", "list", "release"}]
      <4>1. fn' = [fn EXCEPT ![r] = "list"] \/ fn' = fn
        BY <2>10 DEF Renew
      <4>2. QED
        BY <4>1
    <3> HIDE DEF own, new
    <3>9. locks' \in [Keys -> Lock \cup {NoLock}]
      BY <3>4, <3>6
    <3>10. TypeOK'
      BY <2>10, <3>7, <3>8, <3>9 DEF Renew
    <3>11. RequestOK'
      BY <2>10, <3>7 DEF Renew
    <3>12. OwnerOK'
      BY <2>10, <3>2, <3>4, <3>5, <3>6, <3>7, SameOwners DEF Renew
    <3>13. QED
      BY <3>10, <3>11, <3>12
  <2>11. CASE ListLocked(r)
    <3>1. reply' \in [Requests -> SUBSET Keys]
      BY <2>11 DEF ListLocked, OwnedOn, Layer, Keys
    <3>2. fn' \in [Requests -> {"acquire", "renew", "list", "release"}]
      BY <2>11 DEF ListLocked
    <3>3. NextLayer(r, "enter", "done") /\ pc[r] = "apply"
      BY <2>11 DEF ListLocked
    <3>4. TypeOK' /\ RequestOK'
      BY <2>11, <3>1, <3>2, <3>3, NextLayerOK DEF ListLocked
    <3>5. OwnerOK'
      <4>1. locks' = locks /\ names' = names
        BY <2>11 DEF ListLocked
      <4>2. QED
        BY <4>1, <3>3, NextLayerOK, SameOwners
    <3>6. QED
      BY <3>4, <3>5
  <2>12. CASE Release(r)
    <3> DEFINE own == OwnedOn(Layer(r), lockId[r])
    <3>1. own \subseteq Keys
      BY <2>12 DEF OwnedOn, Release, Layer, Keys
    <3>2. NextLayer(r, "apply", "done") /\ pc[r] = "apply"
      BY <2>12 DEF Release
    <3>3. locks' = [k \in Keys |-> IF k \in own THEN NoLock ELSE locks[k]]
      BY <2>12 DEF Release
    <3>4. reply' = [reply EXCEPT ![r] = @ \cup own]
      BY <2>12 DEF Release
    <3> HIDE DEF own
    <3>5. TypeOK' /\ RequestOK'
      <4>1. locks' \in [Keys -> Lock \cup {NoLock}]
        BY <3>3
      <4>2. reply' \in [Requests -> SUBSET Keys]
        BY <3>1, <3>4
      <4>3. /\ pc' \in [Requests -> {"new", "query", "enter", "prune", "apply",
                                     "read", "done", "refused", "aborted"}]
            /\ pos' \in [Requests -> Nat \ {0}]
            /\ \A q \in Requests : q # r => pos'[q] = pos[q] /\ pc'[q] = pc[q]
            /\ pc'[r] \in {"apply", "done"}
            /\ pc'[r] = "apply" => pos'[r] \in DOMAIN names[r]
        BY <3>2, NextLayerOK
      <4>4. UNCHANGED <<clock, op, ttl, names, fids, fn, now, lockId>>
        BY <2>12 DEF Release
      <4>5. TypeOK'
        BY <4>1, <4>2, <4>3, <4>4
      <4>6. RequestOK'
        BY <3>2, <4>3, <4>4
      <4>7. QED
        BY <4>5, <4>6
    <3>6. OwnerOK'
      <4>1. names' = names
        BY <2>12 DEF Release
      <4>2. \A q \in Requests : pos'[q] \in Nat /\ pos'[q] >= pos[q]
        BY <3>2, NextLayerOK
      <4>3. \A k \in Keys : locks'[k] # NoLock =>
              locks[k] # NoLock /\ locks'[k].lock_id = locks[k].lock_id
        BY <3>3
      <4>4. QED
        BY <4>1, <4>2, <4>3, SameOwners
    <3>7. QED
      BY <3>5, <3>6
  <2>13. QED
    BY <1>3, <2>1, <2>2, <2>3, <2>4, <2>5, <2>6, <2>7, <2>8, <2>9, <2>10, <2>11, <2>12
       DEF Step
<1>4. QED
  BY <1>1, <1>2, <1>3 DEF Next

THEOREM AlwaysIInv == Spec => []IInv
BY InitIInv, StepIInv, PTL DEF Spec

\* Every variable keeps its type in every reachable state.
THEOREM TypeCorrect == Spec => []TypeOK
BY AlwaysIInv, PTL DEF IInv

\* A LockFeature that acquire refused (wfs_lock.rs, lock_all) holds no lock on
\* the layer that refused it, nor on a later one, in any interleaving.
THEOREM RefusedHolds == Spec => []RefusedHoldsEarlierOnly
<1>1. IInv => RefusedHoldsEarlierOnly
  <2> SUFFICES ASSUME IInv, NEW r \in Requests, NEW k \in Keys,
                      locks[k] # NoLock, OwnerOf(k) = r
               PROVE  k[1] \in {names[r][i] : i \in 1..(pos[r] - 1)}
    BY DEF RefusedHoldsEarlierOnly, OwnerOf
  <2>1. PlaceOf(k) \in Nat \ {0} /\ pos[r] \in Nat /\ PlaceOf(k) < pos[r]
    BY OwnerFacts
  <2>2. PlaceOf(k) \in 1..(pos[r] - 1)
    BY <2>1
  <2>3. QED
    BY <2>2, OwnerFacts
<1>2. QED
  BY <1>1, AlwaysIInv, PTL

-----------------------------------------------------------------------------
(* What is released stays released.                                        *)

\* The ids that requests carry are those of acquire calls that are through,
\* and a release never leaves the function it is for.
CarriedOK ==
  \A q \in Requests :
    /\ lockId[q] # NoId => /\ lockId[q][1] \in Requests
                           /\ lockId[q][2] < pos[lockId[q][1]]
    /\ op[q] = "release" => fn[q] = "release"

RInv == IInv /\ CarriedOK /\ ReleasedStaysFree

\* Whoever releases, and has been through a layer, finds what it left: no
\* entry gets another owner, and releases only begin.
LEMMA SameReleased ==
  ASSUME RInv,
         \A k \in Keys : locks'[k] # NoLock =>
           locks[k] # NoLock /\ locks'[k].lock_id = locks[k].lock_id,
         \A q \in Requests : op'[q] = "release" =>
           \/ pos'[q] = 1
           \/ /\ op[q] = "release" /\ lockId'[q] = lockId[q]
              /\ names'[q] = names[q] /\ pos'[q] = pos[q]
  PROVE  ReleasedStaysFree'
<1> SUFFICES ASSUME NEW q \in Requests, op'[q] = "release",
                    NEW k \in Keys, locks'[k] # NoLock, locks'[k].lock_id = lockId'[q],
                    NEW i \in 1..(pos'[q] - 1), k[1] = names'[q][i]
             PROVE  FALSE
  BY DEF ReleasedStaysFree
<1>1. pos'[q] # 1
  OBVIOUS
<1>2. /\ op[q] = "release" /\ lockId'[q] = lockId[q]
      /\ names'[q] = names[q] /\ pos'[q] = pos[q]
  BY <1>1
<1>3. locks[k] # NoLock /\ locks[k].lock_id = lockId[q]
  BY <1>2
<1>4. k[1] \in {names[q][j] : j \in 1..(pos[q] - 1)}
  BY <1>2
<1>5. QED
  BY <1>2, <1>3, <1>4 DEF RInv, ReleasedStaysFree

\* A request that only moves on keeps the ids.
LEMMA SameCarried ==
  ASSUME RInv, lockId' = lockId,
         \A q \in Requests : pos'[q] \in Nat /\ pos'[q] >= pos[q],
         \A q \in Requests : op'[q] = "release" => fn'[q] = "release"
  PROVE  CarriedOK'
<1> SUFFICES ASSUME NEW q \in Requests, lockId[q] # NoId
             PROVE  lockId[q][1] \in Requests /\ lockId[q][2] < pos'[lockId[q][1]]
  BY DEF CarriedOK
<1>1. lockId[q][1] \in Requests /\ lockId[q][2] < pos[lockId[q][1]]
  BY DEF RInv, CarriedOK
<1>2. lockId[q] \in LockIds
  BY DEF RInv, IInv, TypeOK
<1>3. lockId[q][2] \in Nat /\ pos[lockId[q][1]] \in Nat
  BY <1>1, <1>2, WfsLocksAssumption DEF LockIds, RInv, IInv, TypeOK
<1>4. QED
  BY <1>1, <1>3

LEMMA InitRInv == Init => RInv
<1> SUFFICES ASSUME Init PROVE RInv
  OBVIOUS
<1>1. CarriedOK
  BY DEF Init, CarriedOK
<1>2. ReleasedStaysFree
  BY DEF Init, ReleasedStaysFree
<1>3. QED
  BY <1>1, <1>2, InitIInv DEF RInv

\* Where the next step of a request leaves its place.
LEMMA NextPos ==
  ASSUME IInv, NEW r \in Requests, NEW again, NEW last, NextLayer(r, again, last)
  PROVE  /\ \A q \in Requests : pos'[q] \in Nat /\ pos'[q] >= pos[q]
         /\ \A q \in Requests : q # r => pos'[q] = pos[q]
         /\ pos'[r] = pos[r] + 1
<1>1. pos \in [Requests -> Nat \ {0}]
  BY DEF IInv, TypeOK
<1>2. QED
  BY <1>1 DEF NextLayer

LEMMA StepRInv == RInv /\ [Next]_vars => RInv'
<1> SUFFICES ASSUME RInv, [Next]_vars PROVE RInv'
  OBVIOUS
<1>0. IInv' /\ IInv
  BY StepIInv DEF RInv
<1>p. \A q \in Requests : pos[q] \in Nat \ {0}
  BY <1>0 DEF IInv, TypeOK
<1> SUFFICES CarriedOK' /\ ReleasedStaysFree'
  BY <1>0 DEF RInv
<1>1. CASE UNCHANGED vars \/ Tick
  <2>1. UNCHANGED <<locks, pc, op, ttl, names, pos, fids, fn, now, lockId, reply>>
    BY <1>1 DEF vars, Tick, reqVars
  <2>2. QED
    BY <2>1 DEF RInv, CarriedOK, ReleasedStaysFree
<1>2. ASSUME NEW r \in Requests, Step(r) PROVE CarriedOK' /\ ReleasedStaysFree'
  <2>c. \A q \in Requests : op[q] = "release" => fn[q] = "release"
    BY DEF RInv, CarriedOK
  <2>1. CASE StartLock(r)
    <3>1. PICK o \in AcquireOps : op' = [op EXCEPT ![r] = o]
      BY <2>1 DEF StartLock
    <3>2. \A q \in Requests : op'[q] = "release" => q # r /\ op[q] = "release"
      BY <3>1, <1>0 DEF IInv, TypeOK
    <3>3. \A q \in Requests : q # r => names'[q] = names[q]
      BY <2>1, <1>0 DEF StartLock, IInv, TypeOK
    <3>4. UNCHANGED <<locks, pos, fn, lockId>>
      BY <2>1 DEF StartLock
    <3>5. ReleasedStaysFree'
      BY <3>2, <3>3, <3>4, SameReleased
    <3>6. CarriedOK'
      BY <3>2, <3>4, <2>c, <1>p, SameCarried
    <3>7. QED
      BY <3>5, <3>6
  <2>2. CASE StartWithLockId(r)
    <3>1. PICK id \in Told, o \in {"renew", "release"} :
            /\ lockId' = [lockId EXCEPT ![r] = id]
            /\ op' = [op EXCEPT ![r] = o]
            /\ fn' = [fn EXCEPT ![r] = o]
      BY <2>2 DEF StartWithLockId
    <3>2. pos[r] = 1 /\ UNCHANGED <<locks, pos>>
      BY <2>2, <1>0 DEF StartWithLockId, IInv, RequestOK
    <3>3. \A q \in Requests : q # r =>
            lockId'[q] = lockId[q] /\ op'[q] = op[q] /\ fn'[q] = fn[q] /\ names'[q] = names[q]
      BY <2>2, <3>1, <1>0 DEF StartWithLockId, IInv, TypeOK
    <3>4. lockId'[r] = id /\ op'[r] = o /\ fn'[r] = o
      BY <3>1, <1>0 DEF IInv, TypeOK
    <3>5. PICK q \in Requests : id = lockId[q]
      BY DEF Told
    <3>6. CarriedOK'
      BY <3>2, <3>3, <3>4, <3>5 DEF RInv, CarriedOK
    <3>7. ReleasedStaysFree'
      BY <3>2, <3>3, SameReleased
    <3>8. QED
      BY <3>6, <3>7
  <2>3. CASE Query(r) \/ Abort(r) \/ Enter(r) \/ ReadFeatures(r) \/ AcquireConflict(r)
    <3>1. UNCHANGED <<locks, op, names, pos, fn, lockId>>
      BY <2>3 DEF Query, Abort, Enter, ReadFeatures, AcquireConflict, reqVars
    <3>2. QED
      BY <3>1 DEF RInv, CarriedOK, ReleasedStaysFree
  <2>4. CASE Prune(r)
    <3>1. UNCHANGED <<op, names, pos, fn, lockId>>
      BY <2>4 DEF Prune, reqVars
    <3>2. \A k \in Keys : locks'[k] \in {locks[k], NoLock}
      BY <2>4 DEF Prune
    <3>3. ReleasedStaysFree'
      BY <3>1, <3>2, SameReleased
    <3>4. QED
      BY <3>1, <3>3 DEF RInv, CarriedOK
  <2>5. CASE AcquireGrant(r)
    <3> DEFINE new == [lock_id |-> <<r, pos[r]>>,
                       expires_at |-> ExpiryAt(now[r], ttl[r])]
    <3>1. PICK last \in {"read", "done"} : NextLayer(r, "query", last)
      BY <2>5 DEF AcquireGrant
    <3>2. /\ \A q \in Requests : pos'[q] \in Nat /\ pos'[q] >= pos[q]
          /\ \A q \in Requests : q # r => pos'[q] = pos[q]
          /\ pos'[r] = pos[r] + 1
      BY <3>1, <1>0, NextPos
    <3>3. op[r] # "release"
      BY <2>5, <2>c DEF AcquireGrant
    <3>4. UNCHANGED <<op, names, fn>>
      BY <2>5 DEF AcquireGrant
    <3>5. \A q \in Requests : lockId'[q] = lockId[q] \/ (q = r /\ lockId'[q] = <<r, pos[r]>>)
      BY <2>5, <1>0 DEF AcquireGrant, IInv, TypeOK
    <3>6. \A k \in Keys : locks'[k] = new \/ locks'[k] = locks[k]
      BY <2>5 DEF AcquireGrant
    <3>7. CarriedOK'
      <4> SUFFICES ASSUME NEW q \in Requests, lockId'[q] # NoId
                   PROVE  lockId'[q][1] \in Requests /\ lockId'[q][2] < pos'[lockId'[q][1]]
        BY <3>4, <2>c DEF CarriedOK
      <4>1. CASE lockId'[q] = <<r, pos[r]>>
        BY <4>1, <3>2, <1>p
      <4>2. CASE lockId'[q] = lockId[q]
        <5> DEFINE a == lockId[q][1]
        <5>1. a \in Requests /\ lockId[q][2] < pos[a]
          BY <4>2 DEF RInv, CarriedOK
        <5>2. lockId[q] \in LockIds
          BY <4>2, <1>0 DEF IInv, TypeOK
        <5>3. lockId[q][2] \in Nat
          BY <5>2, WfsLocksAssumption DEF LockIds
        <5> HIDE DEF a
        <5>4. pos[a] \in Nat /\ pos'[a] \in Nat /\ pos'[a] >= pos[a]
          BY <5>1, <3>2, <1>p
        <5>5. lockId[q][2] < pos'[a]
          BY <5>1, <5>3, <5>4
        <5>6. QED
          BY <4>2, <5>1, <5>5 DEF a
      <4>3. QED
        BY <4>1, <4>2, <3>5
    <3>8. ReleasedStaysFree'
      <4> SUFFICES ASSUME NEW q \in Requests, op'[q] = "release",
                          NEW k \in Keys, locks'[k] # NoLock,
                          locks'[k].lock_id = lockId'[q],
                          NEW i \in 1..(pos'[q] - 1), k[1] = names'[q][i]
                   PROVE  FALSE
        BY DEF ReleasedStaysFree
      <4>1. q # r /\ op[q] = "release" /\ names'[q] = names[q]
        BY <3>3, <3>4
      <4>2. pos'[q] = pos[q] /\ lockId'[q] = lockId[q]
        BY <4>1, <3>2, <3>5
      <4>3. CASE locks'[k] = new
        <5>1. lockId[q] = <<r, pos[r]>>
          BY <4>2, <4>3
        <5>2. lockId[q] # NoId
          BY <5>1, <1>p, WfsLocksAssumption
        <5>3. lockId[q][1] = r /\ lockId[q][2] = pos[r]
          BY <5>1
        <5>4. pos[r] < pos[r]
          BY <5>2, <5>3 DEF RInv, CarriedOK
        <5>5. QED
          BY <5>4, <1>p
      <4>4. CASE locks'[k] = locks[k]
        <5>1. k[1] \in {names[q][j] : j \in 1..(pos[q] - 1)}
          BY <4>1, <4>2
        <5>2. QED
          BY <4>1, <4>2, <4>4, <5>1 DEF RInv, ReleasedStaysFree
      <4>5. QED
        BY <4>3, <4>4, <3>6
    <3>9. QED
      BY <3>7, <3>8
  <2>6. CASE Renew(r)
    <3> DEFINE own == OwnedOn(Layer(r), lockId[r])
    <3>1. op[r] # "release" /\ UNCHANGED <<op, names, lockId>>
      BY <2>6, <2>c DEF Renew
    <3>2. /\ \A q \in Requests : pos'[q] \in Nat /\ pos'[q] >= pos[q]
          /\ \A q \in Requests : q # r => pos'[q] = pos[q]
      <4>1. CASE own = {}
        <5>1. NextLayer(r, "enter", "done")
          BY <2>6, <4>1 DEF Renew
        <5>2. QED
          BY <5>1, <1>0, NextPos
      <4>2. CASE own # {}
        <5>1. pos' = pos
          BY <2>6, <4>2 DEF Renew
        <5>2. QED
          BY <5>1, <1>p
      <4>3. QED
        BY <4>1, <4>2
    <3>3. \A q \in Requests : q # r => fn'[q] = fn[q]
      BY <2>6, <1>0 DEF Renew, IInv, TypeOK
    <3>4. \A k \in Keys : locks'[k] # NoLock =>
            locks[k] # NoLock /\ locks'[k].lock_id = locks[k].lock_id
      <4>1. \A k \in own : locks[k] # NoLock /\ locks[k].lock_id = lockId[r]
        BY DEF OwnedOn
      <4>2. QED
        BY <2>6, <4>1 DEF Renew
    <3>5. ReleasedStaysFree'
      BY <3>1, <3>2, <3>4, SameReleased
    <3>6. CarriedOK'
      BY <3>1, <3>2, <3>3, <2>c, SameCarried
    <3>7. QED
      BY <3>5, <3>6
  <2>7. CASE ListLocked(r)
    <3>1. op[r] # "release" /\ UNCHANGED <<locks, op, names, lockId>>
      BY <2>7, <2>c DEF ListLocked
    <3>2. /\ \A q \in Requests : pos'[q] \in Nat /\ pos'[q] >= pos[q]
          /\ \A q \in Requests : q # r => pos'[q] = pos[q]
      BY <2>7, <1>0, NextPos DEF ListLocked
    <3>3. \A q \in Requests : q # r => fn'[q] = fn[q]
      BY <2>7, <1>0 DEF ListLocked, IInv, TypeOK
    <3>4. ReleasedStaysFree'
      BY <3>1, <3>2, SameReleased
    <3>5. CarriedOK'
      BY <3>1, <3>2, <3>3, <2>c, SameCarried
    <3>6. QED
      BY <3>4, <3>5
  <2>8. CASE Release(r)
    <3> DEFINE own == OwnedOn(Layer(r), lockId[r])
    <3>1. UNCHANGED <<op, names, fn, lockId>>
      BY <2>8 DEF Release
    <3>2. /\ \A q \in Requests : pos'[q] \in Nat /\ pos'[q] >= pos[q]
          /\ \A q \in Requests : q # r => pos'[q] = pos[q]
          /\ pos'[r] = pos[r] + 1
      BY <2>8, <1>0, NextPos DEF Release
    <3>3. \A k \in Keys : locks'[k] # NoLock => k \notin own /\ locks'[k] = locks[k]
      BY <2>8 DEF Release
    <3>4. CarriedOK'
      BY <3>1, <3>2, <2>c, SameCarried
    <3>5. ReleasedStaysFree'
      <4> SUFFICES ASSUME NEW q \in Requests, op[q] = "release",
                          NEW k \in Keys, locks'[k] # NoLock,
                          locks'[k].lock_id = lockId[q],
                          NEW i \in 1..(pos'[q] - 1), k[1] = names[q][i]
                   PROVE  FALSE
        BY <3>1 DEF ReleasedStaysFree
      <4>1. locks[k] # NoLock /\ locks[k].lock_id = lockId[q] /\ k \notin own
        BY <3>3
      <4>2. i \notin 1..(pos[q] - 1)
        BY <4>1 DEF RInv, ReleasedStaysFree
      <4>3. q = r /\ i = pos[r]
        BY <4>2, <3>2, <1>p
      <4>4. k \in {Layer(r)} \X Fids
        BY <4>3, KeyParts DEF Layer
      <4>5. k \in own
        BY <4>1, <4>3, <4>4 DEF OwnedOn
      <4>6. QED
        BY <4>1, <4>5
    <3>6. QED
      BY <3>4, <3>5
  <2>9. QED
    BY <1>2, <2>1, <2>2, <2>3, <2>4, <2>5, <2>6, <2>7, <2>8 DEF Step
<1>3. QED
  BY <1>1, <1>2 DEF Next

\* A release (wfs_lock.rs, release) is never undone by a renewal under way.
THEOREM Released == Spec => []ReleasedStaysFree
<1>1. RInv => ReleasedStaysFree
  BY DEF RInv
<1>2. QED
  BY <1>1, InitRInv, StepRInv, PTL DEF Spec

-----------------------------------------------------------------------------
\* A lock that lives now lived at every instant that has passed.
LEMMA LivedBefore ==
  ASSUME NEW lock \in Lock \cup {NoLock}, NEW t \in Nat, NEW u \in Nat, t <= u,
         Live(lock, u)
  PROVE  Live(lock, t)
<1>1. lock # NoLock => lock.expires_at \in Nat \cup {Never}
  BY WfsLocksAssumption DEF Lock, Expiries, ExpiryAt
<1>2. QED
  BY <1>1, WfsLocksAssumption DEF Live

\* What each step does to the registry, read as a step of FeatureLease.
LEMMA StepIsLease == IInv /\ [Next]_vars => [Lease!Next]_(Lease!vars)
<1> SUFFICES ASSUME IInv, [Next]_vars
             PROVE  Lease!Next \/ UNCHANGED Lease!vars
  OBVIOUS
<1> USE DEF IInv, TypeOK, RequestOK
<1>0. clock \in Nat /\ \A r \in Requests : now[r] \in Nat /\ now[r] <= clock
  BY WfsLocksAssumption
<1>1. CASE UNCHANGED vars
  BY <1>1 DEF vars, Lease!vars
<1>2. CASE Tick
  BY <1>2 DEF Tick, Lease!Next, Lease!Tick
<1>3. ASSUME NEW r \in Requests, Step(r) PROVE Lease!Next \/ UNCHANGED Lease!vars
  <2>1. CASE UNCHANGED <<clock, locks>>
    BY <2>1 DEF Lease!vars
  <2>2. CASE Prune(r)
    <3> DEFINE K == {k \in Keys : k[1] = Layer(r) /\ ~Live(locks[k], now[r])}
    <3>1. \A k \in K : ~Live(locks[k], clock)
      BY <1>0, LivedBefore
    <3>2. locks' = [k \in Keys |-> IF k \in K THEN NoLock ELSE locks[k]]
      BY <2>2 DEF Prune
    <3>3. Lease!Forget(K)
      BY <2>2, <3>1, <3>2 DEF Lease!Forget, Lease!Running, Live, Prune
    <3>4. QED
      BY <3>3 DEF Lease!Next
  <2>3. CASE AcquireGrant(r)
    <3>1. <<r, pos[r]>> \in LockIds
      BY <2>3, PlaceInLockIds DEF AcquireGrant
    <3>2. ExpiryAt(now[r], ttl[r]) \in Expiries
      BY <2>3, ExpiryInExpiries DEF AcquireGrant
    <3>3. Granted(r) \in SUBSET Keys
      BY <2>3 DEF Granted, Keys, AcquireGrant, Layer
    <3>4. \A k \in Granted(r) : ~Live(locks[k], clock)
      BY <1>0, <3>3, LivedBefore DEF Granted, Conflicts
    <3>5. Lease!Grant(<<r, pos[r]>>, Granted(r), ExpiryAt(now[r], ttl[r]))
      BY <2>3, <3>4 DEF Lease!Grant, Lease!Running, Live, AcquireGrant
    <3>6. QED
      BY <3>1, <3>2, <3>3, <3>5 DEF Lease!Next
  <2>4. CASE Renew(r)
    <3> DEFINE own == OwnedOn(Layer(r), lockId[r])
    <3>1. ExpiryAt(now[r], ttl[r]) \in Expiries
      BY <2>4, ExpiryInExpiries DEF Renew
    <3>2. \A k \in own : k \in Keys /\ locks[k] # NoLock /\ locks[k].lock_id = lockId[r]
      BY <2>4 DEF OwnedOn, Renew, Layer, Keys
    <3>3. CASE own = {}
      <4>1. locks' = locks /\ clock' = clock
        BY <2>4, <3>3 DEF Renew
      <4>2. QED
        BY <4>1, <2>1
    <3>4. CASE own # {}
      <4>1. lockId[r] \in LockIds
        BY <3>2, <3>4 DEF Lock
      <4>2. Lease!Extend(lockId[r], own, ExpiryAt(now[r], ttl[r]))
        BY <2>4, <3>2 DEF Lease!Extend, Renew
      <4>3. own \in SUBSET Keys
        BY <3>2
      <4>4. QED
        BY <3>1, <4>1, <4>2, <4>3 DEF Lease!Next
    <3>5. QED
      BY <3>3, <3>4
  <2>5. CASE Release(r)
    <3> DEFINE own == OwnedOn(Layer(r), lockId[r])
    <3>1. \A k \in own : k \in Keys /\ locks[k] # NoLock /\ locks[k].lock_id = lockId[r]
      BY <2>5 DEF OwnedOn, Release, Layer, Keys
    <3>2. CASE own = {}
      <4>1. locks' = locks /\ clock' = clock
        BY <2>5, <3>2 DEF Release
      <4>2. QED
        BY <4>1, <2>1
    <3>3. CASE own # {}
      <4>1. lockId[r] \in LockIds
        BY <3>1, <3>3 DEF Lock
      <4>2. Lease!GiveBack(lockId[r], own)
        BY <2>5, <3>1 DEF Lease!GiveBack, Release
      <4>3. own \in SUBSET Keys
        BY <3>1
      <4>4. QED
        BY <4>1, <4>2, <4>3 DEF Lease!Next
    <3>4. QED
      BY <3>2, <3>3
  <2>6. QED
    BY <1>3, <2>1, <2>2, <2>3, <2>4, <2>5
       DEF Step, StartLock, StartWithLockId, Query, Abort, Enter,
           AcquireConflict, ReadFeatures, ListLocked
<1>4. QED
  BY <1>1, <1>2, <1>3 DEF Next

\* The registry (wfs_lock.rs: acquire, renew, release, prune) implements the
\* leases of FeatureLease, although every call works with an instant it read
\* before it took the lock.
THEOREM ImplementsLease == Spec => LeaseSpec
<1>1. Init => Lease!Init
  BY DEF Init, Lease!Init
<1>2. QED
  BY <1>1, AlwaysIInv, StepIsLease, PTL DEF Spec, LeaseSpec, Lease!Spec

\* A lock that has not run out changes hands only by a release that carries
\* its owner's id.
THEOREM Exclusive == Spec => ExclusiveUntilExpiry
<1> DEFINE A == \A k \in Keys : Live(locks[k], clock) =>
       \/ locks'[k] # NoLock /\ locks'[k].lock_id = locks[k].lock_id
       \/ \E r \in Requests : /\ fn[r] = "release" /\ pc[r] = "apply"
                              /\ lockId[r] = locks[k].lock_id
<1>1. IInv /\ [Next]_vars => [A]_vars
  <2> SUFFICES ASSUME IInv, Next, NEW k \in Keys, Live(locks[k], clock)
               PROVE  \/ locks'[k] # NoLock /\ locks'[k].lock_id = locks[k].lock_id
                      \/ \E r \in Requests : /\ fn[r] = "release" /\ pc[r] = "apply"
                                             /\ lockId[r] = locks[k].lock_id
    OBVIOUS
  <2>1. CASE locks' = locks
    BY <2>1 DEF Live
  <2>2. ASSUME NEW r \in Requests, Step(r), locks' # locks
        PROVE  \/ locks'[k] # NoLock /\ locks'[k].lock_id = locks[k].lock_id
               \/ \E q \in Requests : /\ fn[q] = "release" /\ pc[q] = "apply"
                                      /\ lockId[q] = locks[k].lock_id
    <3> USE <2>2 DEF IInv, TypeOK, RequestOK
    <3>1. clock \in Nat /\ now[r] \in Nat /\ now[r] <= clock
      BY WfsLocksAssumption
    <3>2. Live(locks[k], now[r])
      BY <3>1, LivedBefore
    <3>3. CASE Prune(r)
      BY <3>2, <3>3 DEF Prune, Live
    <3>4. CASE AcquireGrant(r)
      <4>1. k \notin Granted(r)
        BY <3>2 DEF Granted, Conflicts
      <4>2. locks'[k] = locks[k]
        BY <3>4, <4>1 DEF AcquireGrant
      <4>3. QED
        BY <4>2 DEF Live
    <3>5. CASE Renew(r)
      <4> DEFINE own == OwnedOn(Layer(r), lockId[r])
      <4> DEFINE new == [lock_id |-> lockId[r],
                         expires_at |-> ExpiryAt(now[r], ttl[r])]
      <4>1. locks' = [q \in Keys |-> IF q \in own THEN new ELSE locks[q]]
        BY <3>5 DEF Renew
      <4>2. CASE k \in own
        <5>1. locks[k] # NoLock /\ locks[k].lock_id = lockId[r]
          BY <4>2 DEF OwnedOn
        <5>2. ExpiryAt(now[r], ttl[r]) \in Expiries
          BY <3>5, ExpiryInExpiries DEF Renew
        <5>3. new # NoLock
          BY <5>1, <5>2, LockFacts DEF Lock
        <5>4. QED
          BY <4>1, <4>2, <5>1, <5>3
      <4>3. CASE k \notin own
        BY <4>1, <4>3 DEF Live
      <4>4. QED
        BY <4>2, <4>3
    <3>6. CASE Release(r)
      BY <3>6 DEF Release, OwnedOn, Live
    <3>7. QED
      BY <3>3, <3>4, <3>5, <3>6
         DEF Step, StartLock, StartWithLockId, Query, Abort, Enter,
             AcquireConflict, ReadFeatures, ListLocked
  <2>3. QED
    BY <2>1, <2>2 DEF Next, Tick
<1>2. QED
  BY <1>1, AlwaysIInv, PTL DEF Spec, ExclusiveUntilExpiry
=============================================================================
