------------------------------ MODULE WfsLocks ------------------------------
(***************************************************************************)
(* The WFS feature-lock registry (src/service/src/utils/wfs_lock.rs) and   *)
(* the three handlers that drive it (handlers/wfs_handler.rs): LockFeature *)
(* to acquire, renew and release, and GetFeatureWithLock.                  *)
(*                                                                         *)
(* A request is one HTTP request.  It runs on its own worker thread and    *)
(* works through the layers of TYPENAMES one after the other; for a layer  *)
(* it awaits the feature query, then calls the registry.  A registry call  *)
(* is three steps and not one: it reads the clock, it takes the write lock *)
(* to prune, and it takes the write lock again to do its work with the     *)
(* instant it read at the beginning.  Everything may happen in between.    *)
(***************************************************************************)
EXTENDS Naturals, Sequences

CONSTANTS
  Layers,      \* layer names
  Fids,        \* feature ids
  Requests,    \* the HTTP requests
  TypeNames,   \* the TYPENAMES lists requests may carry
  Ttls,        \* the lock durations requests may ask for (lock_ttl)
  Never,       \* expires_at = None
  NoLock,      \* the value of a feature without an entry
  NoId,        \* a lockId that is still None
  MaxClock     \* the last instant

ASSUME WfsLocksAssumption ==
  /\ TypeNames \subseteq Seq(Layers) \ {<<>>}
  /\ Never \notin Nat
  /\ Ttls \subseteq Nat \cup {Never}
  /\ MaxClock \in Nat
  /\ NoLock \notin [lock_id : Requests \X Nat, expires_at : Nat \cup {Never}]
  /\ NoId \notin Requests \X Nat

Keys == Layers \X Fids

\* Uuid::new_v4: the acquire call for the n-th layer of a request makes an id
\* of its own.
LockIds == Requests \X UNION {DOMAIN tn : tn \in TypeNames}

\* ttl.map(|d| now + d)
ExpiryAt(t, d) == IF d = Never THEN Never ELSE t + d

Expiries == {ExpiryAt(t, d) : t \in 0..MaxClock, d \in Ttls}

Lock == [lock_id : LockIds, expires_at : Expiries]

AcquireOps == {"lock_all", "lock_some", "get_with_lock"}

VARIABLES
  clock,    \* Instant::now()
  locks,    \* the registry: [Keys -> Lock or NoLock]
  pc,       \* where a request is
  op,       \* what it asks for
  ttl,      \* the duration it asks for
  names,    \* its TYPENAMES
  pos,      \* the place in TYPENAMES it has reached
  fids,     \* the features its last query returned
  fn,       \* the registry function it is in
  now,      \* the instant that function read when it was entered
  lockId,   \* the lockId it will return, or the LOCKID it carries
  reply     \* the features it has locked so far; a renewal: those still
            \* locked; a release: those released

reqVars == <<op, ttl, names, pos, fids, fn, now, lockId, reply>>
vars == <<clock, locks, pc, op, ttl, names, pos, fids, fn, now, lockId, reply>>

Init ==
  /\ clock = 0
  /\ locks = [k \in Keys |-> NoLock]
  /\ pc = [r \in Requests |-> "new"]
  /\ op = [r \in Requests |-> "lock_all"]
  /\ ttl = [r \in Requests |-> Never]
  /\ names = [r \in Requests |-> <<>>]
  /\ pos = [r \in Requests |-> 1]
  /\ fids = [r \in Requests |-> {}]
  /\ fn = [r \in Requests |-> "acquire"]
  /\ now = [r \in Requests |-> 0]
  /\ lockId = [r \in Requests |-> NoId]
  /\ reply = [r \in Requests |-> {}]

-----------------------------------------------------------------------------
\* FeatureLock::is_expired, negated, for an entry that may be absent.
Live(lock, t) == lock # NoLock /\ (lock.expires_at = Never \/ lock.expires_at > t)

\* The layer a request is working on.
Layer(r) == names[r][pos[r]]

\* Slip: an entry that is gone counts as owned, and a renewal inserts it.
OwnedOrFree(layer, id) ==
  {k \in {layer} \X Fids : locks[k] = NoLock \/ locks[k].lock_id = id}

\* The features of `layer' owned by `id'.
OwnedOn(layer, id) ==
  {k \in {layer} \X Fids : locks[k] # NoLock /\ locks[k].lock_id = id}

\* The lockIds that replies have made known to clients.
Told == {lockId[q] : q \in {q \in Requests : pc[q] = "done" /\ op[q] \in AcquireOps}}

-----------------------------------------------------------------------------
(* Requests arrive.                                                        *)

StartLock(r) ==
  /\ pc[r] = "new"
  /\ \E o \in AcquireOps, d \in Ttls, tn \in TypeNames :
       /\ op' = [op EXCEPT ![r] = o]
       /\ ttl' = [ttl EXCEPT ![r] = d]
       /\ names' = [names EXCEPT ![r] = tn]
  /\ pc' = [pc EXCEPT ![r] = "query"]
  /\ UNCHANGED <<clock, locks, pos, fids, fn, now, lockId, reply>>

\* LockFeature with a LOCKID: a renewal, or a release if RELEASEACTION=ALL.
StartWithLockId(r) ==
  /\ pc[r] = "new"
  /\ \E id \in Told, o \in {"renew", "release"}, d \in Ttls, tn \in TypeNames :
       /\ lockId' = [lockId EXCEPT ![r] = id]
       /\ op' = [op EXCEPT ![r] = o]
       /\ ttl' = [ttl EXCEPT ![r] = d]
       /\ names' = [names EXCEPT ![r] = tn]
       /\ fn' = [fn EXCEPT ![r] = o]
       /\ pc' = [pc EXCEPT ![r] = IF o = "renew" THEN "enter" ELSE "apply"]
  /\ UNCHANGED <<clock, locks, pos, fids, now, reply>>

-----------------------------------------------------------------------------
(* Steps every registry call shares.                                       *)

\* query_layer_fids: the await returns some of the features of the layer.
Query(r) ==
  /\ pc[r] = "query"
  /\ \E F \in SUBSET Fids : fids' = [fids EXCEPT ![r] = F]
  /\ pc' = [pc EXCEPT ![r] = "enter"]
  /\ UNCHANGED <<clock, locks, op, ttl, names, pos, fn, now, lockId, reply>>

\* The query fails, or the request timeout drops the handler at its await.
Abort(r) ==
  /\ pc[r] \in {"query", "read"}
  /\ pc' = [pc EXCEPT ![r] = "aborted"]
  /\ UNCHANGED <<clock, locks, reqVars>>

\* let now = Instant::now();
Enter(r) ==
  /\ pc[r] = "enter"
  /\ now' = [now EXCEPT ![r] = clock]
  /\ pc' = [pc EXCEPT ![r] = "prune"]
  /\ UNCHANGED <<clock, locks, op, ttl, names, pos, fids, fn, lockId, reply>>

\* Slip: an entry is dropped one instant before it runs out.
PruneEarly(r) ==
  /\ pc[r] = "prune"
  /\ locks' = [k \in Keys |-> IF k[1] = Layer(r) /\ ~Live(locks[k], now[r] + 1)
                              THEN NoLock ELSE locks[k]]
  /\ pc' = [pc EXCEPT ![r] = "apply"]
  /\ UNCHANGED <<clock, reqVars>>

\* self.prune(layer, now), under a write lock of its own.
Prune(r) ==
  /\ pc[r] = "prune"
  /\ locks' = [k \in Keys |-> IF k[1] = Layer(r) /\ ~Live(locks[k], now[r])
                              THEN NoLock ELSE locks[k]]
  /\ pc' = [pc EXCEPT ![r] = "apply"]
  /\ UNCHANGED <<clock, reqVars>>

\* The handler's loop moves on to the next layer, or answers.
NextLayer(r, again, last) ==
  /\ pos' = [pos EXCEPT ![r] = @ + 1]
  /\ pc' = [pc EXCEPT ![r] = IF pos[r] = Len(names[r]) THEN last ELSE again]

-----------------------------------------------------------------------------
(* The second critical section of each registry function.                  *)

\* Slip: lockAction=SOME does not skip what is locked.
ConflictsOfAllOnly(r) ==
  {k \in {Layer(r)} \X fids[r] : op[r] = "lock_all" /\ Live(locks[k], now[r])}

\* The requested features that acquire finds locked at the instant it read.
Conflicts(r) ==
  {k \in {Layer(r)} \X fids[r] : Live(locks[k], now[r])}

Granted(r) == ({Layer(r)} \X fids[r]) \ Conflicts(r)

\* Slip: the features are locked before the conflict is reported.
AcquireConflictAfterInsert(r) ==
  /\ pc[r] = "apply" /\ fn[r] = "acquire"
  /\ op[r] = "lock_all" /\ Conflicts(r) # {}
  /\ locks' = [k \in Keys |-> IF k \in {Layer(r)} \X fids[r]
                              THEN [lock_id |-> <<r, pos[r]>>,
                                    expires_at |-> ExpiryAt(now[r], ttl[r])]
                              ELSE locks[k]]
  /\ pc' = [pc EXCEPT ![r] = "refused"]
  /\ UNCHANGED <<clock, reqVars>>

\* lockAction=ALL: one conflict fails the whole request.
AcquireConflict(r) ==
  /\ pc[r] = "apply" /\ fn[r] = "acquire"
  /\ op[r] = "lock_all" /\ Conflicts(r) # {}
  /\ pc' = [pc EXCEPT ![r] = "refused"]
  /\ UNCHANGED <<clock, locks, reqVars>>

\* The free features are locked under a fresh id.  The handler keeps the id
\* of the first layer only; GetFeatureWithLock queries once more to answer.
AcquireGrant(r) ==
  /\ pc[r] = "apply" /\ fn[r] = "acquire"
  /\ op[r] = "lock_all" => Conflicts(r) = {}
  /\ locks' = [k \in Keys |-> IF k \in Granted(r)
                              THEN [lock_id |-> <<r, pos[r]>>,
                                    expires_at |-> ExpiryAt(now[r], ttl[r])]
                              ELSE locks[k]]
  /\ lockId' = [lockId EXCEPT ![r] = IF @ = NoId THEN <<r, pos[r]>> ELSE @]
  /\ reply' = [reply EXCEPT ![r] = @ \cup Granted(r)]
  /\ NextLayer(r, "query", IF op[r] = "get_with_lock" THEN "read" ELSE "done")
  /\ UNCHANGED <<clock, op, ttl, names, fids, fn, now>>

\* The last query of GetFeatureWithLock returns and the reply is sent.
ReadFeatures(r) ==
  /\ pc[r] = "read"
  /\ pc' = [pc EXCEPT ![r] = "done"]
  /\ UNCHANGED <<clock, locks, reqVars>>

\* Every lock with the id gets a new expiry; only if there was one does the
\* handler go on to list what is locked.
Renew(r) ==
  LET own == OwnedOn(Layer(r), lockId[r]) IN
  /\ pc[r] = "apply" /\ fn[r] = "renew"
  /\ locks' = [k \in Keys |-> IF k \in own
                              THEN [lock_id |-> lockId[r],
                                    expires_at |-> ExpiryAt(now[r], ttl[r])]
                              ELSE locks[k]]
  /\ IF own # {}
     THEN /\ fn' = [fn EXCEPT ![r] = "list"]
          /\ pc' = [pc EXCEPT ![r] = "enter"]
          /\ UNCHANGED pos
     ELSE /\ NextLayer(r, "enter", "done")
          /\ UNCHANGED fn
  /\ UNCHANGED <<clock, op, ttl, names, fids, now, lockId, reply>>

\* locked_features
ListLocked(r) ==
  /\ pc[r] = "apply" /\ fn[r] = "list"
  /\ reply' = [reply EXCEPT ![r] = @ \cup
                 {k \in OwnedOn(Layer(r), lockId[r]) : Live(locks[k], now[r])}]
  /\ fn' = [fn EXCEPT ![r] = "renew"]
  /\ NextLayer(r, "enter", "done")
  /\ UNCHANGED <<clock, locks, op, ttl, names, fids, now, lockId>>

\* release reads no clock and prunes nothing.
Release(r) ==
  LET own == OwnedOn(Layer(r), lockId[r]) IN
  /\ pc[r] = "apply" /\ fn[r] = "release"
  /\ locks' = [k \in Keys |-> IF k \in own THEN NoLock ELSE locks[k]]
  /\ reply' = [reply EXCEPT ![r] = @ \cup own]
  /\ NextLayer(r, "apply", "done")
  /\ UNCHANGED <<clock, op, ttl, names, fids, fn, now, lockId>>

-----------------------------------------------------------------------------
Tick == clock < MaxClock /\ clock' = clock + 1 /\ UNCHANGED <<locks, pc, reqVars>>

Step(r) ==
  \/ StartLock(r) \/ StartWithLockId(r)
  \/ Query(r) \/ Abort(r) \/ Enter(r) \/ Prune(r)
  \/ AcquireConflict(r) \/ AcquireGrant(r) \/ ReadFeatures(r)
  \/ Renew(r) \/ ListLocked(r) \/ Release(r)

Next == Tick \/ \E r \in Requests : Step(r)

Spec == Init /\ [][Next]_vars

-----------------------------------------------------------------------------
(* Every variable has its type.                                            *)
TypeOK ==
  /\ clock \in 0..MaxClock
  /\ locks \in [Keys -> Lock \cup {NoLock}]
  /\ pc \in [Requests -> {"new", "query", "enter", "prune", "apply", "read",
                          "done", "refused", "aborted"}]
  /\ op \in [Requests -> AcquireOps \cup {"renew", "release"}]
  /\ ttl \in [Requests -> Ttls \cup {Never}]
  /\ names \in [Requests -> Seq(Layers)]
  /\ pos \in [Requests -> Nat \ {0}]
  /\ fids \in [Requests -> SUBSET Fids]
  /\ fn \in [Requests -> {"acquire", "renew", "list", "release"}]
  /\ now \in [Requests -> 0..MaxClock]
  /\ lockId \in [Requests -> LockIds \cup {NoId}]
  /\ reply \in [Requests -> SUBSET Keys]

\* A lock that has not run out is never taken over and never lost: whatever
\* stale instants prune, acquire and renew work with, the entry keeps its
\* owner until a release that carries the owner's id removes it.
ExclusiveUntilExpiry ==
  [][\A k \in Keys : Live(locks[k], clock) =>
       \/ locks'[k] # NoLock /\ locks'[k].lock_id = locks[k].lock_id
       \/ \E r \in Requests : /\ fn[r] = "release" /\ pc[r] = "apply"
                              /\ lockId[r] = locks[k].lock_id
    ]_vars

\* The registry implements the leases of FeatureLease.
Lease == INSTANCE FeatureLease WITH
           Owners <- LockIds, Untils <- Expiries,
           NoLease <- NoLock, lease <- locks

LeaseSpec == Lease!Spec

\* lockAction=ALL is all or nothing: a LockFeature that was refused because
\* of a conflict holds no lock, on any of its layers.
AllOrNothing ==
  \A r \in Requests : pc[r] = "refused" =>
    \A k \in Keys : locks[k] # NoLock => locks[k].lock_id[1] # r

\* What does hold of it: a request that was refused on one layer left no lock
\* on that layer or a later one, only on those it had been through before.
RefusedHoldsEarlierOnly ==
  \A r \in Requests : pc[r] = "refused" =>
    \A k \in Keys : locks[k] # NoLock /\ locks[k].lock_id[1] = r
                    => k[1] \in {names[r][i] : i \in 1..(pos[r] - 1)}

\* A released lock stays released: once a release has visited a layer, no
\* renewal that was under way brings the locks of its id back there.
ReleasedStaysFree ==
  \A q \in Requests : op[q] = "release" =>
    \A k \in Keys : locks[k] # NoLock /\ locks[k].lock_id = lockId[q]
                    => k[1] \notin {names[q][i] : i \in 1..(pos[q] - 1)}
=============================================================================
