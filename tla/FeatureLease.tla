---------------------------- MODULE FeatureLease ----------------------------
(***************************************************************************)
(* What the WFS feature locks promise, with no registry, no requests and   *)
(* no interleaving: a feature is leased to at most one owner, a lease that *)
(* has not run out changes hands only when its owner gives it back, and    *)
(* only leases that have run out are forgotten or granted again.           *)
(*                                                                         *)
(* WfsLocks implements this specification.                                 *)
(***************************************************************************)
EXTENDS Naturals

CONSTANTS
  Keys,      \* the things that can be leased: <<layer, feature id>>
  Owners,    \* the identities a lease can be granted to
  Untils,    \* the instants a lease can run out at, and Never
  Never,     \* the expiry of a lease that does not run out
  NoLease    \* the value of a key nobody holds

VARIABLES
  clock,     \* the instant it is
  lease      \* [Keys -> [lock_id, expires_at] or NoLease]

vars == <<clock, lease>>

Running(l, t) == l # NoLease /\ (l.expires_at = Never \/ l.expires_at > t)

Init == clock = 0 /\ lease = [k \in Keys |-> NoLease]

Tick == clock' = clock + 1 /\ UNCHANGED lease

\* `owner' is granted the keys K, none of which is running at this instant.
Grant(owner, K, until) ==
  /\ \A k \in K : ~Running(lease[k], clock)
  /\ lease' = [k \in Keys |-> IF k \in K
                              THEN [lock_id |-> owner, expires_at |-> until]
                              ELSE lease[k]]
  /\ UNCHANGED clock

\* `owner' moves the expiry of leases that are recorded as its own.
Extend(owner, K, until) ==
  /\ \A k \in K : lease[k] # NoLease /\ lease[k].lock_id = owner
  /\ lease' = [k \in Keys |-> IF k \in K
                              THEN [lock_id |-> owner, expires_at |-> until]
                              ELSE lease[k]]
  /\ UNCHANGED clock

\* `owner' gives back leases of its own.
GiveBack(owner, K) ==
  /\ \A k \in K : lease[k] # NoLease /\ lease[k].lock_id = owner
  /\ lease' = [k \in Keys |-> IF k \in K THEN NoLease ELSE lease[k]]
  /\ UNCHANGED clock

\* Leases that have run out may be forgotten at any time.
Forget(K) ==
  /\ \A k \in K : ~Running(lease[k], clock)
  /\ lease' = [k \in Keys |-> IF k \in K THEN NoLease ELSE lease[k]]
  /\ UNCHANGED clock

Next ==
  \/ Tick
  \/ \E K \in SUBSET Keys : Forget(K)
  \/ \E owner \in Owners, K \in SUBSET Keys :
       \/ GiveBack(owner, K)
       \/ \E until \in Untils :
            Grant(owner, K, until) \/ Extend(owner, K, until)

Spec == Init /\ [][Next]_vars
=============================================================================
