------------------------------ MODULE Sessions ------------------------------
(***************************************************************************)
(* Login sessions: the sessions table, and the cache of it that every      *)
(* replica keeps in memory                                                 *)
(* (src/service/src/handlers/auth_handler.rs: issue_login, logout, verify; *)
(* src/service/src/store/cache/session.rs: LocalSessionCache).             *)
(*                                                                         *)
(* The store and the cache are awaited one after the other, so that the    *)
(* steps of requests interleave.  Errors of the store are ignored by login *)
(* and logout and refuse a verification.  A request may be dropped at any  *)
(* await, by its client or by the request timeout, which sees to it that   *)
(* none takes longer than Timeout.  A replica may restart.                 *)
(***************************************************************************)
EXTENDS Naturals

CONSTANTS
  Sessions,       \* jti of the tokens; every login draws a new one
  Replicas,
  Requests,       \* slots for requests in flight
  TTL,            \* session_ttl_secs
  Timeout,        \* the request timeout
  Lifetime,       \* of a session: 24 hours
  Leeway,         \* for which a token outlives its exp (jsonwebtoken)
  MaxClock,       \* bound of the model: the last instant
  None            \* no cache entry, no session

ASSUME SessionsAssumption ==
  /\ TTL \in Nat /\ Timeout \in Nat /\ Lifetime \in Nat /\ Leeway \in Nat
  /\ MaxClock \in Nat /\ None \notin Nat \cup Sessions

VARIABLES
  clock,
  row,        \* the sessions in the store
  cache,      \* [replica][session]: cached_at, or None
  issued,     \* when the token of a session was made
  token,      \* "none"; "issuing"; "issued" to a client; or "lost": the login
              \* was dropped, so that nobody has the token
  pc,         \* where a request is: the step it takes next, or "idle"
  rep,        \* the replica whose slot it is
  sess,       \* its session; None when there is no request
  since,      \* when it began
  held,       \* history: when the store was last given or deprived of a session
  settled     \* history: the <<replica, session>> at which a logout was through
              \* when no verification was about to cache what it had read

vars == <<clock, row, cache, issued, token, pc, rep, sess, since, held, settled>>
request == <<rep, sess, since>>

Init ==
  /\ clock = 0
  /\ row = {}
  /\ cache = [p \in Replicas |-> [j \in Sessions |-> None]]
  /\ issued = [j \in Sessions |-> 0]
  /\ token = [j \in Sessions |-> "none"]
  /\ pc = [r \in Requests |-> "idle"]
  /\ rep \in [Requests -> Replicas]
  /\ sess = [r \in Requests |-> None]
  /\ since = [r \in Requests |-> 0]
  /\ held = [j \in Sessions |-> 0]
  /\ settled = {}

-----------------------------------------------------------------------------
Goto(r, step) == pc' = [pc EXCEPT ![r] = step] /\ UNCHANGED request

Answer(r) ==
  /\ pc' = [pc EXCEPT ![r] = "idle"]
  /\ sess' = [sess EXCEPT ![r] = None]
  /\ since' = [since EXCEPT ![r] = 0]
  /\ UNCHANGED rep

Start(r, j, step) ==
  /\ pc[r] = "idle"
  /\ pc' = [pc EXCEPT ![r] = step]
  /\ sess' = [sess EXCEPT ![r] = j]
  /\ since' = [since EXCEPT ![r] = clock]
  /\ UNCHANGED rep

\* LocalSessionCache::set: cached_at is the instant of the insertion.
Cached(r) == [cache EXCEPT ![rep[r]][sess[r]] = clock]

\* The store loses the sessions in gone.
Remove(gone) ==
  /\ row' = row \ gone
  /\ held' = [j \in Sessions |-> IF j \in row \cap gone THEN clock ELSE held[j]]

-----------------------------------------------------------------------------
(* issue_login                                                             *)

Login(r, j) ==
  /\ token[j] = "none"
  /\ Start(r, j, "create")
  /\ token' = [token EXCEPT ![j] = "issuing"]
  /\ issued' = [issued EXCEPT ![j] = clock]
  /\ UNCHANGED <<clock, row, cache, held, settled>>

\* create_session, whose error is ignored
CreateSession(r) ==
  /\ pc[r] = "create"
  /\ row' \in {row, row \cup {sess[r]}}
  /\ held' = [held EXCEPT ![sess[r]] = clock]
  /\ Goto(r, "cacheNew")
  /\ UNCHANGED <<clock, cache, issued, token, settled>>

CacheNew(r) ==
  /\ pc[r] = "cacheNew"
  /\ cache' = Cached(r)
  /\ Goto(r, "cleanup")
  /\ UNCHANGED <<clock, row, issued, token, held, settled>>

\* cleanup_expired_sessions, whose error is ignored; then the answer
Cleanup(r) ==
  /\ pc[r] = "cleanup"
  /\ \/ Remove({j \in Sessions : issued[j] + Lifetime < clock})
     \/ UNCHANGED <<row, held>>
  /\ token' = [token EXCEPT ![sess[r]] = "issued"]
  /\ Answer(r)
  /\ UNCHANGED <<clock, cache, issued, settled>>

-----------------------------------------------------------------------------
(* logout                                                                  *)

\* verify_token: a client has the token and its exp has not passed.
Valid(j) == token[j] = "issued" /\ clock <= issued[j] + Lifetime + Leeway

Logout(r, j) ==
  /\ Valid(j)
  /\ Start(r, j, "delete")
  /\ UNCHANGED <<clock, row, cache, issued, token, held, settled>>

\* delete_session, whose error is ignored
DeleteSession(r) ==
  /\ pc[r] = "delete"
  /\ Remove({sess[r]}) \/ UNCHANGED <<row, held>>
  /\ Goto(r, "uncache")
  /\ UNCHANGED <<clock, cache, issued, token, settled>>

Uncache(r) ==
  /\ pc[r] = "uncache"
  /\ cache' = [cache EXCEPT ![rep[r]][sess[r]] = None]
  /\ settled' = IF /\ sess[r] \notin row
                   /\ \A q \in Requests : pc[q] = "fill" =>
                        rep[q] # rep[r] \/ sess[q] # sess[r]
                THEN settled \cup {<<rep[r], sess[r]>>} ELSE settled
  /\ Answer(r)
  /\ UNCHANGED <<clock, row, issued, token, held>>

-----------------------------------------------------------------------------
(* verify                                                                  *)

Verify(r, j) ==
  /\ Valid(j)
  /\ Start(r, j, "lookup")
  /\ UNCHANGED <<clock, row, cache, issued, token, held, settled>>

Fresh(p, j) == cache[p][j] # None /\ clock <= cache[p][j] + TTL

\* Slip: a hit renews the entry.
HitRenews(r) ==
  /\ pc[r] = "lookup"
  /\ Fresh(rep[r], sess[r])
  /\ cache' = Cached(r)
  /\ Answer(r)
  /\ UNCHANGED <<clock, row, issued, token, held, settled>>

\* The session is in the cache: accepted.
Hit(r) ==
  /\ pc[r] = "lookup"
  /\ Fresh(rep[r], sess[r])
  /\ Answer(r)
  /\ UNCHANGED <<clock, row, cache, issued, token, held, settled>>

\* There is no entry, or an old one, which is evicted.
Miss(r) ==
  /\ pc[r] = "lookup"
  /\ ~Fresh(rep[r], sess[r])
  /\ cache' = [cache EXCEPT ![rep[r]][sess[r]] = None]
  /\ Goto(r, "read")
  /\ UNCHANGED <<clock, row, issued, token, held, settled>>

\* Slip: what the token says is cached when the store has nothing to say.
FoundInToken(r) ==
  /\ pc[r] = "read"
  /\ Goto(r, "fill")
  /\ UNCHANGED <<clock, row, cache, issued, token, held, settled>>

\* get_session finds the row.
Found(r) ==
  /\ pc[r] = "read"
  /\ sess[r] \in row
  /\ Goto(r, "fill")
  /\ UNCHANGED <<clock, row, cache, issued, token, held, settled>>

\* get_session finds none or fails: refused.  A failure of the store that
\* refuses a session it has changes nothing either.
Refused(r) ==
  /\ pc[r] = "read"
  /\ Answer(r)
  /\ UNCHANGED <<clock, row, cache, issued, token, held, settled>>

\* The row that was read is cached, and accepted.
Fill(r) ==
  /\ pc[r] = "fill"
  /\ cache' = Cached(r)
  /\ Answer(r)
  /\ UNCHANGED <<clock, row, issued, token, held, settled>>

-----------------------------------------------------------------------------
Lost(r) ==
  IF pc[r] \in {"create", "cacheNew", "cleanup"}
  THEN [token EXCEPT ![sess[r]] = "lost"] ELSE token

\* The client closes the connection, or the request is at its deadline.
Drop(r) ==
  /\ pc[r] # "idle"
  /\ Answer(r)
  /\ token' = Lost(r)
  /\ UNCHANGED <<clock, row, cache, issued, held, settled>>

\* A replica starts anew with an empty cache, once what it was doing is lost.
Restart(p) ==
  /\ \A r \in Requests : rep[r] = p => pc[r] = "idle"
  /\ cache' = [cache EXCEPT ![p] = [j \in Sessions |-> None]]
  /\ UNCHANGED <<clock, row, issued, token, pc, request, held, settled>>

\* No request is under way for longer than Timeout.
Tick ==
  /\ clock < MaxClock
  /\ \A r \in Requests : pc[r] # "idle" => clock < since[r] + Timeout
  /\ clock' = clock + 1
  /\ UNCHANGED <<row, cache, issued, token, pc, request, held, settled>>

Serve(r) ==
  \/ \E j \in Sessions :
       Login(r, j) \/ Logout(r, j) \/ Verify(r, j)
  \/ CreateSession(r) \/ CacheNew(r) \/ Cleanup(r)
  \/ DeleteSession(r) \/ Uncache(r)
  \/ Hit(r) \/ Miss(r) \/ Found(r) \/ Refused(r) \/ Fill(r)
  \/ Drop(r)

Next ==
  \/ \E r \in Requests : Serve(r)
  \/ \E p \in Replicas : Restart(p)
  \/ Tick

Spec == Init /\ [][Next]_vars

-----------------------------------------------------------------------------
(* Properties.                                                             *)

TypeOK ==
  /\ clock \in Nat
  /\ row \in SUBSET Sessions
  /\ cache \in [Replicas -> [Sessions -> Nat \cup {None}]]
  /\ issued \in [Sessions -> Nat]
  /\ token \in [Sessions -> {"none", "issuing", "issued", "lost"}]
  /\ pc \in [Requests -> {"idle", "create", "cacheNew", "cleanup", "delete",
                          "uncache", "lookup", "read", "fill"}]
  /\ rep \in [Requests -> Replicas]
  /\ sess \in [Requests -> Sessions \cup {None}]
  /\ since \in [Requests -> Nat]
  /\ held \in [Sessions -> Nat]
  /\ settled \in SUBSET (Replicas \X Sessions)

\* verify() accepts a session that is no longer in the store, on whatever
\* replica, for no longer than one request and one ttl after the store let
\* go of it: a cache entry is as old as the row it was read from, give or
\* take the request that carries it.
AcceptedInTime ==
  [][\A r \in Requests :
       (Hit(r) \/ Fill(r)) /\ sess[r] \notin row =>
         clock <= held[sess[r]] + Timeout + TTL]_vars

\* When a logout is through, its row is gone and no verification on that
\* replica is between reading the row and caching it, then the replica never
\* has the session in its cache again.
SettledIsFinal ==
  \A p \in Replicas, j \in Sessions :
    <<p, j>> \in settled => cache[p][j] = None
=============================================================================
