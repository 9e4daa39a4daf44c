---------------------------- MODULE RateLimiter ----------------------------
(***************************************************************************)
(* The sliding window rate limiter (src/service/src/middleware.rs:         *)
(* RateLimiter, RateLimitMiddleware).                                      *)
(*                                                                         *)
(* A request reads the wall clock, in seconds, BEFORE it locks the table;  *)
(* by the time it has the lock other requests may have worked with a later *)
(* second and have pruned what this one would have counted.  The wall      *)
(* clock may also be set back.                                             *)
(*                                                                         *)
(* The buckets of a client are the set of the requests they count, each    *)
(* with the second it was counted under.                                   *)
(***************************************************************************)
EXTENDS Naturals, FiniteSets

CONSTANTS
  Clients,        \* what client_key resolves a request to
  Arrivals,       \* the requests that arrive, each is used once
  MaxRequests,    \* max_requests, 0 disables the limiter
  WindowSecs,     \* window_secs as configured
  MaxClock        \* bound of the model: the last second

ASSUME LimiterAssumption ==
  /\ MaxRequests \in Nat /\ WindowSecs \in Nat /\ MaxClock \in Nat
  /\ IsFiniteSet(Arrivals)

VARIABLES
  clock,      \* SystemTime::now() in seconds since the epoch
  stage,      \* "new", "locking", "passed" on to the service, or "limited"
  client,     \* its client
  now,        \* now_secs of a request that has read the clock
  counted,    \* the requests in the buckets of a client
  newest,     \* history: the latest second any request of a client worked with
  onTime      \* history: the requests that passed at a second that was not
              \* older than one the table had seen from the client

limiterVars == <<clock, stage, client, now, counted, newest, onTime>>

LimiterInit ==
  /\ clock \in 0..MaxClock
  /\ stage = [r \in Arrivals |-> "new"]
  /\ client \in [Arrivals -> Clients]
  /\ now = [r \in Arrivals |-> 0]
  /\ counted = [c \in Clients |-> {}]
  /\ newest = [c \in Clients |-> 0]
  /\ onTime = {}

-----------------------------------------------------------------------------
\* RateLimiter::new: a window of no second is one of one.
Window == IF WindowSecs = 0 THEN 1 ELSE WindowSecs

\* Slip: the window is one second short.
SinceShort(t) == IF t > Window - 2 THEN t - (Window - 2) ELSE 0

\* window_start, with saturating subtraction
Since(t) == IF t > Window - 1 THEN t - (Window - 1) ELSE 0

\* The buckets of a client that are left after pruning for the second t.
Kept(c, t) == {q \in counted[c] : now[q] >= Since(t)}

\* allow() reads the clock; a limiter of 0 lets the request through at once.
ReadClock(r) ==
  /\ stage[r] = "new"
  /\ now' = [now EXCEPT ![r] = clock]
  /\ stage' = [stage EXCEPT ![r] = IF MaxRequests = 0 THEN "passed" ELSE "locking"]
  /\ UNCHANGED <<clock, client, counted, newest, onTime>>

Seen(r) == IF now[r] > newest[client[r]] THEN now[r] ELSE newest[client[r]]

\* Under the lock: prune, count, and count this one.
Pass(r) ==
  LET c == client[r] IN
  /\ stage[r] = "locking"
  /\ Cardinality(Kept(c, now[r])) < MaxRequests
  /\ counted' = [counted EXCEPT ![c] = Kept(c, now[r]) \cup {r}]
  /\ stage' = [stage EXCEPT ![r] = "passed"]
  /\ newest' = [newest EXCEPT ![c] = Seen(r)]
  /\ onTime' = IF now[r] >= newest[c] THEN onTime \cup {r} ELSE onTime
  /\ UNCHANGED <<clock, client, now>>

\* Under the lock: prune, count, and answer 429.
Limit(r) ==
  LET c == client[r] IN
  /\ stage[r] = "locking"
  /\ Cardinality(Kept(c, now[r])) >= MaxRequests
  /\ counted' = [counted EXCEPT ![c] = Kept(c, now[r])]
  /\ stage' = [stage EXCEPT ![r] = "limited"]
  /\ newest' = [newest EXCEPT ![c] = Seen(r)]
  /\ UNCHANGED <<clock, client, now, onTime>>

\* Time passes, or the wall clock is set to some other second.
SetClock ==
  /\ clock' \in 0..MaxClock
  /\ UNCHANGED <<stage, client, now, counted, newest, onTime>>

LimiterNext ==
  \/ \E r \in Arrivals : ReadClock(r) \/ Pass(r) \/ Limit(r)
  \/ SetClock

LimiterSpec == LimiterInit /\ [][LimiterNext]_limiterVars

-----------------------------------------------------------------------------
(* Properties.                                                             *)

LimiterTypeOK ==
  /\ clock \in Nat
  /\ stage \in [Arrivals -> {"new", "locking", "passed", "limited"}]
  /\ client \in [Arrivals -> Clients]
  /\ now \in [Arrivals -> Nat]
  /\ counted \in [Clients -> SUBSET Arrivals]
  /\ newest \in [Clients -> Nat]
  /\ onTime \in SUBSET Arrivals

\* Of the requests that pass in any window of seconds, those that were not
\* overtaken between reading the clock and getting the lock are at most
\* max_requests per client.  A sum over buckets that others prune must not
\* let more through; a late request may, and is the only one that does.
InWindow(c, s) ==
  {r \in onTime : client[r] = c /\ now[r] \in s..(s + Window - 1)}

WindowHeld ==
  \A c \in Clients, s \in 0..MaxClock :
    Cardinality(InWindow(c, s)) <= MaxRequests

\* A request is answered 429 only when max_requests of the same client have
\* passed at the start of its window or later: neither the requests that
\* were refused nor those of others nor what has left the window count.
LimitedForCause ==
  \A r \in Arrivals : stage[r] = "limited" =>
    Cardinality({q \in Arrivals : /\ stage[q] = "passed"
                                  /\ client[q] = client[r]
                                  /\ now[q] >= Since(now[r])}) >= MaxRequests
=============================================================================
