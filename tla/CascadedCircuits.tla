-------------------------- MODULE CascadedCircuits --------------------------
(***************************************************************************)
(* Requests to cascaded upstream map servers, with their retries and the   *)
(* circuit breaker of the upstream (src/service/src/utils/cascaded.rs:     *)
(* fetch_cascaded_map, CircuitBreaker, CascadedCircuits).                  *)
(*                                                                         *)
(* The breakers are behind a mutex that is held for one call of allow or   *)
(* record; a request that was allowed talks to the upstream, sleeps and    *)
(* retries without looking at its breaker again, and other requests and    *)
(* time move the breaker meanwhile.  Request slots are reused: a request   *)
(* that is over is "idle" again.                                           *)
(***************************************************************************)
EXTENDS Naturals

CONSTANTS
  Upstreams,      \* upstream GetMap URLs
  Requests,       \* slots for requests in flight
  Threshold,      \* cascaded_circuit_threshold, 0 disables the breakers
  ResetAfter,     \* cascaded_circuit_reset_secs, in ticks
  MaxRetries,     \* cascaded_max_retries
  MaxFailures,    \* where the model stops counting consecutive failures
  None            \* opened_at = None

ASSUME CircuitsAssumption ==
  /\ Threshold \in Nat /\ ResetAfter \in Nat /\ MaxRetries \in Nat
  /\ MaxFailures \in Nat /\ MaxFailures >= Threshold
  /\ None \notin Nat

VARIABLES
  state,      \* [Upstreams -> state]: the state of the breaker
  failures,   \* its consecutive_failures
  elapsed,    \* opened_at.elapsed(), counted up to ResetAfter; or None
  pc,         \* where a request is
  target,     \* its upstream
  attempt     \* its retries so far

breakers == <<state, failures, elapsed>>
vars == <<state, failures, elapsed, pc, target, attempt>>

\* A breaker that has no entry yet behaves as CircuitBreaker::new.
Init ==
  /\ state = [u \in Upstreams |-> "Closed"]
  /\ failures = [u \in Upstreams |-> 0]
  /\ elapsed = [u \in Upstreams |-> None]
  /\ pc = [r \in Requests |-> "idle"]
  /\ target \in [Requests -> Upstreams]
  /\ attempt = [r \in Requests |-> 0]

-----------------------------------------------------------------------------
(* The breaker.                                                            *)

Count(n) == IF n < MaxFailures THEN n + 1 ELSE MaxFailures

WindowOver(u) == elapsed[u] = None \/ elapsed[u] >= ResetAfter

\* allow() returned true: an open breaker whose window is over turns half
\* open; one that is closed or half open lets everything through.
Allowed(u) ==
  IF state[u] = "Open" /\ Threshold > 0
  THEN /\ WindowOver(u)
       /\ state' = [state EXCEPT ![u] = "HalfOpen"]
  ELSE UNCHANGED state

\* Slip: a success does not clear the count.
RecordSuccessKeepCount(u) ==
  /\ state' = [state EXCEPT ![u] = "Closed"]
  /\ elapsed' = [elapsed EXCEPT ![u] = None]
  /\ UNCHANGED failures

\* record_success
RecordSuccess(u) ==
  IF Threshold = 0 THEN UNCHANGED breakers
  ELSE /\ state' = [state EXCEPT ![u] = "Closed"]
       /\ failures' = [failures EXCEPT ![u] = 0]
       /\ elapsed' = [elapsed EXCEPT ![u] = None]

\* record_failure: a half open breaker opens, a closed one does when the
\* count reaches the threshold, and an open one keeps its window.
RecordFailure(u) ==
  IF Threshold = 0 THEN UNCHANGED breakers
  ELSE /\ failures' = [failures EXCEPT ![u] = Count(@)]
       /\ IF state[u] = "HalfOpen" \/ (state[u] = "Closed" /\ failures'[u] >= Threshold)
          THEN /\ state' = [state EXCEPT ![u] = "Open"]
               /\ elapsed' = [elapsed EXCEPT ![u] = 0]
          ELSE UNCHANGED <<state, elapsed>>

-----------------------------------------------------------------------------
(* fetch_cascaded_map.                                                     *)

Enter(r) ==
  /\ pc[r] = "idle"
  /\ \E u \in Upstreams : Allowed(u) /\ target' = [target EXCEPT ![r] = u]
  /\ pc' = [pc EXCEPT ![r] = "call"]
  /\ attempt' = [attempt EXCEPT ![r] = 0]
  /\ UNCHANGED <<failures, elapsed>>

\* The upstream answers.
AnswerOk(r) ==
  /\ pc[r] = "call"
  /\ RecordSuccess(target[r])
  /\ pc' = [pc EXCEPT ![r] = "idle"]
  /\ UNCHANGED <<target, attempt>>

\* A fatal failure, or a transient one with no retry left.
AnswerFail(r) ==
  /\ pc[r] = "call"
  /\ RecordFailure(target[r])
  /\ pc' = [pc EXCEPT ![r] = "idle"]
  /\ UNCHANGED <<target, attempt>>

\* Slip: the retries are not counted.
AnswerTransientForever(r) ==
  /\ pc[r] = "call" /\ attempt[r] < MaxRetries
  /\ pc' = [pc EXCEPT ![r] = "sleep"]
  /\ UNCHANGED <<breakers, target, attempt>>

\* A transient failure with retries left: back off.
AnswerTransient(r) ==
  /\ pc[r] = "call" /\ attempt[r] < MaxRetries
  /\ attempt' = [attempt EXCEPT ![r] = @ + 1]
  /\ pc' = [pc EXCEPT ![r] = "sleep"]
  /\ UNCHANGED <<breakers, target>>

\* The backoff is over; the upstream is called again.
Retry(r) ==
  /\ pc[r] = "sleep"
  /\ pc' = [pc EXCEPT ![r] = "call"]
  /\ UNCHANGED <<breakers, target, attempt>>

\* The request timeout drops the handler: nothing is recorded.
Drop(r) ==
  /\ pc[r] \in {"call", "sleep"}
  /\ pc' = [pc EXCEPT ![r] = "idle"]
  /\ UNCHANGED <<breakers, target, attempt>>

\* One tick of the clock, for every breaker that is counting.
Tick ==
  /\ \E u \in Upstreams : elapsed[u] # None /\ elapsed[u] < ResetAfter
  /\ elapsed' = [u \in Upstreams |->
                   IF elapsed[u] # None /\ elapsed[u] < ResetAfter
                   THEN elapsed[u] + 1 ELSE elapsed[u]]
  /\ UNCHANGED <<state, failures, pc, target, attempt>>

Finish(r) == AnswerOk(r) \/ AnswerFail(r) \/ AnswerTransient(r) \/ Retry(r) \/ Drop(r)

Next == Tick \/ \E r \in Requests : Enter(r) \/ Finish(r)

Spec == Init /\ [][Next]_vars

\* Upstream calls and backoffs end, at the latest by the request timeout.
FairSpec == Spec /\ WF_vars(Tick) /\ \A r \in Requests : WF_vars(Finish(r))

-----------------------------------------------------------------------------
(* Every variable has its type.                                            *)
TypeOK ==
  /\ state \in [Upstreams -> {"Closed", "Open", "HalfOpen"}]
  /\ failures \in [Upstreams -> 0..MaxFailures]
  /\ elapsed \in [Upstreams -> 0..ResetAfter \cup {None}]
  /\ pc \in [Requests -> {"idle", "call", "sleep"}]
  /\ target \in [Requests -> Upstreams]
  /\ attempt \in [Requests -> 0..MaxRetries]

\* The state and the count agree: a breaker is closed exactly as long as the
\* failures since the last success are fewer than the threshold, and only a
\* closed one has no opening instant.
BreakerConsistent ==
  \A u \in Upstreams :
    /\ Threshold > 0 => ((state[u] = "Closed") <=> (failures[u] < Threshold))
    /\ (state[u] = "Closed") <=> (elapsed[u] = None)

\* Breakers only move as the state diagram says: closed to open, open to half
\* open when the whole window has passed, half open to closed or open, and
\* (by a success that comes late) open to closed.
LegalMoves ==
  [][\A u \in Upstreams : state'[u] # state[u] =>
       \/ state[u] = "Closed" /\ state'[u] = "Open"
       \/ state[u] = "Open" /\ state'[u] = "HalfOpen" /\ elapsed[u] = ResetAfter
       \/ state[u] = "HalfOpen"
       \/ state[u] = "Open" /\ state'[u] = "Closed"]_vars

\* The window of an open breaker is counted from its opening: failures that
\* come late do not start it again.
WindowKept ==
  [][\A u \in Upstreams : state[u] = "Open" /\ state'[u] = "Open"
       => elapsed'[u] >= elapsed[u]]_vars

\* Every request ends, whatever its upstream answers.
RequestsEnd == \A r \in Requests : pc[r] # "idle" ~> pc[r] = "idle"

\* After the reset window one probe is let through: while the breaker is half
\* open and the probe is out, no second request joins it.
OneProbe ==
  [][\A r \in Requests : pc[r] = "idle" /\ pc'[r] = "call" /\ state[target'[r]] = "HalfOpen"
       => \A q \in Requests : pc[q] # "idle" => target[q] # target'[r]]_vars
=============================================================================
