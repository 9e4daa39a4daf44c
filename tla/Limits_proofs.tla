---------------------------- MODULE Limits_proofs ---------------------------
(***************************************************************************)
(* Proofs about what is let through: by the rate limiter, for any limit,   *)
(* window, number of requests and clients, and any behaviour of the clock; *)
(* by the circuit breakers, for any number of upstreams and requests, any  *)
(* threshold, window and number of retries; and, of the questions of       *)
(* Questions, by the rules of access to layers, for any lists of them;     *)
(* that the tile protocols agree on any grid, at every level; that any     *)
(* backup restores what was saved; and that files are opened as offered.   *)
(***************************************************************************)
EXTENDS RateLimiter, CascadedCircuits, Questions, FiniteSetTheorems,
        WellFoundedInduction, TLAPS

(* RateLimiter.                                                            *)

\* What is counted has passed.
CountedOK ==
  \A c \in Clients : \A q \in counted[c] : stage[q] = "passed" /\ client[q] = c

\* A request that passed on time is still counted, unless the newest window
\* the table has seen begins after it.
OnTimeOK ==
  \A r \in onTime :
    /\ stage[r] = "passed"
    /\ r \in counted[client[r]] \/ now[r] < Since(newest[client[r]])

LimiterInv == LimiterTypeOK /\ CountedOK /\ OnTimeOK /\ WindowHeld

-----------------------------------------------------------------------------
LEMMA WindowNat == Window \in Nat /\ Window >= 1
BY LimiterAssumption DEF Window

LEMMA SinceNat == \A t \in Nat : Since(t) \in Nat /\ Since(t) <= t
BY WindowNat DEF Since

LEMMA SinceMonotone == \A t, u \in Nat : t <= u => Since(t) <= Since(u)
BY WindowNat DEF Since

\* A window that contains t begins no earlier than the window of t.
LEMMA WindowOf ==
  \A s, t \in Nat : t \in s..(s + Window - 1) => Since(t) <= s
BY WindowNat DEF Since

\* Sets of requests are finite, and a larger one has no fewer elements.
LEMMA Larger ==
  ASSUME NEW A \in SUBSET Arrivals, NEW B \in SUBSET A
  PROVE  /\ Cardinality(A) \in Nat /\ Cardinality(B) \in Nat
         /\ Cardinality(B) <= Cardinality(A)
<1>1. IsFiniteSet(A)
  BY FS_Subset, LimiterAssumption
<1>2. QED
  BY <1>1, FS_Subset, FS_CardinalityType

LEMMA InitLimiterInv == LimiterInit => LimiterInv
<1> SUFFICES ASSUME LimiterInit PROVE LimiterInv
  OBVIOUS
<1>1. LimiterTypeOK
  BY LimiterAssumption DEF LimiterInit, LimiterTypeOK
<1>2. CountedOK /\ OnTimeOK
  BY DEF LimiterInit, CountedOK, OnTimeOK
<1>3. ASSUME NEW c \in Clients, NEW s \in 0..MaxClock
      PROVE  Cardinality(InWindow(c, s)) <= MaxRequests
  <2>1. InWindow(c, s) = {}
    BY DEF LimiterInit, InWindow
  <2>2. QED
    BY <2>1, FS_EmptySet, LimiterAssumption
<1>4. QED
  BY <1>1, <1>2, <1>3 DEF LimiterInv, WindowHeld

\* A request that passes, on time, brings no window over the limit.
LEMMA PassHolds ==
  ASSUME LimiterInv, NEW r \in Arrivals, Pass(r) PROVE WindowHeld'
<1>1. SUFFICES ASSUME NEW c \in Clients, NEW s \in 0..MaxClock
               PROVE  Cardinality(InWindow(c, s)') <= MaxRequests
  BY DEF WindowHeld, InWindow
<1>2. /\ now \in [Arrivals -> Nat] /\ now' = now /\ client' = client
      /\ newest \in [Clients -> Nat] /\ client[r] \in Clients
      /\ onTime \in SUBSET Arrivals /\ counted \in [Clients -> SUBSET Arrivals]
  BY DEF LimiterInv, LimiterTypeOK, Pass
<1>3. Cardinality(InWindow(c, s)) <= MaxRequests
  BY DEF LimiterInv, WindowHeld
<1>4. CASE InWindow(c, s)' = InWindow(c, s)
  BY <1>3, <1>4
<1>5. CASE InWindow(c, s)' # InWindow(c, s)
  <2> DEFINE K == Kept(c, now[r])
  <2>1. /\ client[r] = c /\ now[r] \in s..(s + Window - 1) /\ now[r] >= newest[c]
        /\ InWindow(c, s)' = InWindow(c, s) \cup {r}
    BY <1>2, <1>5 DEF Pass, InWindow
  <2>2. s \in Nat /\ newest[c] \in Nat /\ now[r] \in Nat
    BY <1>2, LimiterAssumption
  <2>3. Since(newest[c]) <= s /\ Since(now[r]) <= s
    BY <2>1, <2>2, WindowOf, SinceMonotone, SinceNat
  <2>4. ASSUME NEW q \in InWindow(c, s) PROVE q \in K
    <3>1. q \in onTime /\ client[q] = c /\ now[q] \in Nat /\ now[q] >= s
      BY <1>2, <2>2, WindowNat DEF InWindow
    <3>2. q \in counted[c]
      BY <3>1, <2>2, <2>3, SinceNat DEF LimiterInv, OnTimeOK
    <3>3. QED
      BY <3>1, <3>2, <2>2, <2>3, SinceNat DEF Kept
  <2>5. K \in SUBSET Arrivals /\ Cardinality(K) < MaxRequests
    BY <1>2, <2>1 DEF Kept, Pass
  <2>6. IsFiniteSet(K)
    BY <2>5, FS_Subset, LimiterAssumption
  <2>9. Cardinality(K) \in Nat
    BY <2>6, FS_CardinalityType
  <2>7. Cardinality(K \cup {r}) <= Cardinality(K) + 1
    <3> HIDE DEF K
    <3>1. Cardinality(K \cup {r}) \in {Cardinality(K), Cardinality(K) + 1}
      BY <2>6, FS_AddElement
    <3>2. QED
      BY <3>1, <2>9
  <2>8. /\ Cardinality(K \cup {r}) \in Nat /\ Cardinality(InWindow(c, s)') \in Nat
        /\ Cardinality(InWindow(c, s)') <= Cardinality(K \cup {r})
    <3>1. K \cup {r} \in SUBSET Arrivals
      BY <2>5
    <3>2. InWindow(c, s)' \in SUBSET (K \cup {r})
      BY <2>1, <2>4
    <3>3. QED
      BY <3>1, <3>2, Larger
  <2>10. QED
    BY <2>5, <2>7, <2>8, <2>9, LimiterAssumption
<1>6. QED
  BY <1>4, <1>5

LEMMA StepLimiterInv == LimiterInv /\ [LimiterNext]_limiterVars => LimiterInv'
<1> SUFFICES ASSUME LimiterInv, [LimiterNext]_limiterVars PROVE LimiterInv'
  OBVIOUS
<1>1. LimiterTypeOK /\ CountedOK /\ OnTimeOK /\ WindowHeld
  BY DEF LimiterInv
<1>2. CASE UNCHANGED limiterVars \/ SetClock
  BY <1>1, <1>2, LimiterAssumption
     DEF limiterVars, SetClock, LimiterInv, LimiterTypeOK, CountedOK, OnTimeOK, WindowHeld, InWindow
<1>3. ASSUME NEW r \in Arrivals, ReadClock(r) PROVE LimiterInv'
  <2>1. LimiterTypeOK'
    BY <1>1, <1>3 DEF ReadClock, LimiterTypeOK
  <2>2. CountedOK'
    BY <1>1, <1>3 DEF ReadClock, LimiterTypeOK, CountedOK
  <2>3. \A q \in onTime : q # r
    BY <1>1, <1>3 DEF ReadClock, OnTimeOK
  <2>4. OnTimeOK'
    BY <1>1, <1>3, <2>3 DEF ReadClock, LimiterTypeOK, OnTimeOK
  <2>5. ASSUME NEW c \in Clients, NEW s \in 0..MaxClock
        PROVE  InWindow(c, s)' = InWindow(c, s)
    BY <1>1, <1>3, <2>3 DEF ReadClock, LimiterTypeOK, InWindow
  <2>6. WindowHeld'
    BY <1>1, <2>5 DEF WindowHeld
  <2>7. QED
    BY <2>1, <2>2, <2>4, <2>6 DEF LimiterInv
<1>4. ASSUME NEW r \in Arrivals, Pass(r) \/ Limit(r) PROVE LimiterInv'
  <2> DEFINE c == client[r]
  <2>1. /\ now' = now /\ client' = client /\ c \in Clients
        /\ now[r] \in Nat /\ newest[c] \in Nat /\ stage[r] = "locking"
        /\ newest' = [newest EXCEPT ![c] = Seen(r)] /\ Seen(r) \in Nat
        /\ Seen(r) >= now[r] /\ Seen(r) >= newest[c]
    BY <1>1, <1>4 DEF LimiterTypeOK, Pass, Limit, Seen
  <2>2. LimiterTypeOK'
    BY <1>1, <1>4, <2>1 DEF LimiterTypeOK, Pass, Limit, Kept
  <2>3. CountedOK'
    BY <1>1, <1>4, <2>1 DEF LimiterTypeOK, CountedOK, Pass, Limit, Kept
  <2>4. ASSUME NEW q \in onTime'
        PROVE  /\ stage'[q] = "passed"
               /\ q \in counted'[client[q]] \/ now[q] < Since(newest'[client[q]])
    <3>1. CASE q = r
      <4>1. Pass(r)
        BY <1>1, <1>4, <2>1, <3>1, <2>4 DEF Limit, OnTimeOK
      <4>2. QED
        BY <1>1, <2>1, <3>1, <4>1 DEF Pass, LimiterTypeOK
    <3>2. CASE q # r /\ client[q] # c
      BY <1>1, <1>4, <2>1, <3>2 DEF Pass, Limit, LimiterTypeOK, OnTimeOK
    <3>3. CASE q # r /\ client[q] = c
      <4>1. q \in onTime /\ q \in Arrivals /\ now[q] \in Nat
        BY <1>1, <1>4, <3>3 DEF Pass, Limit, LimiterTypeOK
      <4>2. stage'[q] = "passed" /\ newest'[c] = Seen(r)
        BY <1>1, <1>4, <2>1, <3>3, <4>1 DEF Pass, Limit, LimiterTypeOK, OnTimeOK
      <4>3. Since(now[r]) <= Since(Seen(r)) /\ Since(newest[c]) <= Since(Seen(r))
        BY <2>1, SinceMonotone
      <4>4. Since(now[r]) \in Nat /\ Since(newest[c]) \in Nat /\ Since(Seen(r)) \in Nat
        BY <2>1, SinceNat
      <4>5. q \in Kept(c, now[r]) \/ now[q] < Since(Seen(r))
        BY <1>1, <3>3, <4>1, <4>3, <4>4 DEF OnTimeOK, Kept
      <4>6. Kept(c, now[r]) \subseteq counted'[c]
        BY <1>1, <1>4, <2>1 DEF Pass, Limit, LimiterTypeOK
      <4>7. QED
        BY <3>3, <4>2, <4>5, <4>6
    <3>4. QED
      BY <3>1, <3>2, <3>3
  <2>5. OnTimeOK'
    BY <2>1, <2>4 DEF OnTimeOK
  <2>6. WindowHeld'
    <3>1. CASE Pass(r)
      BY <3>1, PassHolds
    <3>2. CASE Limit(r)
      BY <1>1, <3>2 DEF Limit, WindowHeld, InWindow
    <3>3. QED
      BY <1>4, <3>1, <3>2
  <2>7. QED
    BY <2>2, <2>3, <2>5, <2>6 DEF LimiterInv
<1>5. QED
  BY <1>2, <1>3, <1>4 DEF LimiterNext

THEOREM AlwaysLimiterInv == LimiterSpec => []LimiterInv
BY InitLimiterInv, StepLimiterInv, PTL DEF LimiterSpec

\* The requests of a client that pass on time are at most max_requests in
\* every window (allow of RateLimiter).
THEOREM WindowIsHeld == LimiterSpec => []WindowHeld
<1>1. LimiterInv => WindowHeld
  BY DEF LimiterInv
<1>2. QED
  BY <1>1, AlwaysLimiterInv, PTL

-----------------------------------------------------------------------------
Passed(r) ==
  {q \in Arrivals : stage[q] = "passed" /\ client[q] = client[r] /\ now[q] >= Since(now[r])}

LEMMA StepCause ==
  LimiterInv /\ LimitedForCause /\ [LimiterNext]_limiterVars => LimitedForCause'
<1> SUFFICES ASSUME LimiterInv, LimitedForCause, [LimiterNext]_limiterVars PROVE LimitedForCause'
  OBVIOUS
<1>1. LimiterTypeOK /\ CountedOK
  BY DEF LimiterInv
<1>2. SUFFICES ASSUME NEW r \in Arrivals, stage'[r] = "limited"
               PROVE  Cardinality(Passed(r)') >= MaxRequests
  BY DEF LimitedForCause, Passed
<1>3. Passed(r)' \in SUBSET Arrivals
  BY DEF Passed
<1>4. CASE stage[r] = "limited"
  <2>1. now'[r] = now[r] /\ client' = client
    BY <1>1, <1>4 DEF LimiterTypeOK, LimiterNext, limiterVars, ReadClock, Pass, Limit, SetClock
  <2>2. ASSUME NEW q \in Arrivals, stage[q] = "passed"
        PROVE  stage'[q] = "passed" /\ now'[q] = now[q]
    BY <1>1, <2>2 DEF LimiterTypeOK, LimiterNext, limiterVars, ReadClock, Pass, Limit, SetClock
  <2>3. Passed(r) \in SUBSET Passed(r)'
    BY <2>1, <2>2 DEF Passed
  <2>4. Cardinality(Passed(r)) >= MaxRequests
    BY <1>4 DEF LimitedForCause, Passed
  <2>5. QED
    BY <1>3, <2>3, <2>4, Larger, LimiterAssumption
<1>5. CASE stage[r] # "limited"
  <2>1. Limit(r)
    BY <1>1, <1>2, <1>5 DEF LimiterTypeOK, LimiterNext, limiterVars, ReadClock, Pass, Limit, SetClock
  <2>2. Kept(client[r], now[r]) \in SUBSET Passed(r)'
    BY <1>1, <2>1 DEF LimiterTypeOK, CountedOK, Limit, Kept, Passed
  <2>3. Cardinality(Kept(client[r], now[r])) >= MaxRequests
    BY <2>1 DEF Limit
  <2>4. QED
    BY <1>3, <2>2, <2>3, Larger, LimiterAssumption
<1>6. QED
  BY <1>4, <1>5

\* A request is refused only when max_requests of its client have passed
\* since the start of its window (allow of RateLimiter).
THEOREM LimitedWithCause == LimiterSpec => []LimitedForCause
<1>1. LimiterInit => LimitedForCause
  BY DEF LimiterInit, LimitedForCause
<1>2. QED
  BY <1>1, StepCause, AlwaysLimiterInv, PTL DEF LimiterSpec

-----------------------------------------------------------------------------
(* CascadedCircuits.                                                       *)

CircuitsInv == TypeOK /\ BreakerConsistent

-----------------------------------------------------------------------------
LEMMA InitCircuitsInv == Init => CircuitsInv
BY CircuitsAssumption DEF Init, CircuitsInv, TypeOK, BreakerConsistent

\* What a request does to the breaker of its upstream keeps it consistent.
LEMMA AllowedOK ==
  ASSUME CircuitsInv, NEW u \in Upstreams, Allowed(u), UNCHANGED <<failures, elapsed>>
  PROVE  state' \in [Upstreams -> {"Closed", "Open", "HalfOpen"}] /\ BreakerConsistent'
BY CircuitsAssumption DEF CircuitsInv, TypeOK, BreakerConsistent, Allowed

LEMMA SuccessOK ==
  ASSUME CircuitsInv, NEW u \in Upstreams, RecordSuccess(u)
  PROVE  /\ state' \in [Upstreams -> {"Closed", "Open", "HalfOpen"}]
         /\ failures' \in [Upstreams -> 0..MaxFailures]
         /\ elapsed' \in [Upstreams -> 0..ResetAfter \cup {None}]
         /\ BreakerConsistent'
BY CircuitsAssumption DEF CircuitsInv, TypeOK, BreakerConsistent, RecordSuccess, breakers

LEMMA FailureOK ==
  ASSUME CircuitsInv, NEW u \in Upstreams, RecordFailure(u)
  PROVE  /\ state' \in [Upstreams -> {"Closed", "Open", "HalfOpen"}]
         /\ failures' \in [Upstreams -> 0..MaxFailures]
         /\ elapsed' \in [Upstreams -> 0..ResetAfter \cup {None}]
         /\ BreakerConsistent'
<1> USE CircuitsAssumption DEF CircuitsInv, TypeOK, BreakerConsistent
<1>1. CASE Threshold = 0
  BY <1>1 DEF RecordFailure, breakers
<1>2. CASE Threshold # 0
  <2>1. /\ Count(failures[u]) \in 0..MaxFailures
        /\ Count(failures[u]) >= failures[u]
        /\ failures[u] >= Threshold => Count(failures[u]) >= Threshold
    BY DEF Count
  <2>2. failures' = [failures EXCEPT ![u] = Count(failures[u])]
    BY <1>2 DEF RecordFailure
  <2>3. CASE state[u] = "HalfOpen" \/ (state[u] = "Closed" /\ failures'[u] >= Threshold)
    <3>1. /\ state' = [state EXCEPT ![u] = "Open"]
          /\ elapsed' = [elapsed EXCEPT ![u] = 0]
      BY <1>2, <2>3 DEF RecordFailure
    <3>2. failures'[u] >= Threshold
      BY <1>2, <2>1, <2>2, <2>3
    <3>3. QED
      BY <2>1, <2>2, <3>1, <3>2
  <2>4. CASE ~(state[u] = "HalfOpen" \/ (state[u] = "Closed" /\ failures'[u] >= Threshold))
    <3>1. state' = state /\ elapsed' = elapsed
      BY <1>2, <2>4 DEF RecordFailure
    <3>2. state[u] = "Closed" <=> failures'[u] < Threshold
      BY <1>2, <2>1, <2>2, <2>4
    <3>3. QED
      BY <2>1, <2>2, <3>1, <3>2
  <2>5. QED
    BY <2>3, <2>4
<1>3. QED
  BY <1>1, <1>2

LEMMA StepCircuitsInv == CircuitsInv /\ [Next]_vars => CircuitsInv'
<1> SUFFICES ASSUME CircuitsInv, [Next]_vars PROVE CircuitsInv'
  OBVIOUS
<1> USE CircuitsAssumption DEF CircuitsInv
<1>1. CASE UNCHANGED vars
  BY <1>1 DEF vars, TypeOK, BreakerConsistent
<1>2. CASE Tick
  <2>1. elapsed' \in [Upstreams -> 0..ResetAfter \cup {None}]
    BY <1>2 DEF Tick, TypeOK
  <2>2. \A u \in Upstreams : elapsed'[u] = None <=> elapsed[u] = None
    BY <1>2 DEF Tick, TypeOK
  <2>3. QED
    BY <1>2, <2>1, <2>2 DEF Tick, TypeOK, BreakerConsistent
<1>3. ASSUME NEW r \in Requests, Enter(r) PROVE CircuitsInv'
  <2>1. PICK u \in Upstreams : Allowed(u) /\ target' = [target EXCEPT ![r] = u]
    BY <1>3 DEF Enter
  <2>2. QED
    BY <1>3, <2>1, AllowedOK DEF Enter, TypeOK
<1>4. ASSUME NEW r \in Requests, Finish(r) PROVE CircuitsInv'
  <2>1. target[r] \in Upstreams
    BY DEF TypeOK
  <2>2. CASE AnswerOk(r)
    BY <2>1, <2>2, SuccessOK DEF AnswerOk, TypeOK
  <2>3. CASE AnswerFail(r)
    BY <2>1, <2>3, FailureOK DEF AnswerFail, TypeOK
  <2>4. CASE AnswerTransient(r) \/ Retry(r) \/ Drop(r)
    <3>1. /\ pc' \in [Requests -> {"idle", "call", "sleep"}]
          /\ attempt' \in [Requests -> 0..MaxRetries]
          /\ target' = target
      BY <2>4 DEF AnswerTransient, Retry, Drop, TypeOK
    <3>2. UNCHANGED breakers
      BY <2>4 DEF AnswerTransient, Retry, Drop
    <3>3. QED
      BY <3>1, <3>2 DEF breakers, TypeOK, BreakerConsistent
  <2>5. QED
    BY <1>4, <2>2, <2>3, <2>4 DEF Finish
<1>5. QED
  BY <1>1, <1>2, <1>3, <1>4 DEF Next

\* A breaker (cascaded.rs, CircuitBreaker) is closed exactly while fewer
\* failures than the threshold were recorded since the last success, and it
\* has an opening instant exactly when it is not closed.
THEOREM Consistent == Spec => []BreakerConsistent
BY InitCircuitsInv, StepCircuitsInv, PTL DEF Spec, CircuitsInv

\* Failures recorded while a breaker is open never start its window again.
THEOREM WindowIsKept == Spec => WindowKept
<1> DEFINE A == \A u \in Upstreams : state[u] = "Open" /\ state'[u] = "Open"
                  => elapsed'[u] >= elapsed[u]
<1>1. CircuitsInv /\ [Next]_vars => [A]_vars
  <2> SUFFICES ASSUME CircuitsInv, Next, NEW u \in Upstreams,
                      state[u] = "Open", state'[u] = "Open"
               PROVE  elapsed'[u] >= elapsed[u]
    OBVIOUS
  <2>1. /\ elapsed[u] \in 0..ResetAfter
        /\ elapsed \in [Upstreams -> 0..ResetAfter \cup {None}]
        /\ state \in [Upstreams -> {"Closed", "Open", "HalfOpen"}]
    BY DEF CircuitsInv, TypeOK, BreakerConsistent
  <2>2. CASE elapsed' = elapsed
    BY <2>1, <2>2
  <2>3. CASE Tick
    BY <2>1, <2>3, CircuitsAssumption DEF Tick
  <2>4. ASSUME NEW r \in Requests, AnswerOk(r) PROVE elapsed'[u] >= elapsed[u]
    <3>1. CASE Threshold = 0
      BY <2>1, <2>4, <3>1 DEF AnswerOk, RecordSuccess, breakers
    <3>2. CASE Threshold # 0
      BY <2>1, <2>4, <3>2 DEF AnswerOk, RecordSuccess
    <3>3. QED
      BY <3>1, <3>2
  <2>5. ASSUME NEW r \in Requests, AnswerFail(r) PROVE elapsed'[u] >= elapsed[u]
    <3>1. CASE Threshold = 0
      BY <2>1, <2>5, <3>1 DEF AnswerFail, RecordFailure, breakers
    <3>2. CASE Threshold # 0
      BY <2>1, <2>5, <3>2 DEF AnswerFail, RecordFailure
    <3>3. QED
      BY <3>1, <3>2
  <2>6. QED
    BY <2>2, <2>3, <2>4, <2>5
       DEF Next, Enter, Finish, AnswerTransient, Retry, Drop, breakers
<1>2. QED
  BY <1>1, InitCircuitsInv, StepCircuitsInv, PTL DEF Spec, WindowKept

\* Breakers and requests stay well typed; in particular no request is retried
\* more often than it may be.
THEOREM CircuitsTypeCorrect == Spec => []TypeOK
BY InitCircuitsInv, StepCircuitsInv, PTL DEF Spec, CircuitsInv

\* Whatever order answers, timeouts and the clock come in, a breaker makes the
\* moves of its diagram only: in particular it is half open only after its
\* whole window (CircuitBreaker::allow).
THEOREM MovesAreLegal == Spec => LegalMoves
<1> DEFINE Move(u) == state'[u] # state[u] =>
             \/ state[u] = "Closed" /\ state'[u] = "Open"
             \/ state[u] = "Open" /\ state'[u] = "HalfOpen" /\ elapsed[u] = ResetAfter
             \/ state[u] = "HalfOpen"
             \/ state[u] = "Open" /\ state'[u] = "Closed"
<1>1. CircuitsInv /\ [Next]_vars => [\A u \in Upstreams : Move(u)]_vars
  <2> SUFFICES ASSUME CircuitsInv, Next, NEW u \in Upstreams PROVE Move(u)
    OBVIOUS
  <2>1. /\ state \in [Upstreams -> {"Closed", "Open", "HalfOpen"}]
        /\ target \in [Requests -> Upstreams]
        /\ state[u] # "Closed" => elapsed[u] \in 0..ResetAfter
    BY DEF CircuitsInv, TypeOK, BreakerConsistent
  <2>2. CASE state' = state
    BY <2>2
  <2>3. ASSUME NEW r \in Requests, Enter(r) PROVE Move(u)
    BY <2>1, <2>3, CircuitsAssumption DEF Enter, Allowed, WindowOver
  <2>4. ASSUME NEW r \in Requests, AnswerOk(r) PROVE Move(u)
    BY <2>1, <2>4 DEF AnswerOk, RecordSuccess, breakers
  <2>5. ASSUME NEW r \in Requests, AnswerFail(r) PROVE Move(u)
    BY <2>1, <2>5 DEF AnswerFail, RecordFailure, breakers
  <2>6. QED
    BY <2>2, <2>3, <2>4, <2>5
       DEF Next, Tick, Finish, AnswerTransient, Retry, Drop, breakers
<1>2. QED
  BY <1>1, InitCircuitsInv, StepCircuitsInv, PTL DEF Spec, LegalMoves

-----------------------------------------------------------------------------
(* Questions: access rules.                                                *)

\* What evaluate keeps of the rule p, when best is the best of those before it.
Keep(p, best, ctx) ==
  IF Applies(p, ctx) /\ (best = <<>> \/ Beats(p, best[1], ctx)) THEN <<p>> ELSE best

\* best has the best rule after each of the first m rules.
Runs(best, rules, ctx, m) ==
  /\ best = [n \in 0 .. m |-> best[n]]
  /\ best[0] = <<>>
  /\ \A n \in 1 .. m : best[n] = Keep(rules[n], best[n - 1], ctx)

\* A set of naturals that has 0, and with each number below m the next one, has
\* all up to m.
LEMMA UpTo ==
  ASSUME NEW m \in Nat, NEW S, 0 \in S, \A n \in 0 .. (m - 1) : n \in S => n + 1 \in S
  PROVE  \A n \in 0 .. m : n \in S
  <1> SUFFICES ASSUME NEW z \in 0 .. m, z \notin S PROVE FALSE
    OBVIOUS
  <1> DEFINE Less == {p \in Nat \X Nat : p[1] < p[2]}
             Out == {n \in 0 .. m : n \notin S}
  <1>1. IsWellFoundedOn(Less, Nat)
    <2>1. Less = OpToRel(<, Nat)
      BY DEF OpToRel
    <2>. QED  BY <2>1, NatLessThanWellFounded
  <1>2. PICK n \in Out : \A k \in Out : <<k, n>> \notin Less
    <2>1. Out \subseteq Nat /\ Out # {}
      OBVIOUS
    <2> HIDE DEF Less, Out
    <2>. QED  BY <1>1, <2>1, WFMin
  <1>3. n \in 0 .. m /\ n \notin S /\ n # 0
    BY <1>2
  <1>4. n - 1 \in 0 .. (m - 1)
    BY <1>3
  <1>5. <<n - 1, n>> \in Less
    BY <1>3
  <1>6. n - 1 \in S
    BY <1>2, <1>4, <1>5
  <1>7. (n - 1) + 1 \in S
    BY <1>4, <1>6
  <1>. QED  BY <1>3, <1>7

LEMMA SomeRun ==
  ASSUME NEW rules, NEW ctx, NEW m \in Nat
  PROVE  \E best : Runs(best, rules, ctx, m)
  <1> DEFINE S == {n \in 0 .. m : \E best : Runs(best, rules, ctx, n)}
  <1>1. 0 \in S
    <2>1. Runs([i \in 0 .. 0 |-> <<>>], rules, ctx, 0)
      BY DEF Runs
    <2>. QED  BY <2>1
  <1>2. ASSUME NEW n \in 0 .. (m - 1), n \in S PROVE n + 1 \in S
    <2>1. PICK b : Runs(b, rules, ctx, n)
      BY <1>2
    <2> DEFINE next == Keep(rules[n + 1], b[n], ctx)
               c == [i \in 0 .. (n + 1) |-> IF i <= n THEN b[i] ELSE next]
    <2>2. c = [i \in 0 .. (n + 1) |-> c[i]] /\ c[0] = <<>>
      BY <2>1 DEF Runs
    <2>3. ASSUME NEW i \in 1 .. (n + 1) PROVE c[i] = Keep(rules[i], c[i - 1], ctx)
      <3>1. c[i - 1] = b[i - 1]
        OBVIOUS
      <3>2. CASE i <= n
        <4>1. c[i] = b[i] /\ i \in 1 .. n
          BY <3>2
        <4>. QED  BY <2>1, <3>1, <4>1 DEF Runs
      <3>3. CASE i = n + 1
        <4>1. c[i] = next /\ i - 1 = n
          BY <3>3
        <4>. QED  BY <3>1, <3>3, <4>1
      <3>. QED  BY <3>2, <3>3
    <2>4. Runs(c, rules, ctx, n + 1)
      <3> HIDE DEF c
      <3>. QED  BY <2>2, <2>3 DEF Runs
    <2>. QED  BY <2>4
  <1> HIDE DEF S
  <1>3. m \in S
    BY <1>1, <1>2, UpTo
  <1>. QED  BY <1>3 DEF S

\* evaluate goes through the rules as Runs says.
LEMMA DeciderRuns ==
  ASSUME NEW T, NEW rules \in Seq(T), NEW ctx
  PROVE  \E best : Runs(best, rules, ctx, Len(rules)) /\ Decider(rules, ctx) = best[Len(rules)]
  <1> DEFINE Body(best) ==
        [n \in 0 .. Len(rules) |->
            IF n = 0 THEN <<>>
            ELSE IF /\ Applies(rules[n], ctx)
                    /\ best[n - 1] = <<>> \/ Beats(rules[n], best[n - 1][1], ctx)
                 THEN <<rules[n]>> ELSE best[n - 1]]
             f == CHOOSE best : best = Body(best)
             m == Len(rules)
  <1>0. m \in Nat
    OBVIOUS
  <1>1. PICK b : Runs(b, rules, ctx, m)
    BY <1>0, SomeRun
  <1>2. b = Body(b)
    <2>1. ASSUME NEW n \in 0 .. m PROVE b[n] = Body(b)[n]
      <3>1. CASE n = 0
        BY <1>1, <3>1 DEF Runs
      <3>2. CASE n # 0
        BY <1>1, <3>2 DEF Runs, Keep
      <3>. QED  BY <3>1, <3>2
    <2>2. b = [n \in 0 .. m |-> b[n]]
      BY <1>1 DEF Runs
    <2>3. Body(b) = [n \in 0 .. m |-> Body(b)[n]]
      OBVIOUS
    <2> HIDE DEF Body, m
    <2>4. [n \in 0 .. m |-> b[n]] = [n \in 0 .. m |-> Body(b)[n]]
      BY <2>1
    <2>. QED  BY <2>2, <2>3, <2>4
  <1>3. f = Body(f)
    <2> HIDE DEF Body
    <2>. QED  BY <1>2
  <1>4. Decider(rules, ctx) = f[m]
    BY DEF Decider
  <1>5. Runs(f, rules, ctx, m)
    <2>1. ASSUME NEW n \in 0 .. m PROVE f[n] = Body(f)[n]
      <3> HIDE DEF Body, f
      <3>. QED  BY <1>3
    <2> HIDE DEF f
    <2>2. f = [n \in 0 .. m |-> f[n]]
      <3>1. Body(f) = [n \in 0 .. m |-> Body(f)[n]]
        OBVIOUS
      <3> HIDE DEF Body, m
      <3>2. [n \in 0 .. m |-> f[n]] = [n \in 0 .. m |-> Body(f)[n]]
        BY <2>1
      <3>. QED  BY <1>3, <3>1, <3>2
    <2>3. f[0] = <<>>
      <3>1. 0 \in 0 .. m
        BY <1>0
      <3>2. f[0] = Body(f)[0]
        <4> HIDE DEF Body, m
        <4>. QED  BY <2>1, <3>1
      <3>. QED  BY <3>1, <3>2
    <2>4. ASSUME NEW n \in 1 .. m PROVE f[n] = Keep(rules[n], f[n - 1], ctx)
      BY <2>1 DEF Keep
    <2>. QED  BY <2>2, <2>3, <2>4 DEF Runs
  <1>. QED  BY <1>4, <1>5

-----------------------------------------------------------------------------
LEMMA ScoresAreIntegers ==
  \A p, ctx : Score(p, ctx) \in Int
  BY DEF Score, ResourceScore, SubjectScore, NoMatch

\* What holds of the best of the first n rules: it is one of those that apply,
\* and none of the others that apply beats it.
Stands(best, rules, ctx, n) ==
  \/ best = <<>> /\ \A i \in 1 .. n : ~Applies(rules[i], ctx)
  \/ \E k \in 1 .. n :
       /\ best = <<rules[k]>> /\ Applies(rules[k], ctx)
       /\ \A i \in 1 .. n : Applies(rules[i], ctx) => ~Beats(rules[i], rules[k], ctx)

\* Whoever does not beat the one that is beaten does not beat the winner.
LEMMA BeatsIsOrder ==
  ASSUME NEW p, NEW q, NEW r, NEW ctx, AreRules({p, q, r}),
         Beats(p, q, ctx), ~Beats(r, q, ctx)
  PROVE  ~Beats(r, p, ctx)
  BY ScoresAreIntegers DEF Beats, AreRules

LEMMA NobodyBeatsItself ==
  ASSUME NEW p, NEW ctx, AreRules({p})
  PROVE  ~Beats(p, p, ctx)
  BY ScoresAreIntegers DEF Beats, AreRules

LEMMA BestStands ==
  ASSUME NEW T, AreRules(T), NEW rules \in Seq(T), NEW ctx, NEW best,
         Runs(best, rules, ctx, Len(rules))
  PROVE  Stands(best[Len(rules)], rules, ctx, Len(rules))
  <1> DEFINE m == Len(rules)
             S == {n \in 0 .. m : Stands(best[n], rules, ctx, n)}
  <1>1. 0 \in S
    BY DEF Runs, Stands
  <1>2. ASSUME NEW n \in 0 .. (m - 1), n \in S PROVE n + 1 \in S
    <2> DEFINE p == rules[n + 1]
    <2>0. n + 1 \in 1 .. m /\ \A i \in 1 .. m : rules[i] \in T
      OBVIOUS
    <2>1. best[n + 1] = Keep(p, best[n], ctx)
      <3>1. (n + 1) - 1 = n
        OBVIOUS
      <3>. QED  BY <2>0, <3>1 DEF Runs
    <2>2. Stands(best[n], rules, ctx, n)
      BY <1>2
    <2>3. \A i \in 1 .. (n + 1) : i \in 1 .. n \/ i = n + 1
      OBVIOUS
    <2>a. SUFFICES Stands(best[n + 1], rules, ctx, n + 1)
      BY <2>0
    <2>4. CASE ~Applies(p, ctx)
      <3>1. best[n + 1] = best[n]
        BY <2>1, <2>4 DEF Keep
      <3>. QED  BY <2>0, <2>2, <2>3, <2>4, <3>1 DEF Stands
    <2>5. CASE Applies(p, ctx) /\ best[n] = <<>>
      <3>1. best[n + 1] = <<p>>
        BY <2>1, <2>5 DEF Keep
      <3>2. \A i \in 1 .. n : ~Applies(rules[i], ctx)
        BY <2>2, <2>5 DEF Stands
      <3>3. ~Beats(p, p, ctx)
        BY <2>0, NobodyBeatsItself DEF AreRules
      <3>. QED  BY <2>0, <2>3, <2>5, <3>1, <3>2, <3>3 DEF Stands
    <2>6. CASE Applies(p, ctx) /\ best[n] # <<>>
      <3>1. PICK k \in 1 .. n :
              /\ best[n] = <<rules[k]>> /\ Applies(rules[k], ctx)
              /\ \A i \in 1 .. n : Applies(rules[i], ctx) => ~Beats(rules[i], rules[k], ctx)
        BY <2>2, <2>6 DEF Stands
      <3>2. CASE Beats(p, rules[k], ctx)
        <4>1. best[n + 1] = <<p>>
          BY <2>1, <2>6, <3>1, <3>2 DEF Keep
        <4>2. ~Beats(p, p, ctx)
          BY <2>0, NobodyBeatsItself DEF AreRules
        <4>3. ASSUME NEW i \in 1 .. n, Applies(rules[i], ctx) PROVE ~Beats(rules[i], p, ctx)
          <5>1. AreRules({p, rules[k], rules[i]})
            BY <2>0, <3>1 DEF AreRules
          <5>2. ~Beats(rules[i], rules[k], ctx)
            BY <3>1, <4>3
          <5> HIDE DEF p
          <5>. QED  BY <3>2, <5>1, <5>2, BeatsIsOrder
        <4>4. \A i \in 1 .. (n + 1) : Applies(rules[i], ctx) => ~Beats(rules[i], p, ctx)
          BY <2>3, <4>2, <4>3
        <4>5. n + 1 \in 1 .. (n + 1)
          OBVIOUS
        <4>. QED  BY <2>6, <4>1, <4>4, <4>5 DEF Stands
      <3>3. CASE ~Beats(p, rules[k], ctx)
        <4>1. best[n + 1] = <<rules[k]>>
          BY <2>1, <2>6, <3>1, <3>3 DEF Keep
        <4>2. k \in 1 .. (n + 1)
          OBVIOUS
        <4>3. \A i \in 1 .. (n + 1) : Applies(rules[i], ctx) => ~Beats(rules[i], rules[k], ctx)
          BY <2>3, <3>1, <3>3
        <4>. QED  BY <3>1, <4>1, <4>2, <4>3 DEF Stands
      <3>. QED  BY <3>2, <3>3
    <2>. QED  BY <2>4, <2>5, <2>6
  <1>3. m \in Nat
    OBVIOUS
  <1> HIDE DEF S, m
  <1>4. \A n \in 0 .. (m - 1) : n \in S => n + 1 \in S
    BY <1>2
  <1>5. \A n \in 0 .. m : n \in S
    BY <1>1, <1>3, <1>4, UpTo
  <1>6. m \in S
    BY <1>3, <1>5
  <1>. QED  BY <1>6 DEF S, m

\* The one pass of evaluate, which keeps a single rule, decides by the rules
\* that its own ranks put first, for every list of rules in any order: of those
\* of the highest rank by those of the highest priority, and if these do not
\* agree, it denies.
LEMMA ScoresDecide ==
  ASSUME NEW T, AreRules(T), NEW rules \in Seq(T), NEW ctx
  PROVE  Evaluate(rules, ctx) = BestAllow(rules, ctx)
  <1> DEFINE best == Decider(rules, ctx)
             m == Len(rules)
  <1>1. Stands(best, rules, ctx, m)
    <2>1. PICK b : Runs(b, rules, ctx, m) /\ best = b[m]
      BY DeciderRuns
    <2> HIDE DEF best
    <2>. QED  BY <2>1, BestStands
  <1>2. ToSet(rules) = {rules[i] : i \in 1 .. m} /\ \A i \in 1 .. m : rules[i] \in T
    BY DEF ToSet
  <1> HIDE DEF best, m
  <1>3. CASE best = <<>> /\ \A i \in 1 .. m : ~Applies(rules[i], ctx)
    <2>1. BestBy(Score, rules, ctx) = {}
      BY <1>2, <1>3 DEF BestBy
    <2>. QED  BY <1>3, <2>1 DEF best, BestAllow, Evaluate
  <1>4. CASE \E k \in 1 .. m :
              /\ best = <<rules[k]>> /\ Applies(rules[k], ctx)
              /\ \A i \in 1 .. m : Applies(rules[i], ctx) => ~Beats(rules[i], rules[k], ctx)
    <2>1. PICK p \in ToSet(rules) :
            /\ best = <<p>> /\ Applies(p, ctx)
            /\ \A q \in ToSet(rules) : Applies(q, ctx) => ~Beats(q, p, ctx)
      BY <1>2, <1>4
    <2>2. \A q \in ToSet(rules) : q.priority \in Int /\ q.effect \in {"allow", "deny"}
      BY <1>2 DEF AreRules
    <2>3. p \in BestBy(Score, rules, ctx)
      BY <2>1, <2>2, ScoresAreIntegers DEF BestBy, Beats
    <2>4. ASSUME NEW q \in BestBy(Score, rules, ctx), p.effect = "allow"
          PROVE  q.effect = "allow"
      <3>1. q \in ToSet(rules) /\ Applies(q, ctx)
        BY DEF BestBy
      <3>2. Score(q, ctx) = Score(p, ctx) /\ q.priority = p.priority
        BY <2>1, <2>2, <2>3, <3>1, ScoresAreIntegers DEF BestBy, Beats
      <3>. QED  BY <2>1, <2>2, <2>4, <3>1, <3>2 DEF Beats
    <2>5. BestAllow(rules, ctx) <=> p.effect = "allow"
      BY <2>3, <2>4 DEF BestAllow
    <2>6. Evaluate(rules, ctx) <=> p.effect = "allow"
      BY <2>1 DEF Evaluate, best
    <2>7. Evaluate(rules, ctx) = BestAllow(rules, ctx)
      <3>1. Evaluate(rules, ctx) \in BOOLEAN /\ BestAllow(rules, ctx) \in BOOLEAN
        BY <2>1 DEF Evaluate, BestAllow, best
      <3>. QED  BY <2>5, <2>6, <3>1
    <2>. QED  BY <2>7
  <1>. QED  BY <1>1, <1>3, <1>4 DEF Stands

\* Where no wildcard ranks with names, the promised ranks order the rules that
\* apply as the scores do: a rule with a name then has the type that comes first.
LEMMA RanksAgree ==
  ASSUME NEW rules, NEW ctx, ~WildcardRanksWithNames(rules, ctx)
  PROVE  BestBy(PromisedRank, rules, ctx) = BestBy(Score, rules, ctx)
  <1> DEFINE applying == {p \in ToSet(rules) : Applies(p, ctx)}
  <1>1. ASSUME NEW p \in applying
        PROVE  /\ ResourceScore(p, ctx) \in {50, 100, 200, 300}
               /\ SubjectScore(p, ctx) \in 0 .. 6
    <2>1. ResourceScore(p, ctx) # NoMatch /\ SubjectScore(p, ctx) # NoMatch
      BY DEF Applies
    <2>2. ResourceScore(p, ctx) \in {50, 100, 200, 300, NoMatch}
      BY DEF ResourceScore
    <2>3. SubjectScore(p, ctx) \in 0 .. 6 \/ SubjectScore(p, ctx) = NoMatch
      BY DEF SubjectScore
    <2>. QED  BY <2>1, <2>2, <2>3
  <1>2. ASSUME NEW p \in applying, NEW q \in applying
        PROVE  /\ PromisedRank(q, ctx) < PromisedRank(p, ctx) <=> Score(q, ctx) < Score(p, ctx)
               /\ PromisedRank(q, ctx) = PromisedRank(p, ctx) <=> Score(q, ctx) = Score(p, ctx)
    <2>1. ~Exact(p) /\ Exact(q) => ResourceScore(p, ctx) < ResourceScore(q, ctx)
      BY <1>1 DEF WildcardRanksWithNames
    <2>2. ~Exact(q) /\ Exact(p) => ResourceScore(q, ctx) < ResourceScore(p, ctx)
      BY <1>1 DEF WildcardRanksWithNames
    <2>3. /\ ResourceScore(p, ctx) \in {50, 100, 200, 300} /\ SubjectScore(p, ctx) \in 0 .. 6
          /\ ResourceScore(q, ctx) \in {50, 100, 200, 300} /\ SubjectScore(q, ctx) \in 0 .. 6
      BY <1>1
    <2>4. /\ ResourceScore(p, ctx) < ResourceScore(q, ctx) => Score(p, ctx) < Score(q, ctx)
          /\ ResourceScore(q, ctx) < ResourceScore(p, ctx) => Score(q, ctx) < Score(p, ctx)
          /\ Score(p, ctx) \in 50 .. 306 /\ Score(q, ctx) \in 50 .. 306
      BY <2>3 DEF Score
    <2>5. /\ PromisedRank(p, ctx) = IF Exact(p) THEN 1000 + Score(p, ctx) ELSE Score(p, ctx)
          /\ PromisedRank(q, ctx) = IF Exact(q) THEN 1000 + Score(q, ctx) ELSE Score(q, ctx)
      BY DEF PromisedRank
    <2>6. Exact(p) \in BOOLEAN /\ Exact(q) \in BOOLEAN
      BY DEF Exact
    <2>7. CASE Exact(p) = Exact(q)
      <3>1. Score(p, ctx) \in Int /\ Score(q, ctx) \in Int
        BY ScoresAreIntegers
      <3>2. \/ PromisedRank(p, ctx) = 1000 + Score(p, ctx) /\ PromisedRank(q, ctx) = 1000 + Score(q, ctx)
            \/ PromisedRank(p, ctx) = Score(p, ctx) /\ PromisedRank(q, ctx) = Score(q, ctx)
        BY <2>5, <2>7
      <3>. QED  BY <3>1, <3>2
    <2>8. CASE Exact(p) /\ ~Exact(q)
      <3>1. PromisedRank(p, ctx) = 1000 + Score(p, ctx) /\ PromisedRank(q, ctx) = Score(q, ctx)
        BY <2>5, <2>8
      <3>2. ResourceScore(q, ctx) < ResourceScore(p, ctx)
        BY <2>2, <2>8
      <3>3. Score(q, ctx) < Score(p, ctx)
        BY <2>4, <3>2
      <3>4. Score(p, ctx) \in Int /\ Score(q, ctx) \in Int /\ Score(q, ctx) < 1000 + Score(p, ctx)
        BY <2>4, <3>3
      <3>. QED  BY <3>1, <3>3, <3>4
    <2>9. CASE Exact(q) /\ ~Exact(p)
      <3>1. PromisedRank(q, ctx) = 1000 + Score(q, ctx) /\ PromisedRank(p, ctx) = Score(p, ctx)
        BY <2>5, <2>9
      <3>2. ResourceScore(p, ctx) < ResourceScore(q, ctx)
        BY <2>1, <2>9
      <3>3. Score(p, ctx) < Score(q, ctx)
        BY <2>4, <3>2
      <3>4. Score(p, ctx) \in Int /\ Score(q, ctx) \in Int /\ Score(p, ctx) < 1000 + Score(q, ctx)
        BY <2>4, <3>3
      <3>. QED  BY <3>1, <3>3, <3>4
    <2>. QED  BY <2>6, <2>7, <2>8, <2>9
  <1> HIDE DEF applying
  <1>3. /\ BestBy(PromisedRank, rules, ctx) =
             {p \in applying : \A q \in applying :
                \/ PromisedRank(q, ctx) < PromisedRank(p, ctx)
                \/ PromisedRank(q, ctx) = PromisedRank(p, ctx) /\ q.priority <= p.priority}
        /\ BestBy(Score, rules, ctx) =
             {p \in applying : \A q \in applying :
                \/ Score(q, ctx) < Score(p, ctx)
                \/ Score(q, ctx) = Score(p, ctx) /\ q.priority <= p.priority}
    BY DEF BestBy, applying
  <1>. QED  BY <1>2, <1>3

\* The one pass of evaluate, which keeps a single rule, decides for every list of
\* rules in any order: by the rules that its comment promises, unless a wildcard
\* ranks with names, and always by those that its scores put first.
THEOREM BestRulesAlwaysDecide ==
  ASSUME NEW T, AreRules(T), NEW rules \in Seq(T), NEW ctx
  PROVE  /\ Evaluate(rules, ctx) = BestAllow(rules, ctx)
         /\ ~WildcardRanksWithNames(rules, ctx) => Evaluate(rules, ctx) = PromisedAllow(rules, ctx)
  <1>1. Evaluate(rules, ctx) = BestAllow(rules, ctx)
    BY ScoresDecide
  <1>2. ASSUME ~WildcardRanksWithNames(rules, ctx) PROVE PromisedAllow(rules, ctx) = BestAllow(rules, ctx)
    <2>1. BestBy(PromisedRank, rules, ctx) = BestBy(Score, rules, ctx)
      BY <1>2, RanksAgree
    <2>. QED  BY <2>1 DEF PromisedAllow, BestAllow
  <1>. QED  BY <1>1, <1>2

\* What is asked is asked at once, but for the stores and the routes, which are called.
LEMMA WhatIsAsked ==
  ASSUME [ProvedNext]_question
  PROVE  \/ question' = question
         \/ AskRules /\ question'.about = "rules"
         \/ AskGrid /\ question'.about = "grid"
         \/ AskBackup /\ question'.about = "backup"
         \/ (AskStores \/ CallStores) /\ question'.about = "stores"
         \/ (AskRoutes \/ CallRoutes) /\ question'.about = "routes"
         \/ AskFiles /\ question'.about = "files"
  <1>1. AskRules => question'.about = "rules"
    BY DEF AskRules, Asks
  <1>2. AskGrid => question'.about = "grid"
    BY DEF AskGrid, Asks
  <1>3. AskBackup => question'.about = "backup"
    BY DEF AskBackup, Asks
  <1>4. AskStores => question'.about = "stores"
    BY DEF AskStores
  <1>5. CallStores => question'.about = "stores"
    <2>1. \A lite, pg : Call(lite, pg) => question'.about = "stores"
      BY DEF Call, Goes
    <2>2. StartAgain => question'.about = "stores"
      BY DEF StartAgain, Goes
    <2>. QED  BY <2>1, <2>2, Zenon
              DEF CallStores, CallWorkspaces, CallNamespaces, CallDataSources, CallLayers, CallSqlViews,
                  CallUsers, CallPermissions, CallStyles, CallLayerGroups, CallSessions, CallSettings
  <1>6. \A subject, calls, srv, told : RoutesGo(subject, calls, srv, told) => question'.about = "routes"
    BY DEF RoutesGo
  <1>7. AskRoutes => question'.about = "routes"
    BY <1>6, Zenon DEF AskRoutes
  <1>8. CallRoutes => question'.about = "routes"
    <2>1. \A answer, statuses, told : Routed(answer, statuses, told) => question'.about = "routes"
      BY <1>6 DEF Routed
    <2>2. \A answer, status, told : Told(answer, status, told) => question'.about = "routes"
      BY <2>1 DEF Told
    <2>. QED  BY <2>1, <2>2, Zenon
              DEF CallRoutes, RouteWorkspaces, RouteNamespaces, RouteStores, RouteViews, RoutePermissions
  <1>9. AskFiles => question'.about = "files"
    BY DEF AskFiles, Asks
  <1>. QED  BY <1>1, <1>2, <1>3, <1>4, <1>5, <1>7, <1>8, <1>9 DEF ProvedNext

\* Every question about rules is about a list of rules.
RulesInv == question.about = "rules" => question.input \in RuleLists

\* Whatever the lists of rules and whoever asks, the promised rules decide unless
\* a wildcard ranks with names.
THEOREM ProvedSpecBestRulesDecide == ProvedSpec => []BestRulesDecide
  <1>1. Unasked => RulesInv
    BY DEF Unasked, RulesInv
  <1>2. RulesInv /\ [ProvedNext]_question => RulesInv'
    <2>. SUFFICES ASSUME RulesInv, [ProvedNext]_question PROVE RulesInv'
      OBVIOUS
    <2>1. CASE AskRules
      BY <2>1 DEF AskRules, Asks, RulesInv
    <2>2. CASE question' = question
      BY <2>2 DEF RulesInv
    <2>3. CASE question'.about # "rules"
      BY <2>3 DEF RulesInv
    <2>. QED  BY <2>1, <2>2, <2>3, WhatIsAsked
  <1>3. RulesInv => BestRulesDecide
    <2>. SUFFICES ASSUME RulesInv, question.about = "rules", NEW ctx \in Contexts,
                         ~WildcardRanksWithNames(question.input, ctx)
                  PROVE  /\ Evaluate(question.input, ctx) = PromisedAllow(question.input, ctx)
                         /\ EnforceLayerAccess(TRUE, TRUE, question.input, ctx)
                              = (ctx.role # "admin" => PromisedAllow(question.input, ctx))
      BY DEF BestRulesDecide
    <2> DEFINE rules == question.input
    <2>1. rules \in Seq(ToSet(rules)) /\ AreRules(ToSet(rules))
      BY RulesAssumption DEF RulesInv
    <2> HIDE DEF rules
    <2>2. Evaluate(rules, ctx) = PromisedAllow(rules, ctx)
      BY <2>1, BestRulesAlwaysDecide DEF rules
    <2>3. PromisedAllow(rules, ctx) \in BOOLEAN
      BY DEF PromisedAllow
    <2>4. EnforceLayerAccess(TRUE, TRUE, rules, ctx) = (ctx.role # "admin" => PromisedAllow(rules, ctx))
      BY <2>2, <2>3 DEF EnforceLayerAccess
    <2>. QED  BY <2>2, <2>4 DEF rules
  <1>. QED  BY <1>1, <1>2, <1>3, PTL DEF ProvedSpec

-----------------------------------------------------------------------------
(* Questions: tile grids. A level covers the world with whole tiles of one *)
(* width (LevelCovers), from which the column, the row and the level of a  *)
(* tile are found again.                                                   *)

\* Powers of two, from one on.
Doubles(f, m) == f = [k \in 0 .. m |-> f[k]] /\ f[0] = 1 /\ \A k \in 1 .. m : f[k] = 2 * f[k - 1]

LEMMA SomeDoubles == ASSUME NEW m \in Nat PROVE \E f : Doubles(f, m)
  <1> DEFINE S == {n \in 0 .. m : \E f : Doubles(f, n)}
  <1>1. 0 \in S
    <2>1. Doubles([k \in 0 .. 0 |-> 1], 0)
      BY DEF Doubles
    <2>. QED  BY <2>1
  <1>2. ASSUME NEW n \in 0 .. (m - 1), n \in S PROVE n + 1 \in S
    <2>1. PICK f : Doubles(f, n)
      BY <1>2
    <2> DEFINE g == [k \in 0 .. (n + 1) |-> IF k <= n THEN f[k] ELSE 2 * f[n]]
    <2>2. g = [k \in 0 .. (n + 1) |-> g[k]] /\ g[0] = 1
      BY <2>1 DEF Doubles
    <2>3. ASSUME NEW k \in 1 .. (n + 1) PROVE g[k] = 2 * g[k - 1]
      <3>1. g[k - 1] = f[k - 1]
        OBVIOUS
      <3>2. CASE k <= n
        <4>1. g[k] = f[k] /\ k \in 1 .. n
          BY <3>2
        <4>. QED  BY <2>1, <3>1, <4>1 DEF Doubles
      <3>3. CASE k = n + 1
        <4>1. g[k] = 2 * f[n] /\ k - 1 = n
          BY <3>3
        <4>. QED  BY <3>1, <4>1
      <3>. QED  BY <3>2, <3>3
    <2>4. Doubles(g, n + 1)
      <3> HIDE DEF g
      <3>. QED  BY <2>2, <2>3 DEF Doubles
    <2>. QED  BY <2>4
  <1> HIDE DEF S
  <1>3. m \in S
    BY <1>1, <1>2, UpTo
  <1>. QED  BY <1>3 DEF S

LEMMA PowersDouble == Doubles(PowerOfTwo, 31)
  <1> DEFINE Body(f) == [k \in 0 .. 31 |-> IF k = 0 THEN 1 ELSE 2 * f[k - 1]]
             f == CHOOSE g : g = Body(g)
  <1>1. PICK g : Doubles(g, 31)
    BY SomeDoubles
  <1>2. g = Body(g)
    <2>1. ASSUME NEW k \in 0 .. 31 PROVE g[k] = Body(g)[k]
      BY <1>1 DEF Doubles
    <2>2. g = [k \in 0 .. 31 |-> g[k]]
      BY <1>1 DEF Doubles
    <2>3. Body(g) = [k \in 0 .. 31 |-> Body(g)[k]]
      OBVIOUS
    <2> HIDE DEF Body
    <2>4. [k \in 0 .. 31 |-> g[k]] = [k \in 0 .. 31 |-> Body(g)[k]]
      BY <2>1
    <2>. QED  BY <2>2, <2>3, <2>4
  <1>3. f = Body(f)
    <2> HIDE DEF Body
    <2>. QED  BY <1>2
  <1>4. PowerOfTwo = f
    BY DEF PowerOfTwo
  <1> HIDE DEF f
  <1>5. \A k \in 0 .. 31 : f[k] = IF k = 0 THEN 1 ELSE 2 * f[k - 1]
    BY <1>3
  <1>6. f = [k \in 0 .. 31 |-> f[k]]
    <2>1. Body(f) = [k \in 0 .. 31 |-> Body(f)[k]]
      OBVIOUS
    <2> HIDE DEF Body
    <2>. QED  BY <1>3, <2>1
  <1>7. f[0] = 1
    BY <1>5
  <1>8. \A k \in 1 .. 31 : f[k] = 2 * f[k - 1]
    BY <1>5
  <1>. QED  BY <1>4, <1>6, <1>7, <1>8 DEF Doubles

\* A tile of a level is at least twice as wide as one of any later level.
LEMMA PowersGrow ==
  /\ \A k \in 0 .. 31 : PowerOfTwo[k] \in Nat \ {0}
  /\ \A k \in 0 .. 31 : \A j \in 0 .. 31 : j < k => 2 * PowerOfTwo[j] <= PowerOfTwo[k]
  <1> DEFINE S == {k \in 0 .. 31 : /\ PowerOfTwo[k] \in Nat \ {0}
                                   /\ \A j \in 0 .. 31 : j < k => /\ PowerOfTwo[j] \in Nat
                                                                  /\ 2 * PowerOfTwo[j] <= PowerOfTwo[k]}
  <1>1. 0 \in S
    BY PowersDouble DEF Doubles
  <1>2. ASSUME NEW k \in 0 .. 30, k \in S PROVE k + 1 \in S
    <2>1. PowerOfTwo[k + 1] = 2 * PowerOfTwo[k]
      BY PowersDouble DEF Doubles
    <2>2. ASSUME NEW j \in 0 .. 31, j < k + 1
          PROVE  PowerOfTwo[j] \in Nat /\ 2 * PowerOfTwo[j] <= PowerOfTwo[k + 1]
      <3>1. j = k \/ j < k
        BY <2>2
      <3>. QED  BY <1>2, <2>1, <3>1
    <2>3. PowerOfTwo[k + 1] \in Nat \ {0}
      BY <1>2, <2>1
    <2>. QED  BY <2>2, <2>3
  <1> HIDE DEF S
  <1>3. \A k \in 0 .. 31 : k \in S
    BY <1>1, <1>2, UpTo
  <1>. QED  BY <1>3 DEF S

\* The number of whole tiles before a place.
LEMMA Quotient ==
  ASSUME NEW a \in Nat, NEW b \in Nat \ {0}, NEW q \in Nat, q * b <= a, a < (q + 1) * b
  PROVE  a \div b = q
  OBVIOUS

LEMMA DivNegative ==
  ASSUME NEW a \in Int, NEW b \in Nat \ {0}, a < 0
  PROVE  a \div b \in Int /\ a \div b < 0
  OBVIOUS

LEMMA DivAtLeast ==
  ASSUME NEW a \in Int, NEW b \in Nat \ {0}, NEW n \in Nat, n * b <= a
  PROVE  a \div b \in Int /\ a \div b >= n
  OBVIOUS

LEMMA Divides ==
  ASSUME NEW a \in Nat, NEW b \in Nat \ {0}, a % b = 0
  PROVE  a \div b \in Nat /\ a = (a \div b) * b
  OBVIOUS

LEMMA RoundedUp ==
  ASSUME NEW a \in Nat \ {0}, NEW b \in Nat \ {0}
  PROVE  /\ CeilDiv(a, b) \in Nat \ {0}
         /\ a <= CeilDiv(a, b) * b
         /\ (CeilDiv(a, b) - 1) * b < a
  BY DEF CeilDiv

LEMMA Squares ==
  ASSUME NEW a \in Nat, NEW b \in Nat, a <= b
  PROVE  a * a <= b * b
  <1>1. a * a <= a * b /\ a * b <= b * b
    OBVIOUS
  <1>. QED  BY <1>1

-----------------------------------------------------------------------------
\* The width of a tile of a level, and the height of the world in its unit.
Side(grid, z) == IF IsCustom(grid) THEN Span(grid, z) ELSE World \div matrix_width(grid, z)
Tall(grid) == IF grid.kind = "mercator" THEN World ELSE Height

\* n tiles, and no fewer, cover the length.
Covers(n, side, length) == n * side >= length /\ (n - 1) * side < length

LEMMA PowerTiles ==
  ASSUME NEW z \in 0 .. MAX_ZOOM, NEW u, u = ShiftOne(z), NEW q, q = World \div (2 * u)
  PROVE  /\ u \in Nat \ {0} /\ q \in Nat \ {0}
         /\ World = 2 * (u * q) /\ Height = u * q
         /\ World \div (2 * u) = q /\ World \div u = 2 * q /\ Height \div u = q
  <1>0. World \in Nat /\ World > 0
    BY WorldAssumption
  <1>1. z \in 0 .. 31 /\ u = PowerOfTwo[z]
    BY WorldAssumption DEF ShiftOne
  <1>2. u \in Nat \ {0}
    BY <1>1, PowersGrow
  <1>3. 2 * u \in Nat \ {0} /\ World % (2 * u) = 0
    BY <1>2, WorldAssumption
  <1>4. q \in Nat /\ World = q * (2 * u)
    BY <1>0, <1>3, Divides
  <1>5. q # 0
    BY <1>0, <1>2, <1>4
  <1>6. World = 2 * (u * q)
    BY <1>2, <1>4
  <1>7. Height = u * q
    BY <1>2, <1>4, <1>6 DEF Height
  <1>8. World \div u = 2 * q
    <2>1. (2 * q) * u <= World /\ World < (2 * q + 1) * u
      BY <1>2, <1>4
    <2>. QED  BY <1>0, <1>2, <1>4, <2>1, Quotient
  <1>9. Height \div u = q
    <2>1. q * u <= Height /\ Height < (q + 1) * u /\ Height \in Nat
      BY <1>2, <1>4, <1>7
    <2>. QED  BY <1>2, <1>4, <2>1, Quotient
  <1>. QED  BY <1>2, <1>4, <1>5, <1>6, <1>7, <1>8, <1>9

LEMMA GridKinds ==
  ASSUME NEW grid \in PowerGrids \cup Grids
  PROVE  \/ grid.kind = "geodetic" /\ ~IsCustom(grid) /\ grid.spans = <<>>
         \/ grid.kind = "mercator" /\ ~IsCustom(grid) /\ grid.spans = <<>>
         \/ grid.kind = "custom" /\ IsCustom(grid) /\ grid.spans \in Seq(Nat)
  BY GridsAssumption DEF PowerGrids, IsCustom

LEMMA SpanNat ==
  ASSUME NEW grid, grid.spans \in Seq(Nat), NEW z \in Nat
  PROVE  Span(grid, z) \in Nat
  BY DEF Span

\* Whatever the kind of the grid, the tiles of a level cover the world.
LEMMA LevelCovers ==
  ASSUME NEW grid \in PowerGrids \cup Grids, NEW z \in 0 .. MAX_ZOOM,
         IsCustom(grid) => Span(grid, z) # 0
  PROVE  /\ Side(grid, z) \in Nat \ {0} /\ Tall(grid) \in Nat \ {0}
         /\ matrix_width(grid, z) \in Nat \ {0} /\ matrix_height(grid, z) \in Nat \ {0}
         /\ Covers(matrix_width(grid, z), Side(grid, z), World)
         /\ Covers(matrix_height(grid, z), Side(grid, z), Tall(grid))
  <1>0. World \in Nat \ {0} /\ Height \in Nat \ {0} /\ z \in Nat
    BY WorldAssumption DEF Height
  <1> DEFINE u == ShiftOne(z)
             q == World \div (2 * u)
  <1>1. /\ u \in Nat \ {0} /\ q \in Nat \ {0}
        /\ World = 2 * (u * q) /\ Height = u * q
        /\ World \div (2 * u) = q /\ World \div u = 2 * q /\ Height \div u = q
    BY PowerTiles
  <1> HIDE DEF q
  <1>2. CASE grid.kind = "geodetic" /\ ~IsCustom(grid)
    <2>1. matrix_width(grid, z) = 2 * u /\ matrix_height(grid, z) = u /\ Side(grid, z) = q /\ Tall(grid) = Height
      BY <1>1, <1>2 DEF matrix_width, matrix_height, Side, Tall
    <2> HIDE DEF u
    <2>2. Covers(2 * u, q, World) /\ Covers(u, q, Height)
      BY <1>1 DEF Covers
    <2>. QED  BY <1>0, <1>1, <2>1, <2>2
  <1>3. CASE grid.kind = "mercator" /\ ~IsCustom(grid)
    <2>1. matrix_width(grid, z) = u /\ matrix_height(grid, z) = u /\ Side(grid, z) = 2 * q /\ Tall(grid) = World
      BY <1>1, <1>3 DEF matrix_width, matrix_height, Side, Tall
    <2> HIDE DEF u
    <2>2. Covers(u, 2 * q, World)
      BY <1>1 DEF Covers
    <2>. QED  BY <1>0, <1>1, <2>1, <2>2
  <1>4. CASE grid.kind = "custom" /\ IsCustom(grid) /\ grid.spans \in Seq(Nat)
    <2> DEFINE s == Span(grid, z)
    <2>1. s \in Nat \ {0}
      BY <1>0, <1>4, SpanNat
    <2>2. /\ matrix_width(grid, z) = CeilDiv(World, s) /\ matrix_height(grid, z) = CeilDiv(Height, s)
          /\ Side(grid, z) = s /\ Tall(grid) = Height
      BY <1>4, <2>1 DEF matrix_width, matrix_height, Side, Tall
    <2> HIDE DEF s
    <2>. QED  BY <1>0, <2>1, <2>2, RoundedUp DEF Covers
  <1>. QED  BY <1>2, <1>3, <1>4, GridKinds

\* A registered grid is divided evenly, and its last tile may be cut: the
\* column is the right one all the same.
LEMMA EvenColumn ==
  ASSUME NEW n \in Nat \ {0}, NEW side \in Nat \ {0}, NEW length \in Nat \ {0},
         Covers(n, side, length), NEW c \in 0 .. n - 1
  PROVE  (c * side * n) \div length = c
  <1> DEFINE over == n * side - length
  <1>1. over \in Nat /\ over < side
    BY DEF Covers
  <1>2. c * side * n = c * length + c * over
    OBVIOUS
  <1>3. c * over < length
    <2>1. c * over <= c * side
      BY <1>1
    <2>2. c * side <= (n - 1) * side
      OBVIOUS
    <2>. QED  BY <1>1, <2>1, <2>2 DEF Covers
  <1>4. c * over \in Nat
    BY <1>1
  <1> HIDE DEF over
  <1>5. c * length <= c * side * n /\ c * side * n < (c + 1) * length
    BY <1>2, <1>3, <1>4
  <1>6. c * side * n \in Nat
    OBVIOUS
  <1>. QED  BY <1>5, <1>6, Quotient

\* So is the one before the first, which becomes the first, and the one after
\* the last, which is none.
LEMMA SnappedColumn ==
  ASSUME NEW n \in Nat \ {0}, NEW side \in Nat \ {0}, NEW length \in Nat \ {0},
         Covers(n, side, length), NEW c \in -1 .. n
  PROVE  LET q == AtLeast((c * side * n) \div length, 0)
         IN  /\ c < n => q = AtLeast(c, 0) /\ q < n
             /\ c = n => ~(q < n)
  <1> DEFINE q == AtLeast((c * side * n) \div length, 0)
  <1>1. CASE c \in 0 .. n - 1
    <2>1. (c * side * n) \div length = c
      BY <1>1, EvenColumn
    <2>. QED  BY <1>1, <2>1 DEF AtLeast
  <1>2. CASE c = -1
    <2>1. c * side * n = -(side * n) /\ side * n \in Nat \ {0}
      BY <1>2
    <2>2. (c * side * n) \div length \in Int /\ (c * side * n) \div length < 0
      BY <2>1, DivNegative
    <2>. QED  BY <1>2, <2>2 DEF AtLeast
  <1>3. CASE c = n
    <2>1. n * side \in Nat /\ length <= n * side
      BY DEF Covers
    <2>2. n * length <= (n * side) * n
      BY <2>1
    <2>3. c * side * n = (n * side) * n /\ (n * side) * n \in Int
      BY <1>3, <2>1
    <2>4. (c * side * n) \div length \in Int /\ (c * side * n) \div length >= n
      BY <2>2, <2>3, DivAtLeast
    <2>. QED  BY <1>3, <2>4 DEF AtLeast
  <1>. QED  BY <1>1, <1>2, <1>3

LEMMA TileOfItsBox ==
  ASSUME NEW grid \in PowerGrids \cup Grids, NEW z \in 0 .. MAX_ZOOM,
         IsCustom(grid) => Span(grid, z) # 0,
         NEW col \in -1 .. matrix_width(grid, z), NEW row \in -1 .. matrix_height(grid, z)
  PROVE  tile_for_bbox(grid, z, GridBox(grid, z, col, row))
            = IF col = matrix_width(grid, z) \/ row = matrix_height(grid, z) THEN NoTile
              ELSE <<AtLeast(col, 0), AtLeast(row, 0)>>
  <1> DEFINE mw == matrix_width(grid, z)
             mh == matrix_height(grid, z)
             s == Side(grid, z)
             tall == Tall(grid)
             box == GridBox(grid, z, col, row)
             a == AtLeast((box.minx * mw) \div World, 0)
             b == AtLeast(((tall - box.maxy) * mh) \div tall, 0)
  <1>1. /\ s \in Nat \ {0} /\ tall \in Nat \ {0} /\ mw \in Nat \ {0} /\ mh \in Nat \ {0}
        /\ Covers(mw, s, World) /\ Covers(mh, s, tall)
    BY LevelCovers
  <1>2. World \in Nat \ {0}
    BY WorldAssumption
  <1>3. box.minx = col * s /\ box.maxy = tall - row * s
    BY DEF GridBox, Side, Tall
  <1>4. (col < mw => a = AtLeast(col, 0) /\ a < mw) /\ (col = mw => ~(a < mw))
    <2>1. a = AtLeast((col * s * mw) \div World, 0)
      BY <1>3
    <2> HIDE DEF s, tall, box, a
    <2>2. col \in -1 .. mw
      BY DEF mw
    <2> HIDE DEF mw
    <2>. QED  BY <1>1, <1>2, <2>1, <2>2, SnappedColumn
  <1>5. (row < mh => b = AtLeast(row, 0) /\ b < mh) /\ (row = mh => ~(b < mh))
    <2>1. tall - box.maxy = row * s
      <3> HIDE DEF mw, mh, s, tall, box
      <3>1. row \in Int
        BY <1>1 DEF mh
      <3>. QED  BY <1>1, <1>3, <3>1
    <2>2. b = AtLeast((row * s * mh) \div tall, 0)
      BY <2>1
    <2> HIDE DEF s, tall, box, b
    <2>3. row \in -1 .. mh
      BY DEF mh
    <2> HIDE DEF mh
    <2>. QED  BY <1>1, <2>2, <2>3, SnappedColumn
  <1>6. tile_for_bbox(grid, z, box) = IF a < mw /\ b < mh THEN <<a, b>> ELSE NoTile
    BY DEF tile_for_bbox, Tall
  <1>7. col \in -1 .. mw /\ row \in -1 .. mh
    BY DEF mw, mh
  <1> HIDE DEF mw, mh, s, tall, box, a, b
  <1>8. tile_for_bbox(grid, z, box) = IF col = mw \/ row = mh THEN NoTile ELSE <<AtLeast(col, 0), AtLeast(row, 0)>>
    <2>1. (col = mw \/ col < mw) /\ (row = mh \/ row < mh) /\ ~(col = mw /\ col < mw) /\ ~(row = mh /\ row < mh)
      BY <1>1, <1>7
    <2>. QED  BY <1>4, <1>5, <1>6, <2>1
  <1>. QED  BY <1>8 DEF box, mw, mh

\* The logarithm is the level: no other is as near.
LEMMA NearIsLevel ==
  ASSUME NEW z \in 0 .. 30, NEW k \in 0 .. 30, NEW side \in Nat \ {0}, NEW base, base = ShiftOne(z) * side,
         NEW r, r = ShiftOne(k) * side
  PROVE  (r * r <= 2 * base * base /\ 2 * base * base < 4 * r * r) <=> k = z
  <1>1. ShiftOne(z) = PowerOfTwo[z] /\ ShiftOne(k) = PowerOfTwo[k]
    BY DEF ShiftOne
  <1>2. ShiftOne(z) \in Nat \ {0} /\ ShiftOne(k) \in Nat \ {0}
    BY <1>1, PowersGrow
  <1>3. base \in Nat \ {0} /\ r \in Nat \ {0}
    BY <1>2
  <1>4. CASE k = z
    <2>1. base = r /\ base * base > 0
      BY <1>3, <1>4
    <2>2. 2 * base * base = 2 * (base * base) /\ 4 * r * r = 4 * (base * base) /\ r * r = base * base /\ base * base \in Nat
      BY <1>3, <2>1
    <2>. QED  BY <1>4, <2>1, <2>2
  <1>5. CASE k < z
    <2>1. 2 * ShiftOne(k) <= ShiftOne(z)
      BY <1>1, <1>5, PowersGrow
    <2>2. 2 * r <= base
      <3>1. (2 * ShiftOne(k)) * side <= ShiftOne(z) * side
        BY <1>2, <2>1
      <3>. QED  BY <1>2, <3>1
    <2>3. (2 * r) * (2 * r) <= base * base
      BY <1>3, <2>2, Squares
    <2>4. 4 * r * r = (2 * r) * (2 * r) /\ 2 * base * base = base * base + base * base /\ base * base \in Nat
      BY <1>3
    <2>. QED  BY <1>5, <2>3, <2>4
  <1>6. CASE k > z
    <2>1. 2 * ShiftOne(z) <= ShiftOne(k)
      BY <1>1, <1>6, PowersGrow
    <2>2. 2 * base <= r
      <3>1. (2 * ShiftOne(z)) * side <= ShiftOne(k) * side
        BY <1>2, <2>1
      <3>. QED  BY <1>2, <3>1
    <2>3. (2 * base) * (2 * base) <= r * r
      BY <1>3, <2>2, Squares
    <2>4. /\ (2 * base) * (2 * base) = 4 * (base * base) /\ 2 * base * base = 2 * (base * base)
          /\ base * base \in Nat /\ base * base > 0 /\ r * r \in Nat
      BY <1>3
    <2>. QED  BY <1>6, <2>3, <2>4
  <1>. QED  BY <1>4, <1>5, <1>6

\* The level of the width of its tiles: of two levels alike, the first.
LEMMA LevelOfItsSide ==
  ASSUME NEW grid \in PowerGrids \cup Grids, NEW z \in 0 .. MAX_ZOOM, FirstOfItsSpan(grid, z),
         IsCustom(grid) => Span(grid, z) # 0
  PROVE  zoom_for_resolution(grid, Side(grid, z)) = z
  <1>1. CASE IsCustom(grid) /\ grid.spans \in Seq(Nat)
    <2> DEFINE s == Span(grid, z)
               Nearest(k) == \A j \in DOMAIN grid.spans :
                                Distance(grid.spans[k], s) <= Distance(grid.spans[j], s)
               levels == {k - 1 : k \in {k \in DOMAIN grid.spans : Nearest(k)}}
    <2>1. z + 1 \in DOMAIN grid.spans /\ grid.spans[z + 1] = s /\ s \in Nat /\ z \in Nat
      BY <1>1, SpanNat DEF Span
    <2>2. \A k \in DOMAIN grid.spans : /\ k \in Nat /\ grid.spans[k] \in Nat
                                       /\ Distance(grid.spans[k], s) \in Nat
                                       /\ Distance(grid.spans[k], s) = 0 <=> grid.spans[k] = s
      <3> HIDE DEF s
      <3>. QED  BY <1>1, <2>1 DEF Distance
    <2>3. \A k \in DOMAIN grid.spans : Nearest(k) <=> grid.spans[k] = s
      BY <2>1, <2>2
    <2>4. z \in levels
      <3>1. Nearest(z + 1)
        BY <2>1, <2>3
      <3> HIDE DEF Nearest
      <3>2. z = (z + 1) - 1
        BY <2>1
      <3>. QED  BY <2>1, <3>1, <3>2
    <2>5. \A l \in levels : l \in Int /\ z <= l
      <3> SUFFICES ASSUME NEW k \in DOMAIN grid.spans, Nearest(k) PROVE k - 1 \in Int /\ z <= k - 1
        OBVIOUS
      <3>1. k \in Nat \ {0} /\ grid.spans[k] = s
        BY <1>1, <2>2, <2>3
      <3>2. Span(grid, k - 1) = s
        BY <3>1 DEF Span
      <3>3. k - 1 \notin 0 .. z - 1
        BY <1>1, <3>2 DEF FirstOfItsSpan
      <3>. QED  BY <2>1, <3>1, <3>3
    <2>6. Min(levels) = z
      <3> HIDE DEF levels
      <3>1. \A l \in levels : (\A y \in levels : l <= y) => l = z
        BY <2>1, <2>4, <2>5
      <3>. QED  BY <2>4, <2>5, <3>1 DEF Min
    <2>7. Side(grid, z) = s /\ grid.spans # <<>>
      BY <1>1, <2>1 DEF Side
    <2>. QED  BY <1>1, <2>6, <2>7 DEF zoom_for_resolution
  <1>2. CASE ~IsCustom(grid)
    <2> DEFINE s == Side(grid, z)
               base == World \div matrix_width(grid, 0)
               Near(k) == LET r == ShiftOne(k) * s
                          IN  r * r <= 2 * base * base /\ 2 * base * base < 4 * r * r
    <2>0. 0 \in 0 .. MAX_ZOOM /\ z \in 0 .. 30 /\ 0 .. MAX_ZOOM \subseteq 0 .. 30
      BY WorldAssumption
    <2>1. ShiftOne(0) = 1
      BY PowersDouble DEF Doubles, ShiftOne
    <2>2. s \in Nat \ {0} /\ base = ShiftOne(z) * s
      <3> DEFINE u == ShiftOne(z)
                 q == World \div (2 * u)
      <3>1. /\ u \in Nat \ {0} /\ q \in Nat \ {0} /\ World = 2 * (u * q)
            /\ World \div (2 * u) = q /\ World \div u = 2 * q
        BY PowerTiles
      <3>2. World \div 2 = u * q /\ World \div 1 = World
        <4> HIDE DEF u, q
        <4>. QED  BY <3>1
      <3>3. CASE grid.kind = "geodetic"
        BY <1>2, <2>1, <3>1, <3>2, <3>3 DEF matrix_width, Side
      <3>4. CASE grid.kind = "mercator"
        <4>1. s = 2 * q /\ base = World
          BY <1>2, <2>1, <3>1, <3>2, <3>4 DEF matrix_width, Side
        <4> HIDE DEF u, q, s, base
        <4>2. s \in Nat \ {0} /\ base = u * s
          BY <3>1, <4>1
        <4>. QED  BY <4>2 DEF u
      <3>. QED  BY <1>2, <3>3, <3>4, GridKinds DEF IsCustom
    <2> HIDE DEF s, base
    <2>3. \A k \in 0 .. MAX_ZOOM : Near(k) <=> k = z
      BY <2>0, <2>2, NearIsLevel
    <2>4. ShiftOne(z) \in Nat \ {0}
      BY <2>0, PowerTiles
    <2>5. base <= s => z = 0
      <3> SUFFICES ASSUME base <= s, 0 < z PROVE FALSE
        BY <2>0
      <3>1. 2 * PowerOfTwo[0] <= PowerOfTwo[z]
        BY <2>0, PowersGrow
      <3>2. 2 <= ShiftOne(z)
        BY <2>0, <3>1, PowersDouble DEF Doubles, ShiftOne
      <3>3. 2 * s <= ShiftOne(z) * s
        BY <2>2, <2>4, <3>2
      <3>. QED  BY <2>2, <3>3
    <2>6. zoom_for_resolution(grid, s)
            = IF base <= s THEN 0
              ELSE IF \E k \in 0 .. MAX_ZOOM : Near(k) THEN CHOOSE k \in 0 .. MAX_ZOOM : Near(k)
              ELSE MAX_ZOOM
      BY <1>2 DEF zoom_for_resolution, base
    <2>7. (CHOOSE k \in 0 .. MAX_ZOOM : Near(k)) = z
      <3> HIDE DEF Near
      <3>. QED  BY <2>3
    <2> HIDE DEF Near
    <2>8. zoom_for_resolution(grid, s) = z
      BY <2>3, <2>5, <2>6, <2>7
    <2>. QED  BY <2>8 DEF s
  <1>. QED  BY <1>1, <1>2, GridKinds

Turned(grid, z, row) == IF grid.kind = "geodetic" THEN matrix_height(grid, z) - 1 - row ELSE row

\* The latitudes of the first two levels of mercator.
LEMMA MercatorLatitudes ==
  ASSUME NEW z \in 0 .. 1, NEW row \in 0 .. ShiftOne(z) - 1, NEW s, s = World \div ShiftOne(z),
         z \in 0 .. MAX_ZOOM
  PROVE  LET n == ShiftOne(z)
             Lat(y) == CASE y = 0 -> Height \div 2 - Clamp
                         [] y = World \div 2 -> Height \div 2
                         [] y = World -> Height \div 2 + Clamp
         IN  /\ World \div 4 + AtLeast(mercator_lat(row + 1, n, -Clamp), -Clamp) = Lat(World - (row + 1) * s)
             /\ World \div 4 + AtMost(mercator_lat(row, n, Clamp), Clamp) = Lat(World - row * s)
  <1>1. ShiftOne(0) = 1 /\ ShiftOne(1) = 2
    BY PowersDouble DEF Doubles, ShiftOne
  <1>2. World \in Nat /\ Clamp \in Nat \ {0} /\ World \div 4 = Height \div 2 /\ World >= 4
    BY WorldAssumption DEF Height
  <1> DEFINE Lat(y) == CASE y = 0 -> Height \div 2 - Clamp
                         [] y = World \div 2 -> Height \div 2
                         [] y = World -> Height \div 2 + Clamp
             half == World \div 2
             mid == Height \div 2
  <1>3. half \in Nat /\ 0 < half /\ half < World /\ mid \in Int /\ World \div 4 = mid
    BY <1>2 DEF Height
  <1>4. Lat(0) = mid - Clamp /\ Lat(half) = mid /\ Lat(World) = mid + Clamp
    BY <1>2, <1>3
  <1>5. AtLeast(-Clamp, -Clamp) = -Clamp /\ AtMost(Clamp, Clamp) = Clamp /\ AtLeast(0, -Clamp) = 0 /\ AtMost(0, Clamp) = 0
    BY <1>2 DEF AtLeast, AtMost
  <1>6. /\ \A limit : mercator_lat(0, 1, limit) = limit /\ mercator_lat(1, 1, limit) = limit
        /\ \A limit : /\ mercator_lat(0, 2, limit) = limit /\ mercator_lat(1, 2, limit) = 0
                      /\ mercator_lat(2, 2, limit) = limit
    BY DEF mercator_lat
  <1> DEFINE Fits == LET n == ShiftOne(z)
                     IN  /\ mid + AtLeast(mercator_lat(row + 1, n, -Clamp), -Clamp) = Lat(World - (row + 1) * s)
                         /\ mid + AtMost(mercator_lat(row, n, Clamp), Clamp) = Lat(World - row * s)
  <1> HIDE DEF Lat, half, mid
  <1>7. ASSUME z = 0 PROVE Fits
    <2>1. row = 0 /\ s = World
      BY <1>1, <1>2, <1>7
    <2>2. World - (row + 1) * s = 0 /\ World - row * s = World
      BY <1>2, <2>1
    <2>. QED  BY <1>1, <1>2, <1>3, <1>4, <1>5, <1>6, <1>7, <2>1, <2>2
  <1>8. ASSUME z = 1 PROVE Fits
    <2>1. row \in {0, 1} /\ s = half /\ World = 2 * half
      <3>1. World % (2 * ShiftOne(1)) = 0
        BY <1>8, WorldAssumption
      <3>. QED  BY <1>1, <1>2, <1>8, <3>1 DEF half
    <2>2. CASE row = 0
      <3>1. World - (row + 1) * s = half /\ World - row * s = World
        BY <1>2, <1>3, <2>1, <2>2
      <3>. QED  BY <1>1, <1>2, <1>3, <1>4, <1>5, <1>6, <1>8, <2>2, <3>1
    <2>3. CASE row = 1
      <3>1. World - (row + 1) * s = 0 /\ World - row * s = half
        BY <1>2, <1>3, <2>1, <2>3
      <3>2. mercator_lat(row + 1, ShiftOne(z), -Clamp) = -Clamp /\ mercator_lat(row, ShiftOne(z), Clamp) = 0
        <4>1. row + 1 = 2
          BY <2>3
        <4>. QED  BY <1>1, <1>6, <1>8, <2>3, <4>1
      <3>3. mid + AtLeast(-Clamp, -Clamp) = Lat(0) /\ mid + AtMost(0, Clamp) = Lat(half)
        BY <1>2, <1>3, <1>4, <1>5
      <3>4. Lat(World - (row + 1) * s) = Lat(0) /\ Lat(World - row * s) = Lat(half)
        <4> HIDE DEF Fits
        <4>. QED  BY <3>1
      <3>. QED  BY <3>2, <3>3, <3>4
    <2>. QED  BY <2>1, <2>2, <2>3
  <1>9. Fits
    <2> HIDE DEF Fits
    <2>1. z = 0 \/ z = 1
      OBVIOUS
    <2>. QED  BY <1>7, <1>8, <2>1
  <1>. QED  BY <1>3, <1>9 DEF Lat, half, mid

\* The bounds of a tile are its box of the grid, seen from the other end in EPSG:4326.
LEMMA BoundsOfItsBox ==
  ASSUME NEW grid \in PowerGrids \cup Grids, NEW z \in 0 .. MAX_ZOOM,
         IsCustom(grid) => Span(grid, z) # 0, grid.kind # "mercator" \/ z < 2,
         NEW col \in 0 .. matrix_width(grid, z) - 1, NEW row \in 0 .. matrix_height(grid, z) - 1
  PROVE  tile_bounds(grid, z, col, row) = <<DegreeBox(grid, z, col, Turned(grid, z, row))>>
  <1> DEFINE mw == matrix_width(grid, z)
             mh == matrix_height(grid, z)
             s == Side(grid, z)
  <1>1. s \in Nat \ {0} /\ mw \in Nat \ {0} /\ mh \in Nat \ {0} /\ World \in Nat /\ Height \in Nat
    BY LevelCovers, WorldAssumption DEF Height
  <1>2. ~(z > MAX_ZOOM \/ col >= mw \/ row >= mh) /\ col \in Nat /\ row \in Nat
    BY <1>1, WorldAssumption
  <1>3. CASE grid.kind = "geodetic" /\ ~IsCustom(grid)
    <2> DEFINE u == ShiftOne(z)
               q == World \div (2 * u)
    <2>1. /\ u \in Nat \ {0} /\ q \in Nat \ {0} /\ Height = u * q
          /\ World \div (2 * u) = q /\ Height \div u = q
      BY PowerTiles
    <2>2. mw = 2 * u /\ mh = u /\ World \div mw = q /\ Height \div mh = q
      BY <1>3, <2>1 DEF matrix_width, matrix_height
    <2>3. tile_bounds(grid, z, col, row) = <<[minx |-> col * q, maxx |-> (col + 1) * q,
                                               miny |-> row * q, maxy |-> (row + 1) * q]>>
      BY <1>2, <1>3, <2>2 DEF tile_bounds
    <2>4. DegreeBox(grid, z, col, mh - 1 - row)
            = [minx |-> col * q, maxx |-> (col + 1) * q,
               maxy |-> Height - (mh - 1 - row) * q, miny |-> Height - (mh - 1 - row + 1) * q]
      BY <1>3, <2>2 DEF DegreeBox, GridBox
    <2>5. Height - (mh - 1 - row) * q = (row + 1) * q /\ Height - (mh - 1 - row + 1) * q = row * q
      <3> HIDE DEF q, u, mh
      <3>. QED  BY <1>2, <2>1, <2>2
    <2>6. Turned(grid, z, row) = mh - 1 - row
      BY <1>3 DEF Turned
    <2> HIDE DEF q, u, mh
    <2>. QED  BY <2>3, <2>4, <2>5, <2>6
  <1>4. CASE grid.kind = "mercator" /\ ~IsCustom(grid)
    <2> DEFINE u == ShiftOne(z)
               t == World \div u
               Lat(y) == CASE y = 0 -> Height \div 2 - Clamp
                           [] y = World \div 2 -> Height \div 2
                           [] y = World -> Height \div 2 + Clamp
    <2>1. mw = u /\ mh = u
      BY <1>4 DEF matrix_width, matrix_height
    <2>2. z \in 0 .. 1 /\ row \in 0 .. ShiftOne(z) - 1
      BY <1>4, <2>1, WorldAssumption
    <2>3. /\ World \div 4 + AtLeast(mercator_lat(row + 1, u, -Clamp), -Clamp) = Lat(World - (row + 1) * t)
          /\ World \div 4 + AtMost(mercator_lat(row, u, Clamp), Clamp) = Lat(World - row * t)
      BY <2>2, MercatorLatitudes
    <2>4. tile_bounds(grid, z, col, row)
            = <<[minx |-> col * t, maxx |-> (col + 1) * t,
                 miny |-> World \div 4 + AtLeast(mercator_lat(row + 1, u, -Clamp), -Clamp),
                 maxy |-> World \div 4 + AtMost(mercator_lat(row, u, Clamp), Clamp)]>>
      BY <1>2, <1>4, <2>1 DEF tile_bounds
    <2> DEFINE box == GridBox(grid, z, col, row)
    <2>5. box = [minx |-> col * t, maxx |-> (col + 1) * t, maxy |-> World - row * t, miny |-> World - (row + 1) * t]
      BY <1>4, <2>1 DEF GridBox
    <2>6. DegreeBox(grid, z, col, row)
            = [minx |-> box.minx, maxx |-> box.maxx, miny |-> Lat(box.miny), maxy |-> Lat(box.maxy)]
      BY <1>4 DEF DegreeBox
    <2>7. Turned(grid, z, row) = row
      BY <1>4 DEF Turned
    <2> HIDE DEF Lat, t, u, box
    <2>. QED  BY <2>3, <2>4, <2>5, <2>6, <2>7
  <1>5. CASE grid.kind = "custom" /\ IsCustom(grid)
    <2>1. tile_bounds(grid, z, col, row)
            = <<[minx |-> col * s, maxx |-> (col + 1) * s,
                 maxy |-> Height - row * s, miny |-> Height - (row + 1) * s]>>
      BY <1>2, <1>5 DEF tile_bounds, Side
    <2>2. DegreeBox(grid, z, col, row)
            = [minx |-> col * s, maxx |-> (col + 1) * s,
               maxy |-> Height - row * s, miny |-> Height - (row + 1) * s]
      BY <1>5 DEF DegreeBox, GridBox, Side
    <2>. QED  BY <1>5, <2>1, <2>2 DEF Turned
  <1>. QED  BY <1>3, <1>4, <1>5, GridKinds

\* The columns of the bounds of a tile are those of the grid, at every level.
LEMMA ColumnsOfItsBox ==
  ASSUME NEW grid \in PowerGrids \cup Grids, NEW z \in 0 .. MAX_ZOOM,
         IsCustom(grid) => Span(grid, z) # 0,
         NEW col \in 0 .. matrix_width(grid, z) - 1, NEW row \in 0 .. matrix_height(grid, z) - 1
  PROVE  /\ tile_bounds(grid, z, col, row)[1].minx = GridBox(grid, z, col, row).minx
         /\ tile_bounds(grid, z, col, row)[1].maxx = GridBox(grid, z, col, row).maxx
  <1> DEFINE mw == matrix_width(grid, z)
             mh == matrix_height(grid, z)
             w == IF IsCustom(grid) THEN Span(grid, z) ELSE World \div mw
  <1>1. mw \in Nat \ {0} /\ mh \in Nat \ {0}
    BY LevelCovers
  <1>2. ~(z > MAX_ZOOM \/ col >= mw \/ row >= mh)
    BY <1>1, WorldAssumption
  <1>3. GridBox(grid, z, col, row).minx = col * w /\ GridBox(grid, z, col, row).maxx = (col + 1) * w
    BY DEF GridBox
  <1>4. \E box : tile_bounds(grid, z, col, row) = <<box>> /\ box.minx = col * w /\ box.maxx = (col + 1) * w
    BY <1>2, GridKinds DEF tile_bounds
  <1>. QED  BY <1>3, <1>4

GridInv ==
  question.about = "grid" =>
      \E grid \in PowerGrids \cup Grids, z \in 0 .. MAX_ZOOM :
          question = [about |-> "grid", input |-> [grid |-> grid, z |-> z]]

LEMMA GridsFit == GridInv => TilesFit
  <1> SUFFICES ASSUME NEW grid \in PowerGrids \cup Grids, NEW z \in 0 .. MAX_ZOOM,
                      question = [about |-> "grid", input |-> [grid |-> grid, z |-> z]]
               PROVE  TilesFit
    BY DEF GridInv, TilesFit
  <1> DEFINE w == matrix_width(grid, z)
             h == matrix_height(grid, z)
             East == GridBox(grid, z, w - 1, 0)
             South == GridBox(grid, z, 0, h - 1)
  <1>0. z \in Nat /\ World \in Nat /\ Height \in Nat
    BY WorldAssumption DEF Height
  <1>1. CASE IsCustom(grid) /\ Span(grid, z) = 0
    <2>1. w = 0 /\ h = 0
      BY <1>1 DEF matrix_width, matrix_height, IsCustom
    <2>2. tile_bounds(grid, z, w, 0) = NoTile /\ tile_bounds(grid, z, 0, h) = NoTile
      BY <2>1 DEF tile_bounds
    <2>3. GridFits(grid, z)
      BY <2>1, <2>2 DEF GridFits
    <2>. QED  BY <2>3 DEF TilesFit
  <1>2. CASE IsCustom(grid) => Span(grid, z) # 0
    <2> DEFINE s == Side(grid, z)
               tall == Tall(grid)
    <2>1. /\ s \in Nat \ {0} /\ tall \in Nat \ {0} /\ w \in Nat \ {0} /\ h \in Nat \ {0}
          /\ Covers(w, s, World) /\ Covers(h, s, tall)
      BY <1>2, LevelCovers
    <2>2. tile_bounds(grid, z, w, 0) = NoTile /\ tile_bounds(grid, z, 0, h) = NoTile
      BY <2>1 DEF tile_bounds
    <2>3. \A col, row : GridBox(grid, z, col, row)
                          = [minx |-> col * s, maxx |-> (col + 1) * s,
                             maxy |-> tall - row * s, miny |-> tall - (row + 1) * s]
      BY DEF GridBox, Side, Tall
    <2>4. East.minx < World /\ World <= East.maxx /\ South.miny <= 0 /\ 0 < South.maxy
      <3>1. /\ East.minx = (w - 1) * s /\ East.maxx = (w - 1 + 1) * s
            /\ South.miny = tall - (h - 1 + 1) * s /\ South.maxy = tall - (h - 1) * s
        BY <2>3
      <3> HIDE DEF w, h, s, tall, East, South
      <3>2. (w - 1 + 1) * s = w * s /\ (h - 1 + 1) * s = h * s
        BY <2>1
      <3>3. w * s \in Nat /\ h * s \in Nat /\ (w - 1) * s \in Nat /\ (h - 1) * s \in Nat
        BY <2>1
      <3>. QED  BY <1>0, <2>1, <3>1, <3>2, <3>3 DEF Covers
    <2>5. ASSUME NEW col \in -1 .. w, NEW row \in -1 .. h, FirstOfItsSpan(grid, z)
          PROVE  handle_tiled_get_map(grid, GridBox(grid, z, col, row))
                   = IF col = w \/ row = h THEN NoTile ELSE <<z, AtLeast(col, 0), AtLeast(row, 0)>>
      <3> DEFINE box == GridBox(grid, z, col, row)
                 tile == tile_for_bbox(grid, z, box)
      <3>1. box.maxx - box.minx = s
        <4>1. box.minx = col * s /\ box.maxx = (col + 1) * s
          BY <2>3
        <4>2. col \in Int
          <5> HIDE DEF w
          <5>. QED  BY <2>1
        <4> HIDE DEF w, h, s, box
        <4>. QED  BY <2>1, <4>1, <4>2
      <3>2. zoom_for_resolution(grid, box.maxx - box.minx) = z
        BY <1>2, <2>5, <3>1, LevelOfItsSide
      <3>3. tile = IF col = w \/ row = h THEN NoTile ELSE <<AtLeast(col, 0), AtLeast(row, 0)>>
        BY <1>2, TileOfItsBox
      <3>4. handle_tiled_get_map(grid, box) = IF tile = NoTile THEN NoTile ELSE <<z, tile[1], tile[2]>>
        BY <3>2 DEF handle_tiled_get_map
      <3> HIDE DEF tile, box, w, h
      <3>5. <<AtLeast(col, 0), AtLeast(row, 0)>> # NoTile
        BY DEF NoTile
      <3>6. handle_tiled_get_map(grid, box)
              = IF col = w \/ row = h THEN NoTile ELSE <<z, AtLeast(col, 0), AtLeast(row, 0)>>
        BY <3>3, <3>4, <3>5
      <3>. QED  BY <3>6 DEF box
    <2>6. ASSUME NEW col \in 0 .. w - 1, NEW row \in 0 .. h - 1, grid.kind # "mercator" \/ z < 2
          PROVE  /\ tile_bounds(grid, z, col, row) = <<DegreeBox(grid, z, col, Turned(grid, z, row))>>
                 /\ render_tms_tile(grid, z, col, Turned(grid, z, row))
                       = <<DegreeBox(grid, z, col, h - 1 - row)>>
                 /\ Turned(grid, z, row) \in 0 .. h - 1
      <3>1. tile_bounds(grid, z, col, row) = <<DegreeBox(grid, z, col, Turned(grid, z, row))>>
        BY <1>2, <2>6, BoundsOfItsBox
      <3> DEFINE y == Turned(grid, z, row)
                 slippy == h - 1 - y
      <3>2. y \in 0 .. h - 1 /\ slippy \in 0 .. h - 1 /\ y < h /\ Turned(grid, z, slippy) = h - 1 - row
        BY <2>1 DEF Turned
      <3>3. tms_row_to_slippy(grid, z, y) = <<slippy>>
        BY <2>1, <3>2 DEF tms_row_to_slippy
      <3>4. render_tms_tile(grid, z, col, y) = tile_bounds(grid, z, col, slippy)
        BY <3>3 DEF render_tms_tile, NoTile
      <3> HIDE DEF y, slippy
      <3>5. tile_bounds(grid, z, col, slippy) = <<DegreeBox(grid, z, col, Turned(grid, z, slippy))>>
        BY <1>2, <2>6, <3>2, BoundsOfItsBox
      <3>. QED  BY <3>1, <3>2, <3>4, <3>5 DEF y
    <2>7. ASSUME NEW col \in 0 .. w - 1, NEW row \in 0 .. h - 1
          PROVE  /\ tile_bounds(grid, z, col, row)[1].minx = GridBox(grid, z, col, row).minx
                 /\ tile_bounds(grid, z, col, row)[1].maxx = GridBox(grid, z, col, row).maxx
      BY <1>2, ColumnsOfItsBox
    <2> HIDE DEF w, h
    <2>8. ASSUME NEW col \in 0 .. w - 1, NEW row \in 0 .. h - 1, RowsFromNorth(grid, z)
          PROVE  /\ tile_bounds(grid, z, col, row) = <<DegreeBox(grid, z, col, row)>>
                 /\ render_tms_tile(grid, z, col, h - 1 - row) = <<DegreeBox(grid, z, col, row)>>
      <3>1. grid.kind # "geodetic" /\ (grid.kind # "mercator" \/ z < 2)
        BY <2>8 DEF RowsFromNorth, IsCustom
      <3>2. h - 1 - row \in 0 .. h - 1 /\ h - 1 - (h - 1 - row) = row
        BY <2>1
      <3>3. \A k \in 0 .. h - 1 : Turned(grid, z, k) = k
        BY <3>1 DEF Turned
      <3>. QED  BY <2>6, <3>1, <3>2, <3>3
    <2>9. ASSUME NEW col \in 0 .. w - 1, NEW row \in 0 .. h - 1, grid.kind = "geodetic"
          PROVE  /\ \E y \in 0 .. h - 1 : tile_bounds(grid, z, col, y) = <<DegreeBox(grid, z, col, row)>>
                 /\ \E y \in 0 .. h - 1 : render_tms_tile(grid, z, col, y) = <<DegreeBox(grid, z, col, row)>>
      <3> DEFINE turned == h - 1 - row
      <3>1. turned \in 0 .. h - 1 /\ h - 1 - turned = row
        BY <2>1
      <3>2. Turned(grid, z, turned) = row
        BY <2>9, <3>1 DEF Turned, h
      <3> HIDE DEF turned
      <3>3. /\ tile_bounds(grid, z, col, turned) = <<DegreeBox(grid, z, col, row)>>
            /\ render_tms_tile(grid, z, col, row) = <<DegreeBox(grid, z, col, row)>>
        BY <2>6, <2>9, <3>1, <3>2
      <3>. QED  BY <3>1, <3>3
    <2>10. w > 0 /\ FirstOfItsSpan(grid, z) =>
              \A col \in -1 .. w, row \in -1 .. h :
                 handle_tiled_get_map(grid, GridBox(grid, z, col, row))
                    = IF col = w \/ row = h THEN NoTile ELSE <<z, AtLeast(col, 0), AtLeast(row, 0)>>
      BY <2>5
    <2>11. \A col \in 0 .. w - 1, row \in 0 .. h - 1 :
             /\ tile_bounds(grid, z, col, row)[1].minx = GridBox(grid, z, col, row).minx
             /\ tile_bounds(grid, z, col, row)[1].maxx = GridBox(grid, z, col, row).maxx
             /\ RowsFromNorth(grid, z) =>
                  /\ tile_bounds(grid, z, col, row) = <<DegreeBox(grid, z, col, row)>>
                  /\ render_tms_tile(grid, z, col, h - 1 - row) = <<DegreeBox(grid, z, col, row)>>
             /\ grid.kind = "geodetic" =>
                  /\ \E y \in 0 .. h - 1 : tile_bounds(grid, z, col, y) = <<DegreeBox(grid, z, col, row)>>
                  /\ \E y \in 0 .. h - 1 : render_tms_tile(grid, z, col, y) = <<DegreeBox(grid, z, col, row)>>
      BY <2>7, <2>8, <2>9
    <2>12. GridFits(grid, z)
      BY <2>2, <2>4, <2>10, <2>11, Zenon DEF GridFits, w, h
    <2>. QED  BY <2>12 DEF TilesFit
  <1>. QED  BY <1>1, <1>2

\* Every grid divides the world as its protocols say, at every level.
THEOREM ProvedSpecTilesFit == ProvedSpec => []TilesFit
  <1>1. Unasked => GridInv
    BY DEF Unasked, GridInv
  <1>2. GridInv /\ [ProvedNext]_question => GridInv'
    <2>. SUFFICES ASSUME GridInv, [ProvedNext]_question PROVE GridInv'
      OBVIOUS
    <2>1. CASE AskGrid
      BY <2>1 DEF AskGrid, Asks, GridInv
    <2>2. CASE question' = question
      BY <2>2 DEF GridInv
    <2>3. CASE question'.about # "grid"
      BY <2>3 DEF GridInv
    <2>. QED  BY <2>1, <2>2, <2>3, WhatIsAsked
  <1>. QED  BY <1>1, <1>2, GridsFit, PTL DEF ProvedSpec

-----------------------------------------------------------------------------
(* Questions: backups. What a server has after k items of a backup is what *)
(* was there before or what a row of the saved server is restored as       *)
(* (Follows), with the names of all k items (Through); and a backup has    *)
(* all rows of all sections, and the permissions in one piece              *)
(* (BackupHolds).                                                          *)

\* A table with one row more.
LEMMA RowsWithRow ==
  ASSUME NEW table, NEW item
  PROVE  /\ DOMAIN WithRow(table, item) = DOMAIN table \cup {item.name}
         /\ IsTable(WithRow(table, item))
         /\ WithRow(table, item)[item.name] = Stored(item)
         /\ \A n \in DOMAIN table : n # item.name => WithRow(table, item)[n] = table[n]
  BY DEF WithRow, IsTable

Grown(report, grown) ==
  grown \in [done : Nat, refused : Nat] /\ grown.done + grown.refused = report.done + report.refused + 1

SettingRow(st, item, new) ==
  /\ IsServer(new)
  /\ new.rows = [st.rows EXCEPT ![item.section] = WithRow(st.rows[item.section], item)]
  /\ new.permissions = st.permissions /\ new.layers = st.layers /\ new.styles = st.styles
  /\ new.groups = st.groups
  /\ Grown(st.report, new.report)

LEMMA RowSet ==
  ASSUME NEW st, IsServer(st), NEW item, item.section \in Sections, NEW new, new = SetRow(st, item)
  PROVE  SettingRow(st, item, new)
  <1> DEFINE rows == [st.rows EXCEPT ![item.section] = WithRow(st.rows[item.section], item)]
             report == [st.report EXCEPT !.done = st.report.done + 1]
  <1>1. new = [rows |-> rows, permissions |-> st.permissions, layers |-> st.layers,
               styles |-> st.styles, groups |-> st.groups, report |-> report]
    BY DEF IsServer, SetRow
  <1>2. report \in [done : Nat, refused : Nat] /\ Grown(st.report, report)
    <2>1. st.report \in [done : Nat, refused : Nat]
      BY DEF IsServer
    <2>2. report.done = st.report.done + 1 /\ report.refused = st.report.refused
      BY <2>1
    <2>3. report \in [done : Nat, refused : Nat]
      BY <2>1
    <2> HIDE DEF report
    <2>. QED  BY <2>1, <2>2, <2>3 DEF Grown
  <1>3. rows = [section \in Sections |-> rows[section]] /\ \A section \in Sections : IsTable(rows[section])
    BY RowsWithRow DEF IsServer
  <1> HIDE DEF rows, report
  <1>4. IsServer(new)
    BY <1>1, <1>2, <1>3 DEF IsServer
  <1>. QED  BY <1>1, <1>2, <1>4 DEF rows, SettingRow

LEMMA Appended ==
  ASSUME NEW s, s \in Seq(ToSet(s)), NEW e
  PROVE  /\ Append(s, e) \in Seq(ToSet(Append(s, e)))
         /\ Len(Append(s, e)) = Len(s) + 1
         /\ Append(s, e)[Len(s) + 1] = e /\ \A i \in 1 .. Len(s) : Append(s, e)[i] = s[i]
         /\ DOMAIN Append(s, e) = 1 .. Len(s) + 1
  <1> DEFINE T == ToSet(s) \cup {e}
             t == Append(s, e)
  <1>1. s \in Seq(T)
    OBVIOUS
  <1>2. t \in Seq(T) /\ Len(t) = Len(s) + 1 /\ t[Len(s) + 1] = e /\ \A i \in 1 .. Len(s) : t[i] = s[i]
    BY <1>1
  <1>3. DOMAIN t = 1 .. Len(s) + 1 /\ t = [i \in DOMAIN t |-> t[i]] /\ Len(s) \in Nat
    <2>1. t \in Seq(T)
      BY <1>2
    <2> HIDE DEF t, T
    <2>. QED  BY <1>1, <1>2, <2>1
  <1> HIDE DEF t, T
  <1>4. t \in Seq(ToSet(t))
    BY <1>3 DEF ToSet
  <1>. QED  BY <1>2, <1>3, <1>4 DEF t

\* What the import of an item does to a server.
Taken(st, item) == item.section \in Keyed /\ item.name \in DOMAIN st.rows[item.section]

LayersInStep(st) ==
  /\ {st.layers[i].name : i \in DOMAIN st.layers} = DOMAIN st.rows.layers
  /\ \A i, j \in DOMAIN st.layers : st.layers[i].name = st.layers[j].name => i = j

LEMMA ItemRefused ==
  ASSUME NEW st, IsServer(st), NEW new, new = Refuse(st)
  PROVE  /\ IsServer(new) /\ Grown(st.report, new.report)
         /\ new.rows = st.rows /\ new.permissions = st.permissions /\ new.styles = st.styles
         /\ new.layers = st.layers
  <1> DEFINE report == [st.report EXCEPT !.refused = st.report.refused + 1]
  <1>1. new = [rows |-> st.rows, permissions |-> st.permissions, layers |-> st.layers,
               styles |-> st.styles, groups |-> st.groups, report |-> report]
    BY DEF IsServer, Refuse
  <1>2. report \in [done : Nat, refused : Nat] /\ Grown(st.report, report)
    <2>1. st.report \in [done : Nat, refused : Nat]
      BY DEF IsServer
    <2>2. report.refused = st.report.refused + 1 /\ report.done = st.report.done
      BY <2>1
    <2>3. report \in [done : Nat, refused : Nat]
      BY <2>1
    <2> HIDE DEF report
    <2>. QED  BY <2>1, <2>2, <2>3 DEF Grown
  <1> HIDE DEF report
  <1>. QED  BY <1>1, <1>2 DEF IsServer

LEMMA PermissionSet ==
  ASSUME NEW st, IsServer(st), NEW item, NEW permissions, permissions = Append(st.permissions, item.value),
         NEW new, new = ImportPermission(st, item)
  PROVE  /\ IsServer(new) /\ Grown(st.report, new.report)
         /\ new.rows = st.rows /\ new.permissions = permissions /\ new.styles = st.styles
         /\ new.layers = st.layers
  <1> DEFINE report == [st.report EXCEPT !.done = st.report.done + 1]
  <1>1. new = [rows |-> st.rows, permissions |-> permissions, layers |-> st.layers,
               styles |-> st.styles, groups |-> st.groups, report |-> report]
    BY DEF IsServer, ImportPermission
  <1>2. report \in [done : Nat, refused : Nat] /\ Grown(st.report, report)
    <2>1. st.report \in [done : Nat, refused : Nat]
      BY DEF IsServer
    <2>2. report.done = st.report.done + 1 /\ report.refused = st.report.refused
      BY <2>1
    <2>3. report \in [done : Nat, refused : Nat]
      BY <2>1
    <2> HIDE DEF report
    <2>. QED  BY <2>1, <2>2, <2>3 DEF Grown
  <1>3. permissions \in Seq(ToSet(permissions))
    BY Appended DEF IsServer
  <1> HIDE DEF report
  <1>. QED  BY <1>1, <1>2, <1>3 DEF IsServer

LEMMA ServerWithLayers ==
  ASSUME NEW st, IsServer(st), NEW layers, layers \in Seq(ToSet(layers)), NEW new, new = [st EXCEPT !.layers = layers]
  PROVE  /\ IsServer(new)
         /\ new.rows = st.rows /\ new.permissions = st.permissions /\ new.styles = st.styles
         /\ new.layers = layers /\ new.report = st.report
  <1>1. new = [rows |-> st.rows, permissions |-> st.permissions, layers |-> layers,
               styles |-> st.styles, groups |-> st.groups, report |-> st.report]
    BY DEF IsServer
  <1>. QED  BY <1>1 DEF IsServer

LEMMA ServerWithGroups ==
  ASSUME NEW st, IsServer(st), NEW groups, groups \in Seq(ToSet(groups)), NEW new, new = [st EXCEPT !.groups = groups]
  PROVE  /\ IsServer(new)
         /\ new.rows = st.rows /\ new.permissions = st.permissions /\ new.styles = st.styles
         /\ new.layers = st.layers /\ new.report = st.report
  <1>1. new = [rows |-> st.rows, permissions |-> st.permissions, layers |-> st.layers,
               styles |-> st.styles, groups |-> groups, report |-> st.report]
    BY DEF IsServer
  <1>. QED  BY <1>1 DEF IsServer

LEMMA ServerWithStyles ==
  ASSUME NEW st, IsServer(st), NEW styles, NEW new, new = [st EXCEPT !.styles = styles]
  PROVE  /\ IsServer(new)
         /\ new.rows = st.rows /\ new.permissions = st.permissions /\ new.styles = styles
         /\ new.layers = st.layers /\ new.report = st.report
  <1>1. new = [rows |-> st.rows, permissions |-> st.permissions, layers |-> st.layers,
               styles |-> styles, groups |-> st.groups, report |-> st.report]
    BY DEF IsServer
  <1>. QED  BY <1>1 DEF IsServer

Importable(item) == item.section \in Sections \cup {"permissions"}

\* What becomes of a server when an item is imported.
Taking(st, item, new) ==
  /\ IsServer(new) /\ Grown(st.report, new.report)
  /\ item.section = "permissions" \/ Taken(st, item) => new.rows = st.rows
  /\ item.section # "permissions" /\ ~Taken(st, item) =>
        new.rows = [st.rows EXCEPT ![item.section] = WithRow(st.rows[item.section], item)]
  /\ item.section # "permissions" => new.permissions = st.permissions
  /\ new.styles = IF item.section = "styles" THEN WithRow(st.styles, item) ELSE st.styles
  /\ item.section # "layers" \/ Taken(st, item) => new.layers = st.layers

LEMMA ItemImported ==
  ASSUME NEW st, IsServer(st), NEW item, Importable(item), NEW new, new = ImportItem(st, item)
  PROVE  Taking(st, item, new)
  <1>1. CASE item.section = "permissions"
    <2>1. new = ImportPermission(st, item)
      BY <1>1 DEF ImportItem, Keyed
    <2>2. /\ IsServer(new) /\ Grown(st.report, new.report)
          /\ new.rows = st.rows /\ new.styles = st.styles
          /\ new.layers = st.layers
      <3> DEFINE more == Append(st.permissions, item.value)
      <3>1. more = Append(st.permissions, item.value)
        OBVIOUS
      <3> HIDE DEF more
      <3>. QED  BY <2>1, <3>1, PermissionSet
    <2>. QED  BY <1>1, <2>2 DEF Taking
  <1>2. CASE Taken(st, item)
    <2>1. new = Refuse(st)
      <3>1. new = ImportRow(st, item)
        BY <1>2 DEF ImportItem, Taken, Keyed
      <3>. QED  BY <1>2, <3>1 DEF ImportRow, Taken
    <2>2. item.section # "permissions" /\ item.section # "styles"
      BY <1>2 DEF Taken, Keyed
    <2>3. /\ IsServer(new) /\ Grown(st.report, new.report)
          /\ new.rows = st.rows /\ new.permissions = st.permissions /\ new.styles = st.styles
          /\ new.layers = st.layers
      BY <2>1, ItemRefused
    <2>. QED  BY <1>2, <2>2, <2>3 DEF Taking
  <1>3. CASE item.section # "permissions" /\ ~Taken(st, item)
    <2> DEFINE set == SetRow(st, item)
    <2>0. item.section \in Sections
      BY <1>3 DEF Importable
    <2>1. /\ IsServer(set) /\ Grown(st.report, set.report)
          /\ set.rows = [st.rows EXCEPT ![item.section] = WithRow(st.rows[item.section], item)]
          /\ set.permissions = st.permissions /\ set.layers = st.layers /\ set.styles = st.styles
          /\ set.groups = st.groups
      <3>1. SettingRow(st, item, set)
        BY <2>0, RowSet
      <3> HIDE DEF set
      <3>. QED  BY <3>1 DEF SettingRow
    <2> HIDE DEF set
    <2>2. CASE item.section \in Keyed \ {"layers"}
      <3>1. new = set
        <4>1. new = ImportRow(st, item)
          BY <2>2 DEF ImportItem, Keyed
        <4>. QED  BY <1>3, <2>2, <4>1 DEF ImportRow, Taken, set
      <3>. QED  BY <1>3, <2>1, <2>2, <3>1 DEF Keyed, Taking
    <2>3. CASE item.section = "layers"
      <3> DEFINE layers == Append(st.layers, [name |-> item.name, enabled |-> TRUE])
      <3>1. new = [set EXCEPT !.layers = layers]
        <4>1. new = ImportRow(st, item)
          BY <2>3 DEF ImportItem, Keyed
        <4>. QED  BY <1>3, <2>1, <2>3, <4>1 DEF ImportRow, Taken, set, Keyed
      <3>2. layers \in Seq(ToSet(layers))
        BY Appended DEF IsServer
      <3> HIDE DEF layers
      <3>3. /\ IsServer(new)
            /\ new.rows = set.rows /\ new.permissions = set.permissions /\ new.styles = set.styles
            /\ new.layers = layers /\ new.report = set.report
        BY <2>1, <3>1, <3>2, ServerWithLayers
      <3>. QED  BY <1>3, <2>1, <2>3, <3>3 DEF layers, Taking
    <2>4. CASE item.section = "styles"
      <3> DEFINE styles == WithRow(st.styles, item)
      <3>1. new = [set EXCEPT !.styles = styles]
        BY <2>1, <2>4 DEF ImportItem, ImportStyle, set, Keyed
      <3> HIDE DEF styles
      <3>2. /\ IsServer(new)
            /\ new.rows = set.rows /\ new.permissions = set.permissions /\ new.styles = styles
            /\ new.layers = set.layers /\ new.report = set.report
        BY <2>1, <3>1, ServerWithStyles
      <3>. QED  BY <1>3, <2>1, <2>4, <3>2 DEF styles, Taking
    <2>5. CASE item.section = "groups"
      <3> DEFINE groups == Append(st.groups, [name |-> item.name, layers |-> item.value.layers, styles |-> <<>>])
      <3>1. new = [set EXCEPT !.groups = groups]
        BY <2>1, <2>5 DEF ImportItem, ImportGroup, set, Keyed
      <3>2. groups \in Seq(ToSet(groups))
        BY Appended DEF IsServer
      <3> HIDE DEF groups
      <3>3. /\ IsServer(new)
            /\ new.rows = set.rows /\ new.permissions = set.permissions /\ new.styles = set.styles
            /\ new.layers = set.layers /\ new.report = set.report
        BY <2>1, <3>1, <3>2, ServerWithGroups
      <3>. QED  BY <1>3, <2>1, <2>5, <3>3 DEF Taking
    <2>. QED  BY <2>0, <2>2, <2>3, <2>4, <2>5 DEF Sections
  <1>. QED  BY <1>1, <1>2, <1>3

LEMMA ItemLayered ==
  ASSUME NEW st, IsServer(st), NEW item, item.section = "layers", ~Taken(st, item), NEW new, new = ImportItem(st, item)
  PROVE  new.layers = Append(st.layers, [name |-> item.name, enabled |-> TRUE])
  <1> DEFINE set == SetRow(st, item)
             layers == Append(st.layers, [name |-> item.name, enabled |-> TRUE])
  <1>1. IsServer(set) /\ set.layers = st.layers
    <2>1. item.section \in Sections
      BY DEF Sections, Keyed
    <2>2. SettingRow(st, item, set)
      BY <2>1, RowSet
    <2> HIDE DEF set
    <2>. QED  BY <2>2 DEF SettingRow
  <1>2. new = [set EXCEPT !.layers = layers]
    <2>1. new = ImportRow(st, item)
      BY DEF ImportItem, Keyed
    <2>2. item.name \notin DOMAIN st.rows[item.section]
      BY DEF Taken, Keyed
    <2> HIDE DEF set
    <2>. QED  BY <1>1, <2>1, <2>2 DEF ImportRow, set
  <1>3. layers \in Seq(ToSet(layers))
    BY Appended DEF IsServer
  <1> HIDE DEF set
  <1>4. layers = Append(st.layers, [name |-> item.name, enabled |-> TRUE])
    OBVIOUS
  <1> HIDE DEF layers
  <1>5. new.layers = layers
    BY <1>1, <1>2, <1>3, ServerWithLayers
  <1>. QED  BY <1>4, <1>5, Zenon

LEMMA ItemPermits ==
  ASSUME NEW st, IsServer(st), NEW item, item.section = "permissions", NEW new, new = ImportItem(st, item)
  PROVE  new.permissions = Append(st.permissions, item.value)
  <1> DEFINE more == Append(st.permissions, item.value)
  <1>1. new = ImportPermission(st, item)
    BY DEF ImportItem, Keyed
  <1>2. more = Append(st.permissions, item.value)
    OBVIOUS
  <1> HIDE DEF more
  <1>3. new.permissions = more
    BY <1>1, <1>2, PermissionSet
  <1>. QED  BY <1>2, <1>3, Zenon

\* after is what a server is after each of the first m items.
Imports(after, st, b, m) ==
  /\ after = [k \in 0 .. m |-> after[k]]
  /\ after[0] = Reset(st)
  /\ \A k \in 1 .. m : after[k] = ImportItem(after[k - 1], b[k])

LEMMA SomeImport ==
  ASSUME NEW st, NEW b, NEW m \in Nat
  PROVE  \E after : Imports(after, st, b, m)
  <1> DEFINE S == {n \in 0 .. m : \E after : Imports(after, st, b, n)}
  <1>1. 0 \in S
    <2>1. Imports([i \in 0 .. 0 |-> Reset(st)], st, b, 0)
      BY DEF Imports
    <2>. QED  BY <2>1
  <1>2. ASSUME NEW n \in 0 .. (m - 1), n \in S PROVE n + 1 \in S
    <2>1. PICK a : Imports(a, st, b, n)
      BY <1>2
    <2> DEFINE next == ImportItem(a[n], b[n + 1])
               c == [i \in 0 .. (n + 1) |-> IF i <= n THEN a[i] ELSE next]
    <2>2. c = [i \in 0 .. (n + 1) |-> c[i]] /\ c[0] = Reset(st)
      BY <2>1 DEF Imports
    <2>3. ASSUME NEW i \in 1 .. (n + 1) PROVE c[i] = ImportItem(c[i - 1], b[i])
      <3>1. c[i - 1] = a[i - 1]
        OBVIOUS
      <3>2. CASE i <= n
        <4>1. c[i] = a[i] /\ i \in 1 .. n
          BY <3>2
        <4>. QED  BY <2>1, <3>1, <4>1 DEF Imports
      <3>3. CASE i = n + 1
        <4>1. c[i] = next /\ i - 1 = n
          BY <3>3
        <4>. QED  BY <3>1, <3>3, <4>1
      <3>. QED  BY <3>2, <3>3
    <2>4. Imports(c, st, b, n + 1)
      <3> HIDE DEF c
      <3>. QED  BY <2>2, <2>3 DEF Imports
    <2>. QED  BY <2>4
  <1> HIDE DEF S
  <1>3. m \in S
    BY <1>1, <1>2, UpTo
  <1>. QED  BY <1>3 DEF S

\* import_backup goes through the items as Imports says.
LEMMA ImportGoes ==
  ASSUME NEW T, NEW b \in Seq(T), NEW st
  PROVE  \E after : Imports(after, st, b, Len(b)) /\ import_backup(st, b) = after[Len(b)]
  <1> DEFINE Body(after) ==
        [k \in 0 .. Len(b) |-> IF k = 0 THEN Reset(st) ELSE ImportItem(after[k - 1], b[k])]
             f == CHOOSE after : after = Body(after)
             m == Len(b)
  <1>0. m \in Nat
    OBVIOUS
  <1>1. PICK a : Imports(a, st, b, m)
    BY <1>0, SomeImport
  <1>2. a = Body(a)
    <2>1. ASSUME NEW k \in 0 .. m PROVE a[k] = Body(a)[k]
      <3>1. CASE k = 0
        BY <1>1, <3>1 DEF Imports
      <3>2. CASE k # 0
        BY <1>1, <3>2 DEF Imports
      <3>. QED  BY <3>1, <3>2
    <2>2. a = [k \in 0 .. m |-> a[k]]
      BY <1>1 DEF Imports
    <2>3. Body(a) = [k \in 0 .. m |-> Body(a)[k]]
      OBVIOUS
    <2> HIDE DEF Body, m
    <2>4. [k \in 0 .. m |-> a[k]] = [k \in 0 .. m |-> Body(a)[k]]
      BY <2>1
    <2>. QED  BY <2>2, <2>3, <2>4
  <1>3. f = Body(f)
    <2> HIDE DEF Body
    <2>. QED  BY <1>2
  <1>4. import_backup(st, b) = f[m]
    BY DEF import_backup
  <1>5. Imports(f, st, b, m)
    <2>1. ASSUME NEW k \in 0 .. m PROVE f[k] = Body(f)[k]
      <3> HIDE DEF Body, f
      <3>. QED  BY <1>3
    <2> HIDE DEF f
    <2>2. f = [k \in 0 .. m |-> f[k]]
      <3>1. Body(f) = [k \in 0 .. m |-> Body(f)[k]]
        OBVIOUS
      <3> HIDE DEF Body, m
      <3>. QED  BY <1>3, <2>1, <3>1
    <2>3. f[0] = Reset(st)
      <3>1. 0 \in 0 .. m
        BY <1>0
      <3>2. f[0] = Body(f)[0]
        <4> HIDE DEF Body, m
        <4>. QED  BY <2>1, <3>1
      <3>. QED  BY <3>1, <3>2
    <2>4. ASSUME NEW k \in 1 .. m PROVE f[k] = ImportItem(f[k - 1], b[k])
      BY <2>1
    <2>. QED  BY <2>2, <2>3, <2>4 DEF Imports
  <1>. QED  BY <1>4, <1>5

-----------------------------------------------------------------------------
\* What a backup has of a row, and what is restored of it.
SavedValue(srv, section, n) ==
  IF section = "styles"
  THEN [title |-> srv.rows.styles[n].title, content |-> srv.rows.styles[n].content,
        format |-> srv.rows.styles[n].format]
  ELSE IF section = "groups" THEN [layers |-> srv.rows.groups[n].layers]
  ELSE srv.rows[section][n]

Restored(srv, section, n) == Stored(Item(section, n, SavedValue(srv, section, n)))

\* Items of a backup of srv.
ItemOf(item, srv) ==
  /\ Importable(item)
  /\ item.section # "permissions" =>
        /\ item.name \in DOMAIN srv.rows[item.section]
        /\ item = Item(item.section, item.name, SavedValue(srv, item.section, item.name))

ItemsOf(b, srv) == b \in Seq(ToSet(b)) /\ \A i \in 1 .. Len(b) : ItemOf(b[i], srv)

\* The rows of these sections were there before, or are restored.
Follows(rows, old, srv, sections) ==
  \A section \in sections :
    /\ DOMAIN old[section] \subseteq DOMAIN rows[section]
    /\ \A n \in DOMAIN rows[section] :
          IF section \in Keyed /\ n \in DOMAIN old[section] THEN rows[section][n] = old[section][n]
          ELSE n \in DOMAIN srv.rows[section] /\ rows[section][n] = Restored(srv, section, n)

Through(st, b, k, sections) ==
  \A i \in 1 .. k : b[i].section \in sections => b[i].name \in DOMAIN st.rows[b[i].section]

LEMMA ResetKeeps ==
  ASSUME NEW st, IsServer(st), NEW new, new = Reset(st)
  PROVE  /\ IsServer(new) /\ new.rows = st.rows /\ new.permissions = st.permissions /\ new.styles = st.styles
         /\ new.layers = st.layers /\ new.report.done + new.report.refused = 0
  <1>1. new = [rows |-> st.rows, permissions |-> st.permissions, layers |-> st.layers,
               styles |-> st.styles, groups |-> st.groups, report |-> [done |-> 0, refused |-> 0]]
    BY DEF IsServer, Reset
  <1>. QED  BY <1>1 DEF IsServer

\* One item more.
LEMMA ItemFollows ==
  ASSUME NEW st, IsServer(st), NEW old, NEW srv, NEW sections, sections \subseteq Sections,
         Follows(st.rows, old, srv, sections),
         NEW item, ItemOf(item, srv), NEW new, new = ImportItem(st, item)
  PROVE  /\ Follows(new.rows, old, srv, sections)
         /\ item.section \in sections => item.name \in DOMAIN new.rows[item.section]
         /\ \A section \in Sections : DOMAIN st.rows[section] \subseteq DOMAIN new.rows[section]
  <1>0. Taking(st, item, new) /\ Importable(item)
    BY ItemImported DEF ItemOf
  <1>1. CASE item.section = "permissions" \/ Taken(st, item)
    <2>1. new.rows = st.rows
      BY <1>0, <1>1 DEF Taking
    <2>2. item.section \in sections => Taken(st, item)
      BY <1>1 DEF Sections, Keyed
    <2>. QED  BY <2>1, <2>2 DEF Taken
  <1>2. CASE item.section # "permissions" /\ ~Taken(st, item)
    <2> DEFINE table == WithRow(st.rows[item.section], item)
    <2>1. new.rows = [st.rows EXCEPT ![item.section] = table]
      BY <1>0, <1>2 DEF Taking
    <2>2. /\ DOMAIN table = DOMAIN st.rows[item.section] \cup {item.name}
          /\ table[item.name] = Stored(item)
          /\ \A n \in DOMAIN st.rows[item.section] : n # item.name => table[n] = st.rows[item.section][n]
      BY RowsWithRow
    <2> HIDE DEF table
    <2>3. item.section \in Sections /\ DOMAIN st.rows = Sections
      BY <1>0, <1>2 DEF IsServer, Importable
    <2>4. new.rows[item.section] = table /\ \A section \in Sections : section # item.section => new.rows[section] = st.rows[section]
      BY <2>1, <2>3
    <2>5. \A section \in Sections : DOMAIN st.rows[section] \subseteq DOMAIN new.rows[section]
      BY <2>2, <2>4
    <2>6. item.name \in DOMAIN new.rows[item.section]
      BY <2>2, <2>4
    <2>7. ASSUME NEW section \in sections, NEW n \in DOMAIN new.rows[section]
          PROVE  IF section \in Keyed /\ n \in DOMAIN old[section] THEN new.rows[section][n] = old[section][n]
                 ELSE n \in DOMAIN srv.rows[section] /\ new.rows[section][n] = Restored(srv, section, n)
      <3>1. CASE section # item.section \/ n # item.name
        <4>1. n \in DOMAIN st.rows[section] /\ new.rows[section][n] = st.rows[section][n]
          BY <2>2, <2>4, <2>7, <3>1
        <4>. QED  BY <4>1 DEF Follows
      <3>2. CASE section = item.section /\ n = item.name
        <4>1. new.rows[section][n] = Stored(item)
          BY <2>2, <2>4, <3>2
        <4>2. Stored(item) = Restored(srv, section, n) /\ n \in DOMAIN srv.rows[section]
          BY <1>2, <3>2 DEF Restored, ItemOf
        <4>3. ~(section \in Keyed /\ n \in DOMAIN old[section])
          BY <1>2, <2>7, <3>2 DEF Taken, Follows
        <4>. QED  BY <4>1, <4>2, <4>3
      <3>. QED  BY <3>1, <3>2
    <2>8. \A section \in sections : DOMAIN old[section] \subseteq DOMAIN new.rows[section]
      BY <2>5 DEF Follows
    <2>. QED  BY <2>5, <2>6, <2>7, <2>8 DEF Follows
  <1>. QED  BY <1>1, <1>2

\* The report of an import counts every item.
Counted(new, b) == new.report.done + new.report.refused = Len(b)

LEMMA ImportFollows ==
  ASSUME NEW st, IsServer(st), NEW old, NEW srv, NEW sections, sections \subseteq Sections,
         Follows(st.rows, old, srv, sections), NEW b, ItemsOf(b, srv), NEW new, new = import_backup(st, b)
  PROVE  /\ IsServer(new)
         /\ Follows(new.rows, old, srv, sections)
         /\ Through(new, b, Len(b), sections)
         /\ Counted(new, b)
  <1>1. b \in Seq(ToSet(b)) /\ Len(b) \in Nat
    BY DEF ItemsOf
  <1>2. PICK after : Imports(after, st, b, Len(b)) /\ new = after[Len(b)]
    BY <1>1, ImportGoes
  <1> DEFINE S == {k \in 0 .. Len(b) : /\ IsServer(after[k])
                                       /\ Follows(after[k].rows, old, srv, sections)
                                       /\ Through(after[k], b, k, sections)
                                       /\ after[k].report.done + after[k].report.refused = k}
  <1>3. 0 \in S
    <2>1. after[0] = Reset(st)
      BY <1>2 DEF Imports
    <2>. QED  BY <1>1, <2>1, ResetKeeps DEF Through
  <1>4. ASSUME NEW k \in 0 .. (Len(b) - 1), k \in S PROVE k + 1 \in S
    <2> DEFINE was == after[k]
               item == b[k + 1]
               next == after[k + 1]
    <2>1. next = ImportItem(was, item)
      BY <1>2 DEF Imports
    <2>2. /\ IsServer(was) /\ Follows(was.rows, old, srv, sections) /\ Through(was, b, k, sections)
          /\ was.report.done + was.report.refused = k
      BY <1>4
    <2>3. ItemOf(item, srv) /\ Importable(item)
      BY <1>1, <1>4 DEF ItemsOf, ItemOf
    <2> HIDE DEF was, item, next
    <2>4. /\ IsServer(next) /\ Grown(was.report, next.report)
      <3>1. Taking(was, item, next)
        BY <2>1, <2>2, <2>3, ItemImported
      <3>. QED  BY <3>1 DEF Taking
    <2>5. /\ Follows(next.rows, old, srv, sections)
          /\ item.section \in sections => item.name \in DOMAIN next.rows[item.section]
          /\ \A section \in Sections : DOMAIN was.rows[section] \subseteq DOMAIN next.rows[section]
      BY <2>1, <2>2, <2>3, ItemFollows
    <2>6. Through(next, b, k + 1, sections)
      <3> SUFFICES ASSUME NEW i \in 1 .. k + 1, b[i].section \in sections
                   PROVE  b[i].name \in DOMAIN next.rows[b[i].section]
        BY DEF Through
      <3>1. CASE i = k + 1
        BY <2>5, <3>1 DEF item
      <3>2. CASE i \in 1 .. k
        BY <2>2, <2>5, <3>2 DEF Through
      <3>. QED  BY <3>1, <3>2
    <2>7. next.report.done + next.report.refused = k + 1
      BY <2>2, <2>4 DEF Grown
    <2>. QED  BY <2>4, <2>5, <2>6, <2>7 DEF next
  <1> HIDE DEF S
  <1>5. Len(b) \in S
    <2> DEFINE m == Len(b)
    <2>1. m \in Nat /\ \A k \in 0 .. (m - 1) : k \in S => k + 1 \in S
      BY <1>1, <1>4
    <2> HIDE DEF m
    <2>2. \A k \in 0 .. m : k \in S
      BY <1>3, <2>1, UpTo
    <2>. QED  BY <1>1, <2>2 DEF m
  <1>. QED  BY <1>2, <1>5 DEF S, Counted

LEMMA ItemInStep ==
  ASSUME NEW st, IsServer(st), InStep(st), NEW item, Importable(item),
         NEW new, new = ImportItem(st, item)
  PROVE  InStep(new)
  <1>0. Taking(st, item, new)
    BY ItemImported
  <1>1. CASE item.section = "permissions" \/ Taken(st, item)
    <2>1. item.section # "styles"
      BY <1>1 DEF Taken, Keyed
    <2>. QED  BY <1>0, <1>1, <2>1 DEF InStep, Taking
  <1>2. CASE item.section # "permissions" /\ ~Taken(st, item)
    <2> DEFINE table == WithRow(st.rows[item.section], item)
    <2>1. item.section \in Sections /\ DOMAIN st.rows = Sections /\ {"layers", "styles"} \subseteq Sections
      BY <1>2 DEF IsServer, Sections, Keyed, Importable
    <2>2. /\ new.rows[item.section] = table
          /\ \A section \in Sections : section # item.section => new.rows[section] = st.rows[section]
      BY <1>0, <1>2, <2>1 DEF Taking
    <2>3. new.styles = new.rows.styles
      BY <1>0, <2>1, <2>2 DEF InStep, Taking
    <2>4. CASE item.section # "layers"
      <3>1. new.layers = st.layers /\ new.rows.layers = st.rows.layers
        BY <1>0, <2>1, <2>2, <2>4 DEF Taking
      <3>. QED  BY <2>3, <3>1 DEF InStep
    <2>5. CASE item.section = "layers"
      <3> DEFINE layer == [name |-> item.name, enabled |-> TRUE]
                 m == Len(st.layers)
      <3>0. new.layers = Append(st.layers, layer)
        BY <1>2, <2>5, ItemLayered, Zenon
      <3>1. new.layers = Append(st.layers, layer) /\ st.layers \in Seq(ToSet(st.layers)) /\ m \in Nat
        BY <3>0 DEF IsServer
      <3>2. /\ DOMAIN new.layers = 1 .. m + 1 /\ DOMAIN st.layers = 1 .. m
            /\ new.layers[m + 1] = layer /\ \A i \in 1 .. m : new.layers[i] = st.layers[i]
        BY <3>1, Appended
      <3>3. DOMAIN new.rows.layers = DOMAIN st.rows.layers \cup {item.name} /\ item.name \notin DOMAIN st.rows.layers
        <4>1. new.rows.layers = WithRow(st.rows.layers, item)
          BY <2>2, <2>5
        <4>2. DOMAIN new.rows.layers = DOMAIN st.rows.layers \cup {item.name}
          <5> HIDE DEF table
          <5>. QED  BY <4>1, RowsWithRow
        <4>3. item.name \notin DOMAIN st.rows.layers
          BY <1>2, <2>5 DEF Taken, Keyed
        <4>. QED  BY <4>2, <4>3
      <3> HIDE DEF m
      <3>4. \A i \in 1 .. m : st.layers[i].name \in DOMAIN st.rows.layers
        BY <3>2 DEF InStep
      <3>5. {new.layers[i].name : i \in 1 .. m + 1} = {st.layers[i].name : i \in 1 .. m} \cup {item.name}
        <4>1. 1 .. m + 1 = 1 .. m \cup {m + 1}
          BY <3>1
        <4>2. \A i \in 1 .. m : new.layers[i].name = st.layers[i].name
          BY <3>2
        <4>3. new.layers[m + 1].name = item.name
          BY <3>2
        <4>. QED  BY <4>1, <4>2, <4>3
      <3>6. ASSUME NEW i \in 1 .. m + 1, NEW j \in 1 .. m + 1, new.layers[i].name = new.layers[j].name
            PROVE  i = j
        <4>1. CASE i \in 1 .. m /\ j \in 1 .. m
          BY <3>2, <3>6, <4>1 DEF InStep
        <4>2. CASE i = m + 1 /\ j \in 1 .. m
          BY <3>2, <3>3, <3>4, <3>6, <4>2
        <4>3. CASE j = m + 1 /\ i \in 1 .. m
          BY <3>2, <3>3, <3>4, <3>6, <4>3
        <4>. QED  BY <3>1, <4>1, <4>2, <4>3
      <3>. QED  BY <2>3, <3>2, <3>3, <3>5, <3>6 DEF InStep
    <2>. QED  BY <2>4, <2>5
  <1>. QED  BY <1>1, <1>2

LEMMA ImportInStep ==
  ASSUME NEW st, IsServer(st), InStep(st), NEW srv, NEW b, ItemsOf(b, srv), NEW new, new = import_backup(st, b)
  PROVE  InStep(new)
  <1>1. b \in Seq(ToSet(b)) /\ Len(b) \in Nat
    BY DEF ItemsOf
  <1>2. PICK after : Imports(after, st, b, Len(b)) /\ new = after[Len(b)]
    BY <1>1, ImportGoes
  <1> DEFINE m == Len(b)
             S == {k \in 0 .. m : IsServer(after[k]) /\ InStep(after[k])}
  <1>3. 0 \in S
    <2>1. after[0] = Reset(st)
      BY <1>2 DEF Imports
    <2>. QED  BY <1>1, <2>1, ResetKeeps DEF InStep
  <1>4. ASSUME NEW k \in 0 .. (m - 1), k \in S PROVE k + 1 \in S
    <2> DEFINE item == b[k + 1]
               was == after[k]
               next == after[k + 1]
    <2>1. next = ImportItem(was, item)
      BY <1>2 DEF Imports
    <2>2. Importable(item)
      BY <1>1, <1>4 DEF ItemsOf, ItemOf
    <2>3. IsServer(was) /\ InStep(was)
      BY <1>4
    <2> HIDE DEF item, was, next
    <2>4. IsServer(next)
      <3>1. Taking(was, item, next)
        BY <2>1, <2>2, <2>3, ItemImported
      <3>. QED  BY <3>1 DEF Taking
    <2>5. InStep(next)
      BY <2>1, <2>2, <2>3, ItemInStep
    <2>. QED  BY <1>4, <2>4, <2>5 DEF next
  <1>5. m \in Nat
    BY <1>1
  <1> HIDE DEF S, m
  <1>6. \A k \in 0 .. m : k \in S
    BY <1>3, <1>4, <1>5, UpTo
  <1>. QED  BY <1>2, <1>5, <1>6 DEF S, m

\* Where the permissions are in a backup: together, in their order.
PermissionsAt(b, permissions, from) ==
  /\ from \in Nat
  /\ permissions \in Seq(ToSet(permissions))
  /\ from + Len(permissions) <= Len(b)
  /\ \A i \in 1 .. Len(b) : b[i].section = "permissions" <=> i \in from + 1 .. from + Len(permissions)
  /\ \A j \in 1 .. Len(permissions) : b[from + j].value = permissions[j]

\* What of n permissions comes with the first k items.
Came(k, from, n) == IF k <= from THEN 0 ELSE IF k <= from + n THEN k - from ELSE n

LEMMA ImportPermits ==
  ASSUME NEW st, IsServer(st), st.permissions = <<>>, NEW srv, NEW b, ItemsOf(b, srv),
         NEW permissions, NEW from, PermissionsAt(b, permissions, from), NEW new, new = import_backup(st, b)
  PROVE  new.permissions = permissions
  <1> DEFINE n == Len(permissions)
             Some(s, c) == Len(s) = c /\ \A j \in 1 .. c : s[j] = permissions[j]
  <1>1. b \in Seq(ToSet(b)) /\ Len(b) \in Nat
    BY DEF ItemsOf
  <1>2. PICK after : Imports(after, st, b, Len(b)) /\ new = after[Len(b)]
    BY <1>1, ImportGoes
  <1> DEFINE m == Len(b)
             S == {k \in 0 .. m : IsServer(after[k]) /\ Some(after[k].permissions, Came(k, from, n))}
  <1>3. n \in Nat /\ from \in Nat /\ from + n <= m /\ m \in Nat
    BY <1>1 DEF PermissionsAt
  <1>4. 0 \in S
    <2>1. after[0] = Reset(st)
      BY <1>2 DEF Imports
    <2>2. IsServer(after[0]) /\ after[0].permissions = <<>>
      BY <2>1, ResetKeeps
    <2>3. Came(0, from, n) = 0
      BY <1>3 DEF Came
    <2>. QED  BY <1>1, <2>2, <2>3
  <1>5. ASSUME NEW k \in 0 .. (m - 1), k \in S PROVE k + 1 \in S
    <2> DEFINE item == b[k + 1]
               last == after[k]
               next == after[k + 1]
               was == last.permissions
               c == Came(k, from, n)
    <2>1. next = ImportItem(last, item)
      <3>1. k + 1 \in 1 .. Len(b) /\ (k + 1) - 1 = k
        BY <1>1, <1>5
      <3>. QED  BY <1>2, <3>1 DEF Imports
    <2>2. /\ Importable(item)
          /\ item.section = "permissions" <=> k + 1 \in from + 1 .. from + n
          /\ k + 1 \in from + 1 .. from + n => item.value = permissions[k + 1 - from]
      <3>1. k + 1 \in 1 .. Len(b)
        BY <1>1, <1>5
      <3>2. k + 1 \in from + 1 .. from + n => k + 1 - from \in 1 .. n /\ from + (k + 1 - from) = k + 1
        BY <1>3, <1>5
      <3>. QED  BY <3>1, <3>2 DEF ItemsOf, ItemOf, PermissionsAt
    <2>3. IsServer(last) /\ Some(was, c)
      BY <1>5
    <2> DEFINE more == Append(was, item.value)
    <2> HIDE DEF item, last, next
    <2>4. /\ IsServer(next)
          /\ item.section = "permissions" => next.permissions = more
          /\ item.section # "permissions" => next.permissions = was
      <3>1. IsServer(last) /\ Importable(item) /\ next = ImportItem(last, item)
        BY <2>1, <2>2, <2>3
      <3>0. Taking(last, item, next)
        BY <3>1, ItemImported
      <3>2. IsServer(next)
        BY <3>0 DEF Taking
      <3>3. item.section = "permissions" => next.permissions = Append(last.permissions, item.value)
        BY ONLY <3>1, ItemPermits, Zenon
      <3>4. item.section # "permissions" => next.permissions = last.permissions
        BY <3>0 DEF Taking
      <3>. QED  BY <3>2, <3>3, <3>4, Zenon
    <2>5. Some(next.permissions, Came(k + 1, from, n))
      <3>1. CASE item.section = "permissions"
        <4>1. c = k - from /\ Came(k + 1, from, n) = c + 1 /\ c \in Nat /\ item.value = permissions[c + 1]
          BY <1>3, <1>5, <2>2, <3>1 DEF Came
        <4>2. was \in Seq(ToSet(was))
          BY <2>3 DEF IsServer
        <4> HIDE DEF c, was
        <4>3. Len(more) = c + 1 /\ more[c + 1] = item.value /\ \A j \in 1 .. c : more[j] = was[j]
          BY <2>3, <4>2, Appended
        <4> HIDE DEF more
        <4>4. \A j \in 1 .. c + 1 : j \in 1 .. c \/ j = c + 1
          BY <4>1
        <4>. QED  BY <2>3, <2>4, <3>1, <4>1, <4>3, <4>4
      <3>2. CASE item.section # "permissions"
        <4>1. Came(k + 1, from, n) = c
          BY <1>3, <1>5, <2>2, <3>2 DEF Came
        <4>. QED  BY <2>3, <2>4, <3>2, <4>1
      <3>. QED  BY <3>1, <3>2
    <2>6. k + 1 \in 0 .. m /\ next = after[k + 1]
      BY <1>3, <1>5 DEF next
    <2>. QED  BY <2>4, <2>5, <2>6
  <1> HIDE DEF S, m
  <1>6. \A k \in 0 .. m : k \in S
    BY <1>3, <1>4, <1>5, UpTo
  <1>7. IsServer(new) /\ Some(new.permissions, Came(m, from, n))
    BY <1>2, <1>3, <1>6 DEF S, m
  <1>8. Came(m, from, n) = n
    BY <1>3 DEF Came
  <1>9. new.permissions \in Seq(ToSet(new.permissions)) /\ permissions \in Seq(ToSet(permissions))
    BY <1>7 DEF IsServer, PermissionsAt
  <1>. QED
    <2>1. Len(new.permissions) = n /\ \A j \in 1 .. n : new.permissions[j] = permissions[j]
      BY <1>7, <1>8
    <2>. QED  BY <1>9, <2>1

-----------------------------------------------------------------------------
\* What a backup is made of.

\* A sequence of items, one for each of the indexes of another.
LEMMA SequenceIs ==
  ASSUME NEW T, NEW s \in Seq(T)
  PROVE  Len(s) \in Nat /\ DOMAIN s = 1 .. Len(s) /\ s = [i \in 1 .. Len(s) |-> s[i]]
  OBVIOUS

LEMMA ItemsFor ==
  ASSUME NEW m \in Nat, NEW items, items = [i \in 1 .. m |-> items[i]]
  PROVE  items \in Seq(ToSet(items)) /\ Len(items) = m
  <1>1. \A i \in 1 .. m : items[i] \in ToSet(items)
    BY DEF ToSet
  <1> DEFINE T == ToSet(items)
  <1> HIDE DEF T
  <1>2. items \in [1 .. m -> T]
    BY <1>1 DEF T
  <1>3. items \in Seq(T) /\ Len(items) = m
    BY <1>2
  <1>. QED  BY <1>3 DEF T

\* The sequence c is a and then b.
Joined(c, a, b) ==
  /\ c \in Seq(ToSet(c)) /\ Len(c) = Len(a) + Len(b)
  /\ \A i \in 1 .. Len(a) : c[i] = a[i]
  /\ \A i \in 1 .. Len(b) : c[Len(a) + i] = b[i]

LEMMA Join ==
  ASSUME NEW a, NEW b, a \in Seq(ToSet(a)), b \in Seq(ToSet(b)), NEW c, c = a \o b
  PROVE  Joined(c, a, b)
  <1> DEFINE T == ToSet(a) \cup ToSet(b)
  <1>1. a \in Seq(T) /\ b \in Seq(T)
    OBVIOUS
  <1> HIDE DEF T
  <1>2. c \in Seq(T) /\ Len(c) = Len(a) + Len(b)
    BY <1>1
  <1>3. /\ \A i \in 1 .. Len(a) : c[i] = a[i]
        /\ \A i \in 1 .. Len(b) : c[Len(a) + i] = b[i]
    BY <1>1
  <1>4. c \in Seq(ToSet(c))
    <2>1. Len(c) \in Nat /\ c = [i \in 1 .. Len(c) |-> c[i]]
      BY <1>2, SequenceIs
    <2>. QED  BY <2>1, ItemsFor
  <1>. QED  BY <1>2, <1>3, <1>4 DEF Joined

AllNamed(c, section, names) == \A n \in names : \E i \in 1 .. Len(c) : c[i].section = section /\ c[i].name = n

NoPermissions(c) == \A i \in 1 .. Len(c) : c[i].section # "permissions"

\* Items with every row of some sections.
Part(c, srv, whole) ==
  ItemsOf(c, srv) /\ \A section \in whole : AllNamed(c, section, DOMAIN srv.rows[section])

LEMMA PartsJoin ==
  ASSUME NEW a, NEW b, NEW srv, NEW u, NEW v, Part(a, srv, u), Part(b, srv, v), NEW c, c = a \o b
  PROVE  Part(c, srv, u \cup v)
  <1>1. /\ a \in Seq(ToSet(a)) /\ b \in Seq(ToSet(b)) /\ Len(a) \in Nat /\ Len(b) \in Nat
        /\ \A i \in 1 .. Len(a) : ItemOf(a[i], srv)
        /\ \A i \in 1 .. Len(b) : ItemOf(b[i], srv)
    BY DEF Part, ItemsOf
  <1>2. Joined(c, a, b)
    BY <1>1, Join
  <1>3. ASSUME NEW i \in 1 .. Len(c) PROVE ItemOf(c[i], srv)
    <2>1. CASE i \in 1 .. Len(a)
      BY <1>1, <1>2, <2>1 DEF Joined
    <2>2. CASE i - Len(a) \in 1 .. Len(b)
      <3>1. c[Len(a) + (i - Len(a))] = b[i - Len(a)] /\ Len(a) + (i - Len(a)) = i
        BY <1>1, <1>2, <2>2 DEF Joined
      <3>. QED  BY <1>1, <2>2, <3>1
    <2>. QED  BY <1>1, <1>2, <2>1, <2>2 DEF Joined
  <1>4. ASSUME NEW section, NEW names, AllNamed(a, section, names) \/ AllNamed(b, section, names)
        PROVE  AllNamed(c, section, names)
    <2> SUFFICES ASSUME NEW n \in names PROVE \E i \in 1 .. Len(c) : c[i].section = section /\ c[i].name = n
      BY DEF AllNamed
    <2>1. CASE AllNamed(a, section, names)
      <3>1. PICK i \in 1 .. Len(a) : a[i].section = section /\ a[i].name = n
        BY <2>1 DEF AllNamed
      <3>2. c[i] = a[i] /\ i \in 1 .. Len(c)
        BY <1>1, <1>2 DEF Joined
      <3>. QED  BY <3>1, <3>2
    <2>2. CASE AllNamed(b, section, names)
      <3>1. PICK i \in 1 .. Len(b) : b[i].section = section /\ b[i].name = n
        BY <2>2 DEF AllNamed
      <3>2. c[Len(a) + i] = b[i] /\ Len(a) + i \in 1 .. Len(c)
        BY <1>1, <1>2 DEF Joined
      <3>. QED  BY <3>1, <3>2
    <2>. QED  BY <1>4, <2>1, <2>2
  <1>5. \A section \in u \cup v : AllNamed(c, section, DOMAIN srv.rows[section])
    BY <1>4 DEF Part
  <1>. QED  BY <1>2, <1>3, <1>5 DEF Part, ItemsOf, Joined

LEMMA NoneJoin ==
  ASSUME NEW a, NEW b, a \in Seq(ToSet(a)), b \in Seq(ToSet(b)), NoPermissions(a), NoPermissions(b),
         NEW c, c = a \o b
  PROVE  NoPermissions(c)
  <1>0. Joined(c, a, b)
    BY Join
  <1>1. Joined(c, a, b) /\ Len(a) \in Nat /\ Len(b) \in Nat
    BY <1>0
  <1>2. ASSUME NEW i \in 1 .. Len(c) PROVE c[i].section # "permissions"
    <2>1. CASE i \in 1 .. Len(a)
      BY <1>1, <2>1 DEF Joined, NoPermissions
    <2>2. CASE i - Len(a) \in 1 .. Len(b)
      <3>1. c[Len(a) + (i - Len(a))] = b[i - Len(a)] /\ Len(a) + (i - Len(a)) = i
        BY <1>1, <2>2 DEF Joined
      <3>. QED  BY <2>2, <3>1 DEF NoPermissions
    <2>. QED  BY <1>1, <2>1, <2>2 DEF Joined
  <1>. QED  BY <1>2 DEF NoPermissions

\* Permissions after other items, and other items after permissions.
LEMMA PermissionsJoin ==
  ASSUME NEW a, NEW b, NEW d, a \in Seq(ToSet(a)), b \in Seq(ToSet(b)), d \in Seq(ToSet(d)),
         NoPermissions(a), NoPermissions(d), NEW permissions, PermissionsAt(b, permissions, 0),
         Len(b) = Len(permissions), NEW c, c = a \o b, NEW e, e = c \o d
  PROVE  PermissionsAt(e, permissions, Len(a))
  <1>1. /\ Joined(c, a, b) /\ c \in Seq(ToSet(c)) /\ Joined(e, c, d)
        /\ Len(a) \in Nat /\ Len(b) \in Nat /\ Len(d) \in Nat
    <2>1. Joined(c, a, b)
      BY Join
    <2>2. c \in Seq(ToSet(c))
      BY <2>1 DEF Joined
    <2>3. Joined(e, c, d)
      BY <2>2, Join
    <2>. QED  BY <2>1, <2>2, <2>3
  <1> DEFINE m == Len(a)
             n == Len(permissions)
             l == Len(d)
  <1>2. /\ m \in Nat /\ n \in Nat /\ l \in Nat /\ Len(c) = m + n /\ Len(e) = m + n + l
        /\ \A i \in 1 .. m : e[i] = a[i]
        /\ \A i \in 1 .. n : e[m + i] = b[i]
        /\ \A i \in 1 .. l : e[m + n + i] = d[i]
    <2>1. /\ m \in Nat /\ n \in Nat /\ l \in Nat /\ Len(c) = m + n /\ Len(e) = m + n + l
      BY <1>1 DEF Joined
    <2>2. ASSUME NEW i \in 1 .. m PROVE e[i] = a[i]
      BY <1>1, <2>1 DEF Joined
    <2>3. ASSUME NEW i \in 1 .. n PROVE e[m + i] = b[i]
      <3>1. m + i \in 1 .. Len(c)
        BY <2>1
      <3>2. e[m + i] = c[m + i]
        BY <1>1, <3>1 DEF Joined
      <3>. QED  BY <1>1, <3>2 DEF Joined
    <2>4. ASSUME NEW i \in 1 .. l PROVE e[m + n + i] = d[i]
      BY <1>1, <2>1 DEF Joined
    <2>. QED  BY <2>1, <2>2, <2>3, <2>4
  <1>3. /\ \A i \in 1 .. m : a[i].section # "permissions"
        /\ \A i \in 1 .. n : b[i].section = "permissions" /\ b[i].value = permissions[i]
        /\ \A i \in 1 .. l : d[i].section # "permissions"
        /\ permissions \in Seq(ToSet(permissions))
    <2>1. \A i \in 1 .. n : b[i].section = "permissions"
      BY <1>2 DEF PermissionsAt
    <2>2. \A i \in 1 .. n : b[0 + i].value = permissions[i] /\ 0 + i = i
      BY <1>2 DEF PermissionsAt
    <2>. QED  BY <2>1, <2>2 DEF PermissionsAt, NoPermissions
  <1> HIDE DEF m, n, l
  <1>4. ASSUME NEW i \in 1 .. Len(e) PROVE e[i].section = "permissions" <=> i \in m + 1 .. m + n
    <2>1. CASE i \in 1 .. m
      BY <1>2, <1>3, <2>1
    <2>2. CASE i - m \in 1 .. n
      <3>1. e[m + (i - m)] = b[i - m] /\ m + (i - m) = i /\ i \in m + 1 .. m + n
        BY <1>2, <2>2
      <3>. QED  BY <1>3, <2>2, <3>1
    <2>3. CASE i - (m + n) \in 1 .. l
      <3>1. e[m + n + (i - (m + n))] = d[i - (m + n)] /\ m + n + (i - (m + n)) = i /\ i \notin m + 1 .. m + n
        BY <1>2, <2>3
      <3>. QED  BY <1>3, <2>3, <3>1
    <2>. QED  BY <1>2, <2>1, <2>2, <2>3
  <1>5. m + n <= Len(e)
    BY <1>2
  <1>6. \A j \in 1 .. n : e[m + j].value = permissions[j]
    BY <1>2, <1>3
  <1>. QED  BY <1>2, <1>3, <1>4, <1>5, <1>6 DEF PermissionsAt, m, n

\* Names that are different, as many as there are, are all of them.
LEMMA ListedOnce ==
  ASSUME NEW S, IsFiniteSet(S), NEW names \in [1 .. Cardinality(S) -> S],
         \A i, j \in 1 .. Cardinality(S) : names[i] = names[j] => i = j
  PROVE  /\ names \in Seq(S) /\ Len(names) = Cardinality(S)
         /\ \A n \in S : \E i \in 1 .. Len(names) : names[i] = n
  <1>. DEFINE m == Cardinality(S)
  <1>1. m \in Nat
    BY FS_CardinalityType
  <1>2. names \in Injection(1 .. m, S)
    BY DEF Injection, IsInjective
  <1>3. IsFiniteSet(1 .. m) /\ Cardinality(1 .. m) = m
    BY <1>1, FS_Interval
  <1>4. names \in Surjection(1 .. m, S)
    BY <1>2, <1>3, FS_Injection
  <1>5. \A n \in S : \E i \in 1 .. m : names[i] = n
    BY <1>4 DEF Surjection
  <1>. HIDE DEF m
  <1>6. names \in Seq(S) /\ Len(names) = m
    BY <1>1 DEF m
  <1>. QED  BY <1>5, <1>6 DEF m

LEMMA ListedAll ==
  ASSUME NEW S, IsFiniteSet(S), NEW names, names = SetToSeq(S)
  PROVE  names \in Seq(S) /\ \A n \in S : \E i \in 1 .. Len(names) : names[i] = n
  <1>. DEFINE m == Cardinality(S)
  <1>1. ExistsBijection(1 .. m, S)
    BY FS_CardinalityType
  <1>2. PICK f : f \in Bijection(1 .. m, S)
    BY <1>1 DEF ExistsBijection
  <1>3. names \in [1 .. m -> S] /\ IsInjective(names)
    <2>1. f \in [1 .. m -> S] /\ IsInjective(f)
      BY <1>2 DEF Bijection, Injection
    <2>. QED  BY <2>1 DEF SetToSeq
  <1>4. \A i, j \in 1 .. m : names[i] = names[j] => i = j
    BY <1>3 DEF IsInjective
  <1>. QED  BY <1>3, <1>4, ListedOnce

LEMMA TablePart ==
  ASSUME NEW srv, NEW section \in Sections, NEW table, DOMAIN table = DOMAIN srv.rows[section],
         IsFiniteSet(DOMAIN table), \A n \in DOMAIN table : table[n] = SavedValue(srv, section, n),
         NEW items, items = TableItems(section, table)
  PROVE  Part(items, srv, {section}) /\ NoPermissions(items)
  <1> DEFINE names == SetToSeq(DOMAIN table)
             m == Len(names)
  <1>1. names \in Seq(DOMAIN table) /\ \A n \in DOMAIN table : \E i \in 1 .. m : names[i] = n
    BY ListedAll
  <1>2. items = [i \in DOMAIN names |-> Item(section, names[i], table[names[i]])]
    BY DEF TableItems
  <1> HIDE DEF names
  <1>3. m \in Nat /\ DOMAIN names = 1 .. m /\ \A i \in 1 .. m : names[i] \in DOMAIN table
    BY <1>1
  <1>4. \A i \in 1 .. m : items[i] = Item(section, names[i], table[names[i]])
    BY <1>2, <1>3
  <1>5. items \in Seq(ToSet(items)) /\ Len(items) = m
    <2>1. items = [i \in 1 .. m |-> items[i]]
      BY <1>2, <1>3
    <2>. QED  BY <1>3, <2>1, ItemsFor
  <1>6. section # "permissions"
    BY DEF Sections, Keyed
  <1> HIDE DEF m
  <1>7. ASSUME NEW i \in 1 .. m PROVE ItemOf(items[i], srv) /\ items[i].section = section /\ items[i].name = names[i]
    <2>1. items[i] = Item(section, names[i], SavedValue(srv, section, names[i]))
      BY <1>3, <1>4
    <2>2. items[i].section = section /\ items[i].name = names[i]
      BY <2>1 DEF Item
    <2>. QED  BY <1>3, <2>1, <2>2 DEF ItemOf, Importable
  <1>8. AllNamed(items, section, DOMAIN srv.rows[section])
    BY <1>1, <1>5, <1>7 DEF AllNamed, m
  <1>. QED  BY <1>5, <1>6, <1>7, <1>8 DEF Part, ItemsOf, NoPermissions

LEMMA GroupsPart ==
  ASSUME NEW srv, srv.groups \in Seq(ToSet(srv.groups)),
         ToSet(srv.groups) = {[name |-> n, layers |-> srv.rows.groups[n].layers,
                               styles |-> srv.rows.groups[n].styles] : n \in DOMAIN srv.rows.groups},
         NEW items,
         items = [i \in DOMAIN srv.groups |->
                    Item("groups", srv.groups[i].name, [layers |-> srv.groups[i].layers])]
  PROVE  Part(items, srv, {"groups"}) /\ NoPermissions(items)
  <1> DEFINE m == Len(srv.groups)
             group(n) == [name |-> n, layers |-> srv.rows.groups[n].layers, styles |-> srv.rows.groups[n].styles]
  <1>1. m \in Nat /\ DOMAIN srv.groups = 1 .. m
    OBVIOUS
  <1>2. \A i \in 1 .. m : \E n \in DOMAIN srv.rows.groups : srv.groups[i] = group(n)
    BY <1>1 DEF ToSet
  <1>3. \A n \in DOMAIN srv.rows.groups : \E i \in 1 .. m : srv.groups[i] = group(n)
    <2>1. \A n \in DOMAIN srv.rows.groups : group(n) \in ToSet(srv.groups)
      OBVIOUS
    <2> HIDE DEF group, m
    <2>. QED  BY <1>1, <2>1 DEF ToSet
  <1>4. items \in Seq(ToSet(items)) /\ Len(items) = m
    <2>1. items = [i \in 1 .. m |-> items[i]]
      BY <1>1
    <2> HIDE DEF m
    <2>. QED  BY <1>1, <2>1, ItemsFor
  <1>5. \A i \in 1 .. m : items[i] = Item("groups", srv.groups[i].name, [layers |-> srv.groups[i].layers])
    BY <1>1
  <1> HIDE DEF m
  <1>6. ASSUME NEW i \in 1 .. m, NEW n \in DOMAIN srv.rows.groups, srv.groups[i] = group(n)
        PROVE  ItemOf(items[i], srv) /\ items[i].section = "groups" /\ items[i].name = n
    <2>1. srv.groups[i].name = n /\ srv.groups[i].layers = srv.rows.groups[n].layers
      BY <1>6
    <2>2. items[i] = Item("groups", n, [layers |-> srv.rows.groups[n].layers])
      BY <1>5, <2>1
    <2>3. SavedValue(srv, "groups", n) = [layers |-> srv.rows.groups[n].layers]
      BY DEF SavedValue
    <2>4. items[i].section = "groups" /\ items[i].name = n
      BY <2>2 DEF Item
    <2>. QED  BY <2>2, <2>3, <2>4 DEF ItemOf, Importable, Sections
  <1> HIDE DEF group
  <1>7. \A i \in 1 .. m : ItemOf(items[i], srv) /\ items[i].section = "groups"
    BY <1>2, <1>6
  <1>8. AllNamed(items, "groups", DOMAIN srv.rows.groups)
    BY <1>3, <1>4, <1>6 DEF AllNamed
  <1>. QED  BY <1>4, <1>7, <1>8 DEF Part, ItemsOf, NoPermissions

LEMMA PermissionsPart ==
  ASSUME NEW srv, srv.permissions \in Seq(ToSet(srv.permissions)), NEW items,
         items = [i \in DOMAIN srv.permissions |-> Item("permissions", "", srv.permissions[i])]
  PROVE  Part(items, srv, {}) /\ PermissionsAt(items, srv.permissions, 0) /\ Len(items) = Len(srv.permissions)
  <1> DEFINE m == Len(srv.permissions)
  <1>1. m \in Nat /\ DOMAIN srv.permissions = 1 .. m
    BY SequenceIs
  <1>2. items \in Seq(ToSet(items)) /\ Len(items) = m
    <2>1. items = [i \in 1 .. m |-> items[i]]
      BY <1>1
    <2> HIDE DEF m
    <2>. QED  BY <1>1, <2>1, ItemsFor
  <1>3. \A i \in 1 .. m : items[i].section = "permissions" /\ items[i].value = srv.permissions[i]
    BY <1>1 DEF Item
  <1>4. \A i \in 1 .. m : ItemOf(items[i], srv)
    BY <1>3 DEF ItemOf, Importable
  <1> HIDE DEF m
  <1>5. 0 + m = m /\ m <= m /\ 0 + 1 = 1 /\ \A j \in 1 .. m : 0 + j = j
    <2>1. m \in Nat
      BY <1>1
    <2>. QED  BY ONLY <2>1
  <1>6. PermissionsAt(items, srv.permissions, 0)
    BY <1>1, <1>2, <1>3, <1>5 DEF PermissionsAt, m
  <1>. QED  BY <1>2, <1>4, <1>6 DEF Part, ItemsOf, m

-----------------------------------------------------------------------------
\* A backup has all rows of all sections, and the permissions in one piece.
LEMMA BackupHolds ==
  ASSUME NEW srv \in Saved, NEW b, b = export_backup(srv)
  PROVE  Part(b, srv, Sections) /\ \E from : PermissionsAt(b, srv.permissions, from)
  <1> DEFINE Of(section) == TableItems(section, srv.rows[section])
             text == [n \in DOMAIN srv.styles |->
                        [title |-> srv.styles[n].title, content |-> srv.styles[n].content,
                         format |-> srv.styles[n].format]]
             workspaces == Of("workspaces")
             sources == Of("sources")
             layers == Of("layers")
             styles == TableItems("styles", text)
             namespaces == Of("namespaces")
             groups == [i \in DOMAIN srv.groups |->
                          Item("groups", srv.groups[i].name, [layers |-> srv.groups[i].layers])]
             views == Of("views")
             permissions == [i \in DOMAIN srv.permissions |-> Item("permissions", "", srv.permissions[i])]
             users == Of("users")
             b2 == workspaces \o sources
             b3 == b2 \o layers
             b4 == b3 \o styles
             b5 == b4 \o namespaces
             b6 == b5 \o groups
             b7 == b6 \o views
             b8 == b7 \o permissions
  <1>1. /\ srv.styles = srv.rows.styles
        /\ srv.permissions \in Seq(ToSet(srv.permissions)) /\ srv.groups \in Seq(ToSet(srv.groups))
        /\ \A section \in Sections : IsFiniteSet(DOMAIN srv.rows[section])
        /\ ToSet(srv.groups) = {[name |-> n, layers |-> srv.rows.groups[n].layers,
                                 styles |-> srv.rows.groups[n].styles] : n \in DOMAIN srv.rows.groups}
    BY BackupAssumption DEF IsServer
  <1>2. ASSUME NEW section \in Keyed
        PROVE  Part(Of(section), srv, {section}) /\ NoPermissions(Of(section))
    <2>1. section \in Sections /\ section # "styles" /\ section # "groups"
      BY DEF Sections, Keyed
    <2>2. \A n \in DOMAIN srv.rows[section] : srv.rows[section][n] = SavedValue(srv, section, n)
      BY <2>1 DEF SavedValue
    <2>3. IsFiniteSet(DOMAIN srv.rows[section])
      BY <1>1, <2>1
    <2>. QED  BY <2>1, <2>2, <2>3, TablePart
  <1>3. Part(styles, srv, {"styles"}) /\ NoPermissions(styles)
    <2>1. DOMAIN text = DOMAIN srv.rows["styles"] /\ "styles" \in Sections
      BY <1>1 DEF Sections
    <2>2. \A n \in DOMAIN text : text[n] = SavedValue(srv, "styles", n)
      BY <1>1 DEF SavedValue
    <2>3. IsFiniteSet(DOMAIN text)
      BY <1>1, <2>1
    <2> HIDE DEF text
    <2>. QED  BY <2>1, <2>2, <2>3, TablePart
  <1>4. Part(groups, srv, {"groups"}) /\ NoPermissions(groups)
    <2> HIDE DEF groups
    <2>1. groups = [i \in DOMAIN srv.groups |->
                      Item("groups", srv.groups[i].name, [layers |-> srv.groups[i].layers])]
      BY DEF groups
    <2>. QED  BY <1>1, <2>1, GroupsPart
  <1>5. /\ Part(permissions, srv, {}) /\ PermissionsAt(permissions, srv.permissions, 0)
        /\ Len(permissions) = Len(srv.permissions)
    <2> HIDE DEF permissions
    <2>1. permissions = [i \in DOMAIN srv.permissions |-> Item("permissions", "", srv.permissions[i])]
      BY DEF permissions
    <2>. QED  BY <1>1, <2>1, PermissionsPart
  <1>6. b = b8 \o users
    BY DEF export_backup
  <1>7. /\ Part(workspaces, srv, {"workspaces"}) /\ NoPermissions(workspaces)
        /\ Part(sources, srv, {"sources"}) /\ NoPermissions(sources)
        /\ Part(layers, srv, {"layers"}) /\ NoPermissions(layers)
        /\ Part(namespaces, srv, {"namespaces"}) /\ NoPermissions(namespaces)
        /\ Part(views, srv, {"views"}) /\ NoPermissions(views)
        /\ Part(users, srv, {"users"}) /\ NoPermissions(users)
    <2> HIDE DEF Of
    <2>. QED  BY <1>2 DEF Keyed
  <1> HIDE DEF Of, text, workspaces, sources, layers, styles, namespaces, groups, views, permissions, users
  <1>8. ASSUME NEW a, NEW u, NEW c, NEW v, Part(a, srv, u), NoPermissions(a), Part(c, srv, v), NoPermissions(c)
        PROVE  Part(a \o c, srv, u \cup v) /\ NoPermissions(a \o c)
    <2>1. a \in Seq(ToSet(a)) /\ c \in Seq(ToSet(c))
      BY <1>8 DEF Part, ItemsOf
    <2>. QED  BY <1>8, <2>1, PartsJoin, NoneJoin
  <1>9. Part(b7, srv, {"workspaces"} \cup {"sources"} \cup {"layers"} \cup {"styles"} \cup {"namespaces"}
                        \cup {"groups"} \cup {"views"}) /\ NoPermissions(b7)
    <2>2. Part(b2, srv, {"workspaces"} \cup {"sources"}) /\ NoPermissions(b2)
      BY ONLY <1>7, <1>8
    <2> HIDE DEF b2
    <2>3. Part(b3, srv, {"workspaces"} \cup {"sources"} \cup {"layers"}) /\ NoPermissions(b3)
      BY ONLY <1>7, <1>8, <2>2
    <2> HIDE DEF b3
    <2>4. Part(b4, srv, {"workspaces"} \cup {"sources"} \cup {"layers"} \cup {"styles"}) /\ NoPermissions(b4)
      BY ONLY <1>3, <1>8, <2>3
    <2> HIDE DEF b4
    <2>5. Part(b5, srv, {"workspaces"} \cup {"sources"} \cup {"layers"} \cup {"styles"} \cup {"namespaces"})
          /\ NoPermissions(b5)
      BY ONLY <1>7, <1>8, <2>4
    <2> HIDE DEF b5
    <2>6. Part(b6, srv, {"workspaces"} \cup {"sources"} \cup {"layers"} \cup {"styles"} \cup {"namespaces"}
                          \cup {"groups"}) /\ NoPermissions(b6)
      BY ONLY <1>4, <1>8, <2>5
    <2> HIDE DEF b6
    <2>. QED  BY ONLY <1>7, <1>8, <2>6
  <1> HIDE DEF b7
  <1>10. Part(b, srv, Sections)
    <2> DEFINE most == {"workspaces"} \cup {"sources"} \cup {"layers"} \cup {"styles"} \cup {"namespaces"}
                          \cup {"groups"} \cup {"views"}
    <2>1. Sections = (most \cup {}) \cup {"users"}
      BY DEF Sections, Keyed
    <2>2. Part(b7, srv, most)
      BY <1>9
    <2> HIDE DEF most
    <2>3. Part(b8, srv, most \cup {})
      BY <1>5, <2>2, PartsJoin
    <2> HIDE DEF b8
    <2>4. Part(b, srv, (most \cup {}) \cup {"users"})
      BY <1>6, <1>7, <2>3, PartsJoin
    <2>. QED  BY <2>1, <2>4
  <1>11. PermissionsAt(b, srv.permissions, Len(b7))
    <2>1. b7 \in Seq(ToSet(b7)) /\ permissions \in Seq(ToSet(permissions)) /\ users \in Seq(ToSet(users))
      BY <1>5, <1>7, <1>9 DEF Part, ItemsOf
    <2>. QED  BY <1>5, <1>6, <1>7, <1>9, <2>1, PermissionsJoin
  <1>. QED  BY <1>10, <1>11

-----------------------------------------------------------------------------
\* What a server without rows has after a backup: every row, as it is restored.
RowsOf(srv) == [section \in Sections |-> [n \in DOMAIN srv.rows[section] |-> Restored(srv, section, n)]]

NoRows == [section \in Sections |-> <<>>]

LEMMA NothingThere ==
  /\ IsServer(EmptyServer) /\ InStep(EmptyServer)
  /\ EmptyServer.rows = NoRows /\ EmptyServer.permissions = <<>>
  /\ \A section \in Sections : NoRows[section] = <<>> /\ DOMAIN NoRows[section] = {}
  <1> DEFINE none == <<>>
             rows == [section \in Sections |-> none]
             nothing == [rows |-> rows, permissions |-> none, layers |-> none, styles |-> none,
                         groups |-> none, report |-> [done |-> 0, refused |-> 0]]
  <1>1. DOMAIN none = {} /\ none = [n \in DOMAIN none |-> none[n]] /\ none \in Seq(ToSet(none))
    <2>1. none \in Seq({}) /\ Len(none) = 0
      OBVIOUS
    <2>2. DOMAIN none = 1 .. 0 /\ none = [i \in 1 .. 0 |-> none[i]]
      BY <2>1, SequenceIs
    <2>3. none \in Seq(ToSet(none))
      BY <2>2, ItemsFor
    <2>. QED  BY <2>2, <2>3
  <1>2. EmptyServer = nothing /\ NoRows = rows /\ none = <<>>
    BY DEF EmptyServer, NoRows
  <1> HIDE DEF none
  <1>3. \A section \in Sections : rows[section] = none
    OBVIOUS
  <1>4. IsServer(nothing)
    <2>1. \A section \in Sections : IsTable(rows[section])
      BY <1>1 DEF IsTable
    <2>. QED  BY <1>1, <2>1 DEF IsServer
  <1>5. InStep(nothing)
    <2>1. nothing.rows.layers = none /\ nothing.layers = none /\ nothing.styles = nothing.rows.styles
      BY DEF Sections, Keyed
    <2>. QED  BY <1>1, <2>1 DEF InStep
  <1>6. nothing.rows = rows /\ nothing.permissions = none
    OBVIOUS
  <1> HIDE DEF rows, nothing
  <1>. QED  BY <1>1, <1>2, <1>3, <1>4, <1>5, <1>6

LEMMA RowsRestored ==
  ASSUME NEW srv, NEW st, IsServer(st), Follows(st.rows, NoRows, srv, Sections), NEW b, Part(b, srv, Sections),
         Through(st, b, Len(b), Sections)
  PROVE  st.rows = RowsOf(srv)
  <1>1. ASSUME NEW section \in Sections
        PROVE  st.rows[section] = [n \in DOMAIN srv.rows[section] |-> Restored(srv, section, n)]
    <2>1. ASSUME NEW n \in DOMAIN st.rows[section]
          PROVE  n \in DOMAIN srv.rows[section] /\ st.rows[section][n] = Restored(srv, section, n)
      BY NothingThere DEF Follows
    <2>2. ASSUME NEW n \in DOMAIN srv.rows[section] PROVE n \in DOMAIN st.rows[section]
      <3>1. PICK i \in 1 .. Len(b) : b[i].section = section /\ b[i].name = n
        BY DEF Part, AllNamed
      <3>. QED  BY <3>1 DEF Through
    <2>3. DOMAIN st.rows[section] = DOMAIN srv.rows[section]
      BY <2>1, <2>2
    <2>4. st.rows[section] = [n \in DOMAIN st.rows[section] |-> st.rows[section][n]]
      BY DEF IsServer, IsTable
    <2>. QED  BY <2>1, <2>3, <2>4
  <1>2. st.rows = [section \in Sections |-> st.rows[section]]
    BY DEF IsServer
  <1>. QED  BY <1>1, <1>2 DEF RowsOf

\* Every backup comes to all rows on a server that has only some of them.
LEMMA ImportRestores ==
  ASSUME NEW srv \in Saved, NEW b, b = export_backup(srv), NEW st, IsServer(st),
         Follows(st.rows, NoRows, srv, Sections), NEW new, new = import_backup(st, b)
  PROVE  IsServer(new) /\ new.rows = RowsOf(srv)
  <1>1. Part(b, srv, Sections) /\ ItemsOf(b, srv)
    BY BackupHolds DEF Part
  <1>2. IsServer(new) /\ Follows(new.rows, NoRows, srv, Sections) /\ Through(new, b, Len(b), Sections)
    BY <1>1, ImportFollows
  <1>. QED  BY <1>1, <1>2, RowsRestored

LEMMA NothingFollows ==
  ASSUME NEW srv
  PROVE  Follows(NoRows, NoRows, srv, Sections)
  BY NothingThere DEF Follows

LEMMA StartOfBackup ==
  ASSUME NEW srv, NEW b, ItemsOf(b, srv), NEW k \in 0 .. Len(b), NEW c, c = SubSeq(b, 1, k)
  PROVE  ItemsOf(c, srv)
  <1>1. Len(b) \in Nat /\ b \in Seq(ToSet(b)) /\ \A i \in 1 .. Len(b) : ItemOf(b[i], srv)
    BY SequenceIs DEF ItemsOf
  <1>2. Len(c) = k /\ c \in Seq(ToSet(b)) /\ \A i \in 1 .. k : c[i] = b[i]
    BY <1>1
  <1>3. c \in Seq(ToSet(c))
    <2>1. c = [i \in 1 .. k |-> c[i]] /\ k \in Nat
      BY <1>2, SequenceIs
    <2>. QED  BY <2>1, ItemsFor
  <1>. QED  BY <1>1, <1>2, <1>3 DEF ItemsOf

\* A configuration of which a backup loses nothing is restored as it was.
LEMMA PortableRestored ==
  ASSUME NEW srv \in Saved, Portable(srv)
  PROVE  RowsOf(srv) = srv.rows
  <1>1. ASSUME NEW section \in Sections, NEW n \in DOMAIN srv.rows[section]
        PROVE  Restored(srv, section, n) = srv.rows[section][n]
    <2> DEFINE row == srv.rows[section][n]
               item == Item(section, n, SavedValue(srv, section, n))
    <2>1. item.section = section /\ item.value = SavedValue(srv, section, n)
      BY DEF Item
    <2>2. IsConfiguration(srv.rows)
      BY BackupAssumption
    <2>3. CASE section = "workspaces"
      <3>1. row = [row EXCEPT !.enabled = row.enabled] /\ row.enabled \in BOOLEAN /\ row.enabled
        BY <2>2, <2>3 DEF IsConfiguration, Portable
      <3>2. row.enabled = TRUE
        BY <3>1
      <3>3. Stored(item) = [row EXCEPT !.enabled = TRUE]
        BY <2>1, <2>3 DEF Stored, SavedValue
      <3> HIDE DEF row, item
      <3>4. row = [row EXCEPT !.enabled = TRUE]
        BY <3>1, <3>2
      <3>. QED  BY <3>3, <3>4 DEF Restored, row, item
    <2>4. CASE section = "sources"
      <3>1. row = [row EXCEPT !.type = row.type] /\ row.type \in KnownTypes
        BY <2>2, <2>4 DEF IsConfiguration, Portable
      <3>2. Stored(item) = [row EXCEPT !.type = IF row.type \in KnownTypes THEN row.type ELSE "postgis"]
        BY <2>1, <2>4 DEF Stored, SavedValue
      <3>. QED  BY <3>1, <3>2 DEF Restored
    <2>5. CASE section = "styles"
      <3>1. /\ row = [title |-> row.title, content |-> row.content, builtin |-> row.builtin, format |-> row.format]
            /\ row.builtin \in BOOLEAN /\ ~row.builtin
            /\ row.format = "SLD" => row.content.looks = "SLD"
        BY <2>2, <2>5 DEF IsConfiguration, Portable
      <3>2. row.builtin = FALSE
        BY <3>1
      <3>3. SavedValue(srv, section, n) = [title |-> row.title, content |-> row.content, format |-> row.format]
        BY <2>5 DEF SavedValue
      <3>4. Stored(item) = [title |-> row.title, content |-> row.content, builtin |-> FALSE,
                            format |-> IF row.format = "SLD" THEN row.content.looks ELSE row.format]
        <4> DEFINE value == item.value
        <4>1. /\ item.section = "styles" /\ value.title = row.title /\ value.content = row.content
              /\ value.format = row.format
          BY <2>1, <2>5, <3>3
        <4> HIDE DEF item, row
        <4>. QED  BY <4>1 DEF Stored
      <3>. QED  BY <3>1, <3>2, <3>4 DEF Restored
    <2>6. CASE section = "groups"
      <3>1. row = [layers |-> row.layers, styles |-> row.styles] /\ row.styles = <<>>
        BY <2>2, <2>6 DEF IsConfiguration, Portable
      <3>2. SavedValue(srv, section, n) = [layers |-> row.layers]
        BY <2>6 DEF SavedValue
      <3>3. Stored(item) = [layers |-> row.layers, styles |-> <<>>]
        BY <2>1, <2>6, <3>2 DEF Stored
      <3>. QED  BY <3>1, <3>3 DEF Restored
    <2>7. CASE section \notin {"workspaces", "sources", "styles", "groups"}
      BY <2>1, <2>7 DEF Restored, Stored, SavedValue
    <2>. QED  BY <2>3, <2>4, <2>5, <2>6, <2>7
  <1>2. IsServer(srv)
    BY BackupAssumption
  <1>3. /\ srv.rows = [section \in Sections |-> srv.rows[section]]
        /\ \A section \in Sections : srv.rows[section] = [n \in DOMAIN srv.rows[section] |-> srv.rows[section][n]]
    BY <1>2 DEF IsServer, IsTable
  <1>4. \A section \in Sections :
           [n \in DOMAIN srv.rows[section] |-> Restored(srv, section, n)] = srv.rows[section]
    BY <1>1, <1>3
  <1>. QED  BY <1>3, <1>4 DEF RowsOf

\* On a server that has rows of its own the keyed tables keep them and get the rest.
LEMMA ImportOnto ==
  ASSUME NEW srv \in Saved, NEW b, b = export_backup(srv), NEW other \in Others, NEW new, new = import_backup(other, b)
  PROVE  /\ Counted(new, b)
         /\ \A section \in Keyed :
               LET old == other.rows[section]
                   rest == RowsOf(srv)[section]
               IN  new.rows[section] = [n \in DOMAIN old \cup DOMAIN rest |->
                                          IF n \in DOMAIN old THEN old[n] ELSE rest[n]]
  <1>1. Part(b, srv, Sections) /\ ItemsOf(b, srv) /\ IsServer(other) /\ Keyed \subseteq Sections
    BY BackupHolds, BackupAssumption DEF Part, Sections
  <1>2. Follows(other.rows, other.rows, srv, Keyed)
    BY DEF Follows
  <1>3. IsServer(new) /\ Follows(new.rows, other.rows, srv, Keyed) /\ Through(new, b, Len(b), Keyed)
    <2> HIDE DEF Keyed, Sections
    <2>. QED  BY <1>1, <1>2, ImportFollows
  <1>0. Counted(new, b)
    <2> HIDE DEF Keyed, Sections
    <2>. QED  BY <1>1, <1>2, ImportFollows
  <1>4. ASSUME NEW section \in Keyed, NEW old, old = other.rows[section], NEW rest, rest = RowsOf(srv)[section]
        PROVE  new.rows[section] = [n \in DOMAIN old \cup DOMAIN rest |->
                                      IF n \in DOMAIN old THEN old[n] ELSE rest[n]]
    <2> DEFINE table == new.rows[section]
    <2>1. DOMAIN rest = DOMAIN srv.rows[section] /\ \A n \in DOMAIN rest : rest[n] = Restored(srv, section, n)
      BY <1>1, <1>4 DEF RowsOf
    <2>2. /\ DOMAIN old \subseteq DOMAIN table
          /\ \A n \in DOMAIN table :
                IF n \in DOMAIN old THEN table[n] = old[n]
                ELSE n \in DOMAIN rest /\ table[n] = rest[n]
      BY <1>3, <1>4, <2>1 DEF Follows
    <2>3. ASSUME NEW n \in DOMAIN rest PROVE n \in DOMAIN table
      <3>1. PICK i \in 1 .. Len(b) : b[i].section = section /\ b[i].name = n
        BY <1>1, <2>1 DEF Part, AllNamed
      <3>. QED  BY <1>3, <3>1 DEF Through
    <2>4. table = [n \in DOMAIN table |-> table[n]]
      BY <1>1, <1>3 DEF IsServer, IsTable
    <2> HIDE DEF table
    <2>5. DOMAIN table = DOMAIN old \cup DOMAIN rest
      BY <2>2, <2>3
    <2>. QED  BY <2>2, <2>4, <2>5 DEF table
  <1>5. \A section \in Keyed :
           LET old == other.rows[section]
               rest == RowsOf(srv)[section]
           IN  new.rows[section] = [n \in DOMAIN old \cup DOMAIN rest |->
                                      IF n \in DOMAIN old THEN old[n] ELSE rest[n]]
    <2> SUFFICES ASSUME NEW section \in Keyed
                 PROVE  LET old == other.rows[section]
                            rest == RowsOf(srv)[section]
                        IN  new.rows[section] = [n \in DOMAIN old \cup DOMAIN rest |->
                                                   IF n \in DOMAIN old THEN old[n] ELSE rest[n]]
      OBVIOUS
    <2> DEFINE old == other.rows[section]
               rest == RowsOf(srv)[section]
    <2>1. old = other.rows[section] /\ rest = RowsOf(srv)[section]
      OBVIOUS
    <2> HIDE DEF old, rest
    <2>2. new.rows[section] = [n \in DOMAIN old \cup DOMAIN rest |-> IF n \in DOMAIN old THEN old[n] ELSE rest[n]]
      BY <1>4, <2>1
    <2>. QED  BY <2>2 DEF old, rest
  <1>. QED  BY <1>0, <1>5

BackupInv == question.about = "backup" => question.input.saved \in Saved /\ question.input.other \in Others

\* Any backup of these servers, on any of those.
LEMMA AnyBackup ==
  ASSUME BackupInv
  PROVE  RestoredAsSaved
  <1> SUFFICES ASSUME question.about = "backup" PROVE RestoredAsSaved
    BY DEF RestoredAsSaved
  <1> DEFINE srv == question.input.saved
             other == question.input.other
             b == export_backup(srv)
             fresh == import_backup(EmptyServer, b)
             onto == import_backup(other, b)
  <1>1. srv \in Saved /\ other \in Others
    BY DEF BackupInv
  <1>2. Part(b, srv, Sections) /\ ItemsOf(b, srv) /\ \E from : PermissionsAt(b, srv.permissions, from)
    <2> HIDE DEF srv
    <2>1. Part(b, srv, Sections) /\ \E from : PermissionsAt(b, srv.permissions, from)
      BY <1>1, BackupHolds
    <2>. QED  BY <2>1 DEF Part
  <1> HIDE DEF srv, other
  <1>3. IsServer(fresh) /\ fresh.rows = RowsOf(srv)
    <2>1. Follows(EmptyServer.rows, NoRows, srv, Sections) /\ IsServer(EmptyServer)
      BY NothingThere, NothingFollows
    <2>. QED  BY <1>1, <2>1, ImportRestores
  <1>4. \A section \in Sections : DOMAIN fresh.rows[section] = DOMAIN srv.rows[section]
    BY <1>3 DEF RowsOf
  <1>5. Portable(srv) => fresh.rows = srv.rows
    BY <1>1, <1>3, PortableRestored
  <1>6. fresh.permissions = srv.permissions
    <2> HIDE DEF b
    <2>1. PICK from : PermissionsAt(b, srv.permissions, from)
      BY <1>2
    <2>. QED  BY <1>2, <2>1, NothingThere, ImportPermits
  <1>7. InStep(fresh)
    BY <1>2, NothingThere, ImportInStep
  <1>8. /\ Counted(onto, b)
        /\ \A section \in Keyed :
              LET old == other.rows[section]
                  new == fresh.rows[section]
              IN  onto.rows[section] = [n \in DOMAIN old \cup DOMAIN new |->
                                           IF n \in DOMAIN old THEN old[n] ELSE new[n]]
    BY <1>1, <1>3, ImportOnto
  <1>9. ASSUME NEW k \in 0 .. Len(b)
        PROVE  import_backup(import_backup(EmptyServer, SubSeq(b, 1, k)), b).rows = fresh.rows
    <2> DEFINE start == SubSeq(b, 1, k)
               part == import_backup(EmptyServer, start)
               again == import_backup(part, b)
    <2>1. ItemsOf(start, srv)
      BY <1>2, StartOfBackup
    <2>2. Follows(EmptyServer.rows, NoRows, srv, Sections) /\ IsServer(EmptyServer)
      BY NothingThere, NothingFollows
    <2> HIDE DEF start
    <2>3. IsServer(part) /\ Follows(part.rows, NoRows, srv, Sections)
      BY <2>1, <2>2, ImportFollows
    <2> HIDE DEF part
    <2>4. again.rows = RowsOf(srv)
      BY <1>1, <2>3, ImportRestores
    <2>. QED  BY <1>3, <2>4 DEF part, start
  <1>. QED  BY <1>4, <1>5, <1>6, <1>7, <1>8, <1>9 DEF RestoredAsSaved, Counted, srv, other

\* Whatever is saved, wherever it is restored: every name of every section, the rows
\* as they were if a backup can hold them, beside what was there, and by an import
\* that was cut off and is run again too.
THEOREM ProvedSpecRestoredAsSaved == ProvedSpec => []RestoredAsSaved
  <1>1. Unasked => BackupInv
    BY DEF Unasked, BackupInv
  <1>2. BackupInv /\ [ProvedNext]_question => BackupInv'
    <2>. SUFFICES ASSUME BackupInv, [ProvedNext]_question PROVE BackupInv'
      OBVIOUS
    <2>1. CASE AskBackup
      BY <2>1 DEF AskBackup, Asks, BackupInv
    <2>2. CASE question' = question
      BY <2>2 DEF BackupInv
    <2>3. CASE question'.about # "backup"
      BY <2>3 DEF BackupInv
    <2>. QED  BY <2>1, <2>2, <2>3, WhatIsAsked
  <1>3. BackupInv => RestoredAsSaved
    BY AnyBackup
  <1>. QED  BY <1>1, <1>2, <1>3, PTL DEF ProvedSpec

-----------------------------------------------------------------------------
(***************************************************************************)
(* The files: what is offered opens (OfferedOpens), for any files on disk  *)
(* and in a bucket, and any connection to them. On disk the directory of a *)
(* file is what a reader sees; of a bucket it is given what begins like    *)
(* the key, put into one directory, where the file is still the only one   *)
(* of its name if the name is proper (FileGiven).                          *)

\* A name in no blanks is not changed by trimming it.
LEMMA NamesTrimmed ==
  /\ Disk!Trimmed(<<>>) = <<>>
  /\ \A name : IsName(name) /\ ~Contains(name.stem, " ") => Disk!Trimmed(<<name>>) = <<name>>
  <1>1. Disk!Trimmed(<<>>) = <<>>
    BY DEF Disk!Trimmed
  <1>2. ASSUME NEW name, IsName(name), ~Contains(name.stem, " ") PROVE Disk!Trimmed(<<name>>) = <<name>>
    <2> DEFINE stem == name.stem
               I == {i \in DOMAIN stem : stem[i] # " "}
    <2>1. stem \in Seq(ToSet(stem)) /\ stem # <<>> /\ name = [stem |-> stem, ext |-> name.ext]
      BY <1>2 DEF IsName
    <2>2. Len(stem) \in Nat \ {0} /\ SubSeq(stem, 1, Len(stem)) = stem /\ DOMAIN stem = 1 .. Len(stem)
      BY <2>1
    <2>3. \A i \in 1 .. Len(stem) : stem[i] # " "
      BY <1>2 DEF Contains
    <2>4. I = 1 .. Len(stem)
      BY <2>2, <2>3
    <2> HIDE DEF I
    <2>5. Disk!Min(I) = 1
      <3>1. \A x : x \in I /\ (\A y \in I : x =< y) <=> x = 1
        BY <2>2, <2>4
      <3>. QED  BY <3>1, <2>4, <2>2 DEF Disk!Min
    <2>6. [name EXCEPT !.stem = SubSeq(stem, 1, Len(stem))] = name
      BY <2>1, <2>2
    <2>7. Len(<<name>>) = 1 /\ <<name>>[1] = name
      OBVIOUS
    <2>8. I # {}
      BY <2>2, <2>4
    <2>. QED  BY <2>5, <2>6, <2>7, <2>8, Zenon DEF Disk!Trimmed, I
  <1>. QED  BY <1>1, <1>2

\* What is right below a directory is known by its name.
LEMMA RightBelow ==
  ASSUME NEW dir, NEW f, dir \in Seq(ToSet(dir)), f \in Seq(ToSet(f))
  PROVE  (Len(f) = Len(dir) + 1 /\ IsPrefix(dir, f)) <=> (f # <<>> /\ f = Append(dir, Last(f)))
  <1> DEFINE S == ToSet(dir) \cup ToSet(f)
  <1>0. dir \in Seq(S) /\ f \in Seq(S)
    OBVIOUS
  <1> HIDE DEF S
  <1>1. CASE Len(f) = Len(dir) + 1 /\ IsPrefix(dir, f)
    <2>1. Len(f) \in Nat \ {0} /\ Len(f) = Len(dir) + 1 /\ Last(f) = f[Len(dir) + 1] /\ Last(f) \in S
      BY <1>0, <1>1 DEF Last
    <2>2. ASSUME NEW i \in 1 .. Len(dir) PROVE f[i] = dir[i]
      <3>1. SubSeq(dir, 1, Len(dir))[i] = dir[i] /\ SubSeq(f, 1, Len(dir))[i] = f[i]
        BY <1>0, <1>1
      <3>. QED  BY <1>1, <3>1 DEF IsPrefix
    <2>3. Append(dir, Last(f)) \in Seq(S) /\ Len(Append(dir, Last(f))) = Len(f)
      BY <1>0, <2>1
    <2>4. \A i \in 1 .. Len(f) : f[i] = Append(dir, Last(f))[i]
      BY <1>0, <2>1, <2>2
    <2>5. f = Append(dir, Last(f))
      BY <1>0, <2>1, <2>3, <2>4
    <2>6. f # <<>>
      BY <2>1
    <2>. QED  BY <1>1, <2>5, <2>6
  <1>2. CASE f # <<>> /\ f = Append(dir, Last(f))
    <2>0. Last(f) \in S
      BY <1>0, <1>2 DEF Last
    <2>1. Len(f) = Len(dir) + 1
      BY <1>0, <1>2, <2>0
    <2>2. \A i \in 1 .. Len(dir) : f[i] = dir[i]
      BY <1>0, <1>2, <2>0
    <2>3. SubSeq(dir, 1, Len(dir)) = SubSeq(f, 1, Len(dir))
      BY <1>0, <2>1, <2>2
    <2>. QED  BY <1>0, <2>1, <2>3, <1>2 DEF IsPrefix
  <1>. QED  BY <1>1, <1>2

\* A path is a directory and a name in it.
LEMMA FrontAndLast ==
  /\ \A f : f \in Seq(ToSet(f)) /\ f # <<>> =>
       /\ Front(f) \in Seq(ToSet(Front(f))) /\ f = Append(Front(f), Last(f)) /\ Len(f) = Len(Front(f)) + 1
       /\ Front(f) # f /\ Len(f) \in Nat /\ Last(f) = f[Len(f)] /\ Last(f) \in ToSet(f)
  /\ \A dir, x : dir \in Seq(ToSet(dir)) =>
       /\ Front(Append(dir, x)) = dir /\ Last(Append(dir, x)) = x /\ Append(dir, x) # <<>>
       /\ dir \o <<x>> = Append(dir, x) /\ Append(dir, x) \in Seq(ToSet(Append(dir, x)))
       /\ Len(Append(dir, x)) = Len(dir) + 1
  <1>1. ASSUME NEW f, f \in Seq(ToSet(f)), f # <<>>
        PROVE  /\ Front(f) \in Seq(ToSet(Front(f))) /\ f = Append(Front(f), Last(f)) /\ Len(f) = Len(Front(f)) + 1
               /\ Front(f) # f /\ Len(f) \in Nat /\ Last(f) = f[Len(f)] /\ Last(f) \in ToSet(f)
    <2>1. Len(f) \in Nat \ {0} /\ Last(f) = f[Len(f)] /\ Last(f) \in ToSet(f)
      BY <1>1 DEF Last
    <2>2. Front(f) \in Seq(ToSet(f)) /\ Len(Front(f)) = Len(f) - 1 /\ \A i \in 1 .. Len(f) - 1 : Front(f)[i] = f[i]
      <3> DEFINE m == Len(f) - 1
      <3>1. m \in Nat /\ m + 1 = Len(f)
        BY <2>1
      <3> HIDE DEF m
      <3>2. ASSUME NEW S, f \in Seq(S)
            PROVE  /\ SubSeq(f, 1, m) \in Seq(S) /\ Len(SubSeq(f, 1, m)) = m
                   /\ \A i \in 1 .. m : SubSeq(f, 1, m)[i] = f[i]
        <4>1. \A i \in 1 .. m : f[i] \in S
          BY <3>1, <3>2
        <4>. QED  BY <3>1, <3>2, <4>1
      <3>3. Front(f) = SubSeq(f, 1, m)
        BY DEF Front, m
      <3>4. m = Len(f) - 1
        BY DEF m
      <3>. QED  BY <1>1, <3>2, <3>3, <3>4, Zenon
    <2>3. Front(f) \in Seq(ToSet(Front(f)))
      BY <2>2 DEF ToSet
    <2>4. f = Append(Front(f), Last(f))
      <3>1. Append(Front(f), Last(f)) \in Seq(ToSet(f)) /\ Len(Append(Front(f), Last(f))) = Len(f)
        BY <2>1, <2>2
      <3>2. \A i \in 1 .. Len(f) : f[i] = Append(Front(f), Last(f))[i]
        BY <2>1, <2>2
      <3>. QED  BY <1>1, <3>1, <3>2
    <2>. QED  BY <2>1, <2>2, <2>3, <2>4
  <1>2. ASSUME NEW dir, NEW x, dir \in Seq(ToSet(dir))
        PROVE  /\ Front(Append(dir, x)) = dir /\ Last(Append(dir, x)) = x /\ Append(dir, x) # <<>>
               /\ dir \o <<x>> = Append(dir, x) /\ Append(dir, x) \in Seq(ToSet(Append(dir, x)))
               /\ Len(Append(dir, x)) = Len(dir) + 1
    <2> DEFINE S == ToSet(dir) \cup {x}
               f == Append(dir, x)
    <2>1. dir \in Seq(S) /\ x \in S
      BY <1>2
    <2> HIDE DEF S
    <2>2. f \in Seq(S) /\ Len(f) = Len(dir) + 1 /\ f[Len(f)] = x /\ f # <<>> /\ \A i \in 1 .. Len(dir) : f[i] = dir[i]
      BY <2>1
    <2>3. f \in Seq(ToSet(f))
      BY <2>2 DEF ToSet
    <2>4. Front(f) = dir
      <3>1. Front(f) \in Seq(S) /\ Len(Front(f)) = Len(dir) /\ \A i \in 1 .. Len(dir) : Front(f)[i] = dir[i]
        BY <2>1, <2>2 DEF Front
      <3>. QED  BY <2>1, <3>1
    <2>5. dir \o <<x>> = f
      <3>1. dir \o <<x>> \in Seq(S) /\ Len(dir \o <<x>>) = Len(dir) + 1 /\ (dir \o <<x>>)[Len(dir) + 1] = x
            /\ \A i \in 1 .. Len(dir) : (dir \o <<x>>)[i] = dir[i]
        BY <2>1
      <3>. QED  BY <2>1, <2>2, <3>1
    <2>6. Last(f) = x
      BY <2>2 DEF Last
    <2>. QED  BY <2>2, <2>3, <2>4, <2>5, <2>6
  <1>. QED  BY <1>1, <1>2

\* The operators on sequences are those of LayerFiles.
LEMMA SameWords ==
  /\ \A f, g : Disk!IsPrefix(f, g) <=> IsPrefix(f, g)
  /\ \A f, g : Disk!IsStrictPrefix(f, g) <=> IsStrictPrefix(f, g)
  /\ \A f : Disk!Last(f) = Last(f) /\ Disk!Front(f) = Front(f) /\ Disk!ToSet(f) = ToSet(f)
  /\ \A f, x : Disk!Contains(f, x) <=> Contains(f, x)
  BY DEF Disk!IsPrefix, IsPrefix, Disk!IsStrictPrefix, IsStrictPrefix, Disk!Last, Last, Disk!Front, Front,
         Disk!ToSet, ToSet, Disk!Contains, Contains

\* What may be there, for a source.
There(s) == Disk!FilesOf(s.w, s.ds.conn)

\* All that is there has names, and nothing is below a file.
LEMMA ThereFits ==
  ASSUME NEW s \in FileSources
  PROVE  /\ IsConnection(s.ds.conn)
         /\ \A f \in There(s) : /\ f # <<>> /\ f \in Seq(ToSet(f)) /\ AreNames(s.w.tables[f])
                                /\ \A name \in ToSet(f) : IsName(name)
         /\ FromDisk(s) => There(s) = s.w.local
         /\ ~FromDisk(s) => There(s) = s.w.bucket /\ Disk!storage_type(s.ds.conn) = "s3"
         /\ \A f \in s.w.local : ~Disk!IsDir(s.w.local, f)
  <1>1. There(s) \in {s.w.local, s.w.bucket}
    BY DEF There, Disk!FilesOf
  <1>2. /\ FromDisk(s) => There(s) = s.w.local
        /\ ~FromDisk(s) => There(s) = s.w.bucket /\ Disk!storage_type(s.ds.conn) = "s3"
    BY DEF There, FromDisk, Disk!FilesOf, Disk!storage_type
  <1>3. IsConnection(s.ds.conn) /\ \A f, g \in s.w.local : ~IsStrictPrefix(f, g)
    BY FilesAssumption
  <1>4. ASSUME NEW f \in s.w.local \cup s.w.bucket
        PROVE  /\ f # <<>> /\ f \in Seq(ToSet(f)) /\ AreNames(s.w.tables[f])
               /\ \A name \in ToSet(f) : IsName(name)
    BY FilesAssumption DEF AreNames
  <1>5. \A f \in s.w.local : ~Disk!IsDir(s.w.local, f)
    BY <1>3, SameWords, Zenon DEF Disk!IsDir
  <1>. QED  BY <1>1, <1>2, <1>3, <1>4, <1>5

\* A materialized file next to these others.
Entries(F) == {<<Last(f), f>> : f \in F}
Among(F, name) == [at |-> <<name>>, entries |-> Entries(F)]

\* Of these the one of the name is read, with those of its stem beside it.
LEMMA AmongShown ==
  ASSUME NEW F, NEW name
  PROVE  /\ Disk!Main(Among(F, name)) = {f \in F : Last(f) = name}
         /\ Disk!Beside(Among(F, name)) = {f \in F : Last(f).stem = name.stem /\ Last(f) # name}
  <1>1. /\ Among(F, name).at # <<>> /\ Among(F, name).at[1] = name
        /\ Among(F, name).entries = Entries(F)
    BY DEF Among
  <1>0. /\ \A e \in Entries(F) : e[2] \in F /\ e[1] = Last(e[2])
        /\ \A f \in F : <<Last(f), f>> \in Entries(F) /\ <<Last(f), f>>[1] = Last(f) /\ <<Last(f), f>>[2] = f
    BY DEF Entries
  <1>2. {e[2] : e \in {e \in Entries(F) : e[1] = name}} = {f \in F : Last(f) = name}
    <2>1. ASSUME NEW e \in Entries(F), e[1] = name PROVE e[2] \in {f \in F : Last(f) = name}
      BY <1>0, <2>1
    <2>2. ASSUME NEW f \in F, Last(f) = name PROVE \E e \in {e \in Entries(F) : e[1] = name} : f = e[2]
      BY <1>0, <2>2
    <2>. QED  BY <2>1, <2>2
  <1>3. {e[2] : e \in {e \in Entries(F) : e[1].stem = name.stem /\ e[1] # name}}
          = {f \in F : Last(f).stem = name.stem /\ Last(f) # name}
    <2>1. ASSUME NEW e \in Entries(F), e[1].stem = name.stem, e[1] # name
          PROVE  e[2] \in {f \in F : Last(f).stem = name.stem /\ Last(f) # name}
      BY <1>0, <2>1
    <2>2. ASSUME NEW f \in F, Last(f).stem = name.stem, Last(f) # name
          PROVE  \E e \in {e \in Entries(F) : e[1].stem = name.stem /\ e[1] # name} : f = e[2]
      BY <1>0, <2>2
    <2>. QED  BY <2>1, <2>2
  <1>4. Disk!Main(Among(F, name)) = {f \in F : Last(f) = name}
    BY <1>1, <1>2, Zenon DEF Disk!Main, Disk!Named
  <1>5. Disk!Beside(Among(F, name)) = {f \in F : Last(f).stem = name.stem /\ Last(f) # name}
    BY <1>1, <1>3, Zenon DEF Disk!Beside
  <1>. QED  BY <1>4, <1>5

\* Where a file is, and what is beside it.
Neighbours(files, f) == {g \in Beneath(files, Front(f)) : g # f /\ Last(g).stem = Last(f).stem}
FileAt(f) == [parts |-> f, slash |-> FALSE]

\* In its directory a file is the only one of its name.
LEMMA OnlyOne ==
  ASSUME NEW s \in FileSources, NEW f \in There(s)
  PROVE  /\ f \in Beneath(There(s), Front(f))
         /\ \A g \in Beneath(There(s), Front(f)) : Last(g) = Last(f) => g = f
  <1>1. \A g \in There(s) : g \in Seq(ToSet(g)) /\ g # <<>>
    BY ThereFits
  <1>2. Front(f) \in Seq(ToSet(Front(f))) /\ f = Append(Front(f), Last(f))
    BY <1>1, FrontAndLast
  <1>3. ASSUME NEW g \in There(s)
        PROVE  g \in Beneath(There(s), Front(f)) <=> g = Append(Front(f), Last(g))
    BY <1>1, <1>2, RightBelow DEF Beneath
  <1>. QED  BY <1>2, <1>3 DEF Beneath

\* On disk a reader finds the file among those of its directory.
LEMMA DiskShows ==
  ASSUME NEW s \in FileSources, FromDisk(s), NEW f \in There(s)
  PROVE  Disk!OnDisk(s.w, FileAt(f)) = Among(Beneath(There(s), Front(f)), Last(f))
  <1>1. /\ There(s) = s.w.local /\ ~Disk!IsDir(s.w.local, f) /\ f # <<>> /\ Front(f) # f
    BY ThereFits, FrontAndLast
  <1>2. FileAt(f).parts = f /\ FileAt(f).slash = FALSE
    BY DEF FileAt
  <1>3. {g \in s.w.local : Len(g) = Len(Front(f)) + 1 /\ Disk!IsPrefix(Front(f), g)} = Beneath(There(s), Front(f))
    BY <1>1, SameWords DEF Beneath
  <1>4. \A F : {<<Disk!Last(g), g>> : g \in F} = Entries(F)
    BY SameWords DEF Entries
  <1> DEFINE path == FileAt(f)
             dir == IF path.slash \/ Disk!IsDir(s.w.local, path.parts) \/ path.parts = <<>>
                    THEN path.parts ELSE Disk!Front(path.parts)
  <1>5. dir = Front(f)
    BY <1>1, <1>2, SameWords
  <1>6. Disk!OnDisk(s.w, path)
          = [at |-> IF dir = path.parts THEN <<>> ELSE <<Disk!Last(path.parts)>>,
             entries |-> {<<Disk!Last(g), g>> : g \in {g \in s.w.local : Len(g) = Len(dir) + 1 /\ Disk!IsPrefix(dir, g)}}]
    BY DEF Disk!OnDisk
  <1>7. (IF dir = path.parts THEN <<>> ELSE <<Disk!Last(path.parts)>>) = <<Last(f)>>
    BY <1>1, <1>2, <1>5, SameWords
  <1>8. {<<Disk!Last(g), g>> : g \in {g \in s.w.local : Len(g) = Len(dir) + 1 /\ Disk!IsPrefix(dir, g)}}
          = Entries(Beneath(There(s), Front(f)))
    BY <1>3, <1>4, <1>5
  <1>. QED  BY <1>6, <1>7, <1>8 DEF Among

\* The keys with this prefix.
Prefixed(s, f) == {k \in s.w.bucket : Disk!StartsWith(k, FileAt(f))}

\* From a bucket it is given the key alone, or what begins like it: all that is
\* beside it, and what other directories have.
LEMMA BucketShows ==
  ASSUME NEW s \in FileSources, ~FromDisk(s), NEW f \in There(s)
  PROVE  /\ Disk!Base(FileAt(f)) = <<Last(f)>> /\ Disk!Get(s.w.bucket, FileAt(f)) = {f}
         /\ f \in Prefixed(s, f) /\ Neighbours(There(s), f) \subseteq Prefixed(s, f)
         /\ Prefixed(s, f) \subseteq There(s)
         /\ \A k \in Prefixed(s, f) : Len(k) > Len(Front(f)) + 1 \/ k \in Beneath(There(s), Front(f))
  <1>1. There(s) = s.w.bucket /\ \A g \in There(s) : g # <<>> /\ g \in Seq(ToSet(g)) /\ \A n \in ToSet(g) : IsName(n)
    BY ThereFits
  <1>2. FileAt(f).parts = f /\ FileAt(f).slash = FALSE
    BY DEF FileAt
  <1>3. Disk!Base(FileAt(f)) = <<Last(f)>> /\ Disk!Get(s.w.bucket, FileAt(f)) = {f}
    BY <1>1, <1>2, SameWords DEF Disk!Base, Disk!Get
  <1>4. \A g \in There(s) : Len(g) \in Nat /\ Last(g) = g[Len(g)]
    BY <1>1, FrontAndLast
  <1>5. Len(f) = Len(Front(f)) + 1 /\ Len(Front(f)) \in Nat
    BY <1>1, FrontAndLast
  <1>6. \A k : Disk!StartsWith(k, FileAt(f))
            <=> Len(k) >= Len(f) /\ IsPrefix(Front(f), k) /\ IsPrefix(Last(f).stem, k[Len(f)].stem)
    <2>1. <<Last(f)>> # <<>>
      OBVIOUS
    <2>. QED  BY <1>2, <1>3, <2>1, SameWords, Zenon DEF Disk!StartsWith
  <1>7. IsPrefix(Last(f).stem, Last(f).stem)
    <2>1. Last(f).stem \in Seq(ToSet(Last(f).stem))
      BY <1>1, FrontAndLast DEF IsName
    <2>. QED  BY <2>1 DEF IsPrefix
  <1>8. ASSUME NEW g \in Beneath(There(s), Front(f)), Last(g).stem = Last(f).stem PROVE g \in Prefixed(s, f)
    <2>1. g \in There(s) /\ Len(g) = Len(f) /\ IsPrefix(Front(f), g)
      BY <1>5 DEF Beneath
    <2>2. g[Len(f)].stem = Last(f).stem
      BY <1>4, <1>8, <2>1
    <2>. QED  BY <1>1, <1>4, <1>6, <1>7, <2>1, <2>2 DEF Prefixed
  <1>9. f \in Prefixed(s, f) /\ Neighbours(There(s), f) \subseteq Prefixed(s, f)
    BY <1>8, OnlyOne DEF Neighbours
  <1>10. ASSUME NEW k \in Prefixed(s, f) PROVE Len(k) > Len(Front(f)) + 1 \/ k \in Beneath(There(s), Front(f))
    BY <1>1, <1>4, <1>5, <1>6 DEF Prefixed, Beneath
  <1>. QED  BY <1>1, <1>3, <1>9, <1>10 DEF Prefixed

\* No file of another directory takes the name when a prefix is put into one.
Alone(s, f) == FromDisk(s) \/ \A k \in There(s) : Len(k) > Len(Front(f)) + 1 => Last(k).stem # Last(f).stem

\* What the readers are given, if this is the file that the path leads to.
LEMMA FileGiven ==
  ASSUME NEW s \in FileSources, NEW f \in There(s), NEW native,
         Disk!resolve_file_path(s.w, s.ds.conn, native) = <<FileAt(f)>>
  PROVE  LET m == Disk!materialize_file_for(s.w, s.ds.conn, native)
             d == Disk!materialize_dir_for(s.w, s.ds.conn, native)
         IN  /\ Disk!read_bytes_for(s.w, s.ds.conn, native) = {f}
             /\ Disk!Main(m) = {f} /\ f \in Disk!Main(d)
             /\ FromDisk(s) => Disk!Beside(m) = Neighbours(There(s), f)
             /\ Alone(s, f) => Disk!Main(d) = {f} /\ Disk!Beside(d) = Neighbours(There(s), f)
  <1> DEFINE path == Disk!resolve_file_path(s.w, s.ds.conn, native)
             m == Disk!materialize_file_for(s.w, s.ds.conn, native)
             d == Disk!materialize_dir_for(s.w, s.ds.conn, native)
             B == Beneath(There(s), Front(f))
  <1>1. path # <<>> /\ path[1] = FileAt(f) /\ path = <<FileAt(f)>>
    OBVIOUS
  <1>2. FileAt(f).parts = f /\ FileAt(f).slash = FALSE
    BY DEF FileAt
  <1>3. Disk!read_bytes_for(s.w, s.ds.conn, native) = {f}
    BY <1>1, <1>2 DEF Disk!read_bytes_for, Disk!Get, There
  <1> HIDE DEF path
  <1>4. f \in B /\ (\A g \in B : Last(g) = Last(f) => g = f) /\ B \subseteq There(s)
    BY OnlyOne DEF Beneath
  <1>5. CASE FromDisk(s)
    <2>1. m = Among(B, Last(f)) /\ d = Among(B, Last(f))
      BY <1>1, <1>5, DiskShows, Zenon DEF FromDisk, Disk!materialize_file_for, Disk!materialize_dir_for, path
    <2>2. {g \in B : Last(g) = Last(f)} = {f}
      BY <1>4
    <2>3. {g \in B : Last(g).stem = Last(f).stem /\ Last(g) # Last(f)} = Neighbours(There(s), f)
      BY <1>4 DEF Neighbours
    <2>4. Disk!Main(Among(B, Last(f))) = {f} /\ Disk!Beside(Among(B, Last(f))) = Neighbours(There(s), f)
      <3>1. Disk!Main(Among(B, Last(f))) = {g \in B : Last(g) = Last(f)}
        BY AmongShown
      <3>2. Disk!Beside(Among(B, Last(f))) = {g \in B : Last(g).stem = Last(f).stem /\ Last(g) # Last(f)}
        BY AmongShown
      <3>. QED  BY <2>2, <2>3, <3>1, <3>2, Zenon
    <2>5. /\ Disk!Main(m) = {f} /\ Disk!Beside(m) = Neighbours(There(s), f)
          /\ Disk!Main(d) = {f} /\ Disk!Beside(d) = Neighbours(There(s), f)
      BY <2>1, <2>4, Zenon
    <2> HIDE DEF m, d
    <2>6. f \in Disk!Main(d)
      BY <2>5
    <2>. QED  BY <1>3, <2>5, <2>6, Zenon DEF m, d
  <1>6. CASE ~FromDisk(s)
    <2>1. \A F : {<<Disk!Last(g), g>> : g \in F} = Entries(F)
      BY SameWords DEF Entries
    <2>2. m = Among({f}, Last(f)) /\ d = Among(Prefixed(s, f), Last(f))
      <3>1. Disk!storage_type(s.ds.conn) # "local"
        BY <1>6 DEF FromDisk
      <3>2. Disk!Base(path[1]) = <<Last(f)>> /\ Disk!Get(s.w.bucket, path[1]) = {f}
            /\ {k \in s.w.bucket : Disk!StartsWith(k, path[1])} = Prefixed(s, f)
        BY <1>1, <1>6, BucketShows DEF Prefixed
      <3>3. m = [at |-> Disk!Base(path[1]), entries |-> {<<Disk!Last(k), k>> : k \in Disk!Get(s.w.bucket, path[1])}]
        BY <1>1, <3>1, Zenon DEF Disk!materialize_file_for, path
      <3>4. d = [at |-> Disk!Base(path[1]),
                 entries |-> {<<Disk!Last(k), k>> : k \in {k \in s.w.bucket : Disk!StartsWith(k, path[1])}}]
        BY <1>1, <3>1, Zenon DEF Disk!materialize_dir_for, path
      <3>. QED  BY <2>1, <3>2, <3>3, <3>4, Zenon DEF Among
    <2>3. Disk!Main(m) = {f}
      <3>1. {g \in {f} : Last(g) = Last(f)} = {f}
        OBVIOUS
      <3>. QED  BY <2>2, <3>1, AmongShown
    <2>4. f \in Disk!Main(d)
      BY <1>6, <2>2, AmongShown, BucketShows
    <2>5. ASSUME Alone(s, f) PROVE Disk!Main(d) = {f} /\ Disk!Beside(d) = Neighbours(There(s), f)
      <3>1. \A k \in Prefixed(s, f) : Last(k).stem = Last(f).stem => k \in B
        BY <1>6, <2>5, BucketShows DEF Alone
      <3>2. {g \in Prefixed(s, f) : Last(g) = Last(f)} = {f}
        BY <1>4, <1>6, <3>1, BucketShows
      <3>3. {g \in Prefixed(s, f) : Last(g).stem = Last(f).stem /\ Last(g) # Last(f)} = Neighbours(There(s), f)
        BY <1>4, <1>6, <3>1, BucketShows DEF Neighbours
      <3>4. /\ Disk!Main(Among(Prefixed(s, f), Last(f))) = {f}
            /\ Disk!Beside(Among(Prefixed(s, f), Last(f))) = Neighbours(There(s), f)
        <4>1. Disk!Main(Among(Prefixed(s, f), Last(f))) = {g \in Prefixed(s, f) : Last(g) = Last(f)}
          BY AmongShown
        <4>2. Disk!Beside(Among(Prefixed(s, f), Last(f))) = {g \in Prefixed(s, f) : Last(g).stem = Last(f).stem /\ Last(g) # Last(f)}
          BY AmongShown
        <4>. QED  BY <3>2, <3>3, <4>1, <4>2, Zenon
      <3>. QED  BY <2>2, <3>4, Zenon
    <2>. QED  BY <1>3, <1>6, <2>3, <2>4, <2>5
  <1>. QED  BY <1>5, <1>6

\* A path is that of the connection, or of a file right below it.
LEMMA PathsResolve ==
  ASSUME NEW s \in FileSources, s.ds.conn.path # <<>>
  PROVE  /\ \A native : ~OfDirectory(s) => Disk!resolve_file_path(s.w, s.ds.conn, native) = s.ds.conn.path
         /\ Disk!resolve_file_path(s.w, s.ds.conn, <<>>) = s.ds.conn.path
         /\ \A name : OfDirectory(s) /\ IsName(name) /\ Proper(s, name) =>
              Disk!resolve_file_path(s.w, s.ds.conn, <<name>>) = <<FileAt(Append(Directory(s), name))>>
  <1>1. \A native : ~OfDirectory(s) => Disk!resolve_file_path(s.w, s.ds.conn, native) = s.ds.conn.path
    BY Zenon DEF OfDirectory, Disk!resolve_file_path
  <1>2. ~Disk!is_single_component(<<>>) /\ Disk!Trimmed(<<>>) = <<>>
    <2>1. ~Disk!is_single_component(<<>>)
      BY DEF Disk!is_single_component
    <2>. QED  BY <2>1, NamesTrimmed
  <1>3. Disk!resolve_file_path(s.w, s.ds.conn, <<>>) = s.ds.conn.path
    BY <1>2, Zenon DEF Disk!resolve_file_path
  <1>4. ASSUME NEW name, OfDirectory(s), IsName(name), Proper(s, name)
        PROVE  Disk!resolve_file_path(s.w, s.ds.conn, <<name>>) = <<FileAt(Append(Directory(s), name))>>
    <2>1. Disk!Trimmed(<<name>>) = <<name>>
      BY <1>4, NamesTrimmed DEF Proper
    <2>2. Disk!is_single_component(<<name>>)
      BY <1>4, SameWords DEF Proper, Disk!is_single_component
    <2>3. Directory(s) = s.ds.conn.path[1].parts /\ Directory(s) \in Seq(ToSet(Directory(s)))
      BY ThereFits DEF Directory, IsConnection, AreNames
    <2>4. Directory(s) \o <<name>> = Append(Directory(s), name)
      BY <2>3, FrontAndLast
    <2>. QED  BY <1>4, <2>1, <2>2, <2>3, <2>4, Zenon DEF Disk!resolve_file_path, OfDirectory, FileAt
  <1>. QED  BY <1>1, <1>3, <1>4

\* Tables are those of the one file.
LEMMA TablesAre ==
  /\ \A w : Disk!TablesOf(w, {}) = <<>>
  /\ \A w, f : Disk!TablesOf(w, {f}) = w.tables[f]
  <1>1. \A f : (CHOOSE g \in {f} : TRUE) = f
    OBVIOUS
  <1>. QED  BY <1>1 DEF Disk!TablesOf

\* What a directory offers is there.
LEMMA OfferedIsThere ==
  ASSUME NEW s \in FileSources, OfDirectory(s), NEW name \in Disk!get_data_source_tables(s.w, s.ds)
  PROVE  /\ s.ds.conn.path # <<>> /\ s.ds.type \notin Disk!DirectoryTypes /\ IsName(name)
         /\ Append(Directory(s), name) \in There(s)
         /\ Front(Append(Directory(s), name)) = Directory(s) /\ Last(Append(Directory(s), name)) = name
  <1>1. s.ds.conn.path # <<>>
    BY DEF OfDirectory, Disk!is_directory_connection
  <1>2. Directory(s) = s.ds.conn.path[1].parts /\ Directory(s) \in Seq(ToSet(Directory(s)))
    BY <1>1, ThereFits DEF Directory, IsConnection, AreNames
  <1>3. name \in Disk!list_directory_files(s.w, s.ds.conn, s.ds.type)
    BY Zenon DEF OfDirectory, Disk!get_data_source_tables
  <1>4. PICK f \in There(s) : /\ name = Last(f) /\ Len(f) = Len(Directory(s)) + 1 /\ IsPrefix(Directory(s), f)
                              /\ Last(f).ext \in Disk!publishable_extensions(s.ds.type)
    BY <1>2, <1>3, SameWords DEF Disk!list_directory_files, There
  <1>5. f \in Seq(ToSet(f)) /\ f # <<>> /\ IsName(name)
    BY <1>4, ThereFits, FrontAndLast
  <1>6. f = Append(Directory(s), name)
    BY <1>2, <1>4, <1>5, RightBelow
  <1>7. s.ds.type \notin Disk!DirectoryTypes
    BY <1>4 DEF Disk!publishable_extensions, Disk!DirectoryTypes
  <1>. QED  BY <1>1, <1>2, <1>4, <1>5, <1>6, <1>7, FrontAndLast

\* A file that is not in a directory, and is opened, is the one the path names.
LEMMA OpenedIsThere ==
  ASSUME NEW s \in FileSources, ~OfDirectory(s),
         Disk!Main(Disk!materialize_file_for(s.w, s.ds.conn, <<>>)) # {}
  PROVE  Directory(s) \in There(s) /\ s.ds.conn.path = <<FileAt(Directory(s))>>
  <1> DEFINE path == Disk!resolve_file_path(s.w, s.ds.conn, <<>>)
             conn == s.ds.conn
             m == Disk!materialize_file_for(s.w, s.ds.conn, <<>>)
             dir == Directory(s)
  <1>1. conn.path # <<>>
    <2>1. CASE conn.path = <<>>
      <3>1. path = <<>>
        BY <2>1 DEF Disk!resolve_file_path
      <3>2. m = Disk!Nowhere
        BY <3>1, Zenon DEF Disk!materialize_file_for
      <3>. QED  BY <3>2 DEF Disk!Main, Disk!Nowhere
    <2>. QED  BY <2>1
  <1>2. path = conn.path /\ conn.path = <<[parts |-> dir, slash |-> conn.path[1].slash]>>
        /\ conn.path[1].slash \in BOOLEAN /\ dir = conn.path[1].parts /\ dir \in Seq(ToSet(dir))
    BY <1>1, PathsResolve, ThereFits DEF Directory, IsConnection, AreNames
  <1>3. CASE FromDisk(s)
    <2>1. m = Disk!OnDisk(s.w, conn.path[1])
      BY <1>1, <1>2, <1>3, Zenon DEF Disk!materialize_file_for, FromDisk
    <2>2. ~Disk!IsDir(s.w.local, dir)
      BY <1>1, <1>2, <1>3 DEF OfDirectory, Disk!is_directory_connection, FromDisk
    <2>3. m.at # <<>>
      BY DEF Disk!Main
    <2> DEFINE home == IF conn.path[1].slash \/ Disk!IsDir(s.w.local, conn.path[1].parts) \/ conn.path[1].parts = <<>>
                       THEN conn.path[1].parts ELSE Disk!Front(conn.path[1].parts)
               at == IF home = conn.path[1].parts THEN <<>> ELSE <<Disk!Last(conn.path[1].parts)>>
               found == {<<Disk!Last(f), f>> : f \in {g \in s.w.local : Len(g) = Len(home) + 1 /\ Disk!IsPrefix(home, g)}}
    <2>a. m = [at |-> at, entries |-> found]
      BY <2>1, Zenon DEF Disk!OnDisk
    <2>b. m.at = at /\ m.entries = found
      <3> HIDE DEF at, found, m
      <3>. QED  BY <2>a
    <2>4. ~conn.path[1].slash /\ dir # <<>> /\ m.at = <<Last(dir)>> /\ home = Front(dir)
      <3>1. home # conn.path[1].parts /\ at = <<Disk!Last(conn.path[1].parts)>>
        BY <2>3, <2>b
      <3>2. ~conn.path[1].slash /\ conn.path[1].parts # <<>> /\ home = Disk!Front(conn.path[1].parts)
        BY <3>1
      <3>. QED  BY <1>2, <2>b, <3>1, <3>2, SameWords, Zenon
    <2>5. m.entries = Entries(Beneath(s.w.local, Front(dir)))
      <3>1. {g \in s.w.local : Len(g) = Len(Front(dir)) + 1 /\ Disk!IsPrefix(Front(dir), g)} = Beneath(s.w.local, Front(dir))
        BY SameWords DEF Beneath
      <3>2. \A F : {<<Disk!Last(g), g>> : g \in F} = Entries(F)
        BY SameWords DEF Entries
      <3>3. m.entries = {<<Disk!Last(f), f>> : f \in {g \in s.w.local : Len(g) = Len(Front(dir)) + 1 /\ Disk!IsPrefix(Front(dir), g)}}
        BY <2>b, <2>4, Zenon
      <3>. QED  BY <3>1, <3>2, <3>3
    <2>6. PICK e \in Entries(Beneath(s.w.local, Front(dir))) : e[1] = Last(dir)
      BY <2>4, <2>5 DEF Disk!Main, Disk!Named
    <2>7. PICK g \in Beneath(s.w.local, Front(dir)) : Last(g) = Last(dir)
      BY <2>6 DEF Entries
    <2>8. g = dir
      <3>1. g \in There(s) /\ g \in Seq(ToSet(g)) /\ Len(g) = Len(Front(dir)) + 1 /\ IsPrefix(Front(dir), g)
        BY <1>3, <2>7, ThereFits DEF Beneath
      <3>2. Front(dir) \in Seq(ToSet(Front(dir))) /\ dir = Append(Front(dir), Last(dir))
        BY <1>2, <2>4, FrontAndLast
      <3>. QED  BY <2>7, <3>1, <3>2, RightBelow
    <2>9. dir \in There(s) /\ conn.path[1].slash = FALSE
      BY <1>2, <1>3, <2>4, <2>7, <2>8, ThereFits DEF Beneath
    <2>. QED  BY <1>2, <2>9 DEF FileAt
  <1>4. CASE ~FromDisk(s)
    <2>1. m = [at |-> Disk!Base(conn.path[1]), entries |-> {<<Disk!Last(k), k>> : k \in Disk!Get(s.w.bucket, conn.path[1])}]
      BY <1>1, <1>2, <1>4, Zenon DEF Disk!materialize_file_for, FromDisk
    <2>2. Disk!Get(s.w.bucket, conn.path[1]) # {}
      BY <2>1 DEF Disk!Main, Disk!Named
    <2>3. conn.path[1].slash = FALSE /\ dir \in There(s)
      BY <1>2, <1>4, <2>2, ThereFits DEF Disk!Get
    <2>. QED  BY <1>2, <2>3 DEF FileAt
  <1>. QED  BY <1>3, <1>4

\* A file that a name leads to is read, by all who read it.
LEMMA FileOpens ==
  ASSUME NEW s \in FileSources, NEW f \in There(s), NEW name, NEW table,
         Disk!resolve_file_path(s.w, s.ds.conn, <<name>>) = <<FileAt(f)>>,
         Disk!Trimmed(<<name>>) = <<name>>, s.ds.type \notin Disk!DirectoryTypes,
         OfDirectory(s) => /\ f = Append(Directory(s), name) /\ Front(f) = Directory(s) /\ Last(f) = name /\ Alone(s, f)
                           /\ table = IF s.w.tables[f] = <<>> THEN <<>> ELSE <<s.w.tables[f][1]>>,
         ~OfDirectory(s) => /\ s.ds.type = "geopackage" /\ s.ds.conn.path = <<FileAt(f)>>
                            /\ table = <<name>> /\ name \in ToSet(s.w.tables[f])
  PROVE  OpensAs(s, name, f, table)
  <1> DEFINE conn == s.ds.conn
             type == s.ds.type
             m == Disk!materialize_file_for(s.w, conn, <<name>>)
             d == Disk!materialize_dir_for(s.w, conn, <<name>>)
             reads == Disk!Reads(s.w, s.ds, <<name>>)
             bounds == Disk!compute_layer_bounds(s.w, s.ds, <<name>>)
             typed == Disk!get_layer_feature_type(s.w, s.ds, <<name>>)
             tables == s.w.tables[f]
  <1>1. /\ Disk!read_bytes_for(s.w, conn, <<name>>) = {f} /\ Disk!Main(m) = {f}
        /\ OfDirectory(s) => Disk!Main(d) = {f} /\ Disk!Beside(d) = Neighbours(There(s), f)
    BY FileGiven, Zenon
  <1>2. tables \in Seq(ToSet(tables)) /\ Disk!TablesOf(s.w, {f}) = tables /\ Disk!TablesOf(s.w, {}) = <<>>
    BY ThereFits, TablesAre DEF AreNames
  <1>3. Disk!Contains(tables, name) <=> name \in ToSet(tables)
    BY <1>2 DEF Disk!Contains, ToSet
  <1>4. ~Disk!Contains(<<>>, name)
    BY DEF Disk!Contains
  <1>5. Len(<<name>>) = 1 /\ <<name>>[1] = name /\ <<name>> # <<>>
    OBVIOUS
  <1>6. ~OfDirectory(s) => tables # <<>> /\ Disk!Contains(tables, name)
    BY <1>2, <1>3, <1>4, Zenon
  <1>14. ~OfDirectory(s) => table # <<>> /\ table[1] = name
    BY <1>5, Zenon
  <1>7. Disk!SelectTable(s.w, conn, {f}, <<name>>) = table
    <2>1. CASE OfDirectory(s)
      BY <1>2, <2>1, Zenon DEF Disk!SelectTable, OfDirectory
    <2>2. CASE ~OfDirectory(s)
      BY <1>2, <1>5, <1>6, <2>2, Zenon DEF Disk!SelectTable, OfDirectory
    <2>. QED  BY <2>1, <2>2
  <1>8. reads.main = {f}
    <2>1. CASE type = "geojson"
      BY <1>1, <2>1 DEF Disk!Reads
    <2>2. CASE type # "geojson"
      <3>1. reads.main = Disk!Main(Disk!materialize(s.w, s.ds, <<name>>))
        BY <2>2 DEF Disk!Reads
      <3>2. OfDirectory(s) \/ type \notin {"worldimage", "shapefile"}
        OBVIOUS
      <3>. QED  BY <1>1, <3>1, <3>2, Zenon DEF Disk!materialize
    <2>. QED  BY <2>1, <2>2
  <1>9. ASSUME type \in {"shapefile", "worldimage"}
        PROVE  reads.beside = {g \in Beneath(There(s), Directory(s)) : g # f /\ Last(g).stem = name.stem}
    <2>1. reads.beside = Disk!Beside(Disk!materialize(s.w, s.ds, <<name>>))
      BY <1>9 DEF Disk!Reads
    <2>2. Disk!materialize(s.w, s.ds, <<name>>) = d
      BY <1>9 DEF Disk!materialize
    <2>3. OfDirectory(s)
      BY <1>9
    <2>. QED  BY <1>1, <2>1, <2>2, <2>3, Zenon DEF Neighbours
  <1>10. reads.table = IF type = "geopackage" THEN table ELSE <<>>
    <2>1. CASE type = "geopackage"
      <3>1. reads.table = Disk!SelectTable(s.w, conn, Disk!Main(Disk!materialize(s.w, s.ds, <<name>>)), <<name>>)
        BY <2>1 DEF Disk!Reads
      <3>2. Disk!materialize(s.w, s.ds, <<name>>) = m
        BY <2>1 DEF Disk!materialize
      <3>. QED  BY <1>1, <1>7, <2>1, <3>1, <3>2
    <2>2. CASE type # "geopackage"
      BY <2>2 DEF Disk!Reads
    <2>. QED  BY <2>1, <2>2
  <1>11. ASSUME type = "geopackage"
         PROVE  typed = IF table = <<>> THEN <<>> ELSE <<[file |-> {f}, table |-> table[1]]>>
    <2>1. CASE tables = <<>>
      <3>1. OfDirectory(s) /\ table = <<>>
        BY <1>6, <2>1
      <3>2. typed = <<>>
        BY <1>1, <1>2, <2>1, Zenon DEF Disk!get_layer_feature_type
      <3>. QED  BY <3>1, <3>2
    <2>2. CASE tables # <<>> /\ OfDirectory(s)
      <3>1. typed = <<[file |-> {f}, table |-> tables[1]]>>
        BY <1>1, <1>2, <1>11, <2>2, Zenon DEF Disk!get_layer_feature_type, OfDirectory
      <3>2. table = <<tables[1]>>
        BY <2>2
      <3>3. table # <<>> /\ table[1] = tables[1]
        BY <3>2
      <3>. QED  BY <3>1, <3>3
    <2>3. CASE tables # <<>> /\ ~OfDirectory(s)
      <3>1. typed = <<[file |-> {f}, table |-> name]>>
        BY <1>1, <1>2, <1>5, <1>6, <1>11, <2>3, Zenon DEF Disk!get_layer_feature_type, OfDirectory
      <3>2. table # <<>> /\ table[1] = name
        BY <2>3
      <3>. QED  BY <3>1, <3>2
    <2>. QED  BY <2>1, <2>2, <2>3
  <1>12. Disk!update_layer_feature_type(s.w, s.ds, <<name>>) \in {<<>>, typed} \/ type # "geopackage"
    <2> DEFINE updated == Disk!update_layer_feature_type(s.w, s.ds, <<name>>)
               file == Disk!Get(s.w.local, conn.path[1])
    <2>. SUFFICES ASSUME updated # <<>>, type = "geopackage" PROVE updated = typed
      OBVIOUS
    <2>1. conn.storage \in {<<>>, <<"local">>} /\ conn.path # <<>>
      BY Zenon DEF Disk!update_layer_feature_type
    <2>2. FromDisk(s) /\ There(s) = s.w.local
      <3>0. <<"s3">> # <<>> /\ <<"s3">> # <<"local">>
        <4>1. <<"s3">>[1] = "s3" /\ <<"local">>[1] = "local" /\ Len(<<"s3">>) = 1
          OBVIOUS
        <4>. QED  BY <4>1
      <3>1. conn.storage # <<"s3">>
        BY <2>1, <3>0, Zenon
      <3>. QED  BY <3>1, ThereFits DEF FromDisk, Disk!storage_type
    <2>3. Disk!Contains(Disk!TablesOf(s.w, file), name) /\ updated = <<[file |-> file, table |-> name]>>
      BY <1>5, Zenon DEF Disk!update_layer_feature_type
    <2>4. file # {}
      BY <1>2, <1>4, <2>3
    <2>5. conn.path[1].parts \in s.w.local
      BY <2>4 DEF Disk!Get
    <2>6. ~OfDirectory(s)
      BY <2>2, <2>5, ThereFits DEF OfDirectory, Disk!is_directory_connection, FromDisk
    <2>7. file = {f}
      BY <2>2, <2>6 DEF FileAt, Disk!Get
    <2>8. typed = <<[file |-> {f}, table |-> name]>>
      BY <1>11, <1>14, <2>6
    <2>. QED  BY <2>3, <2>7, <2>8
  <1>13. ASSUME FromDisk(s) PROVE bounds.main = reads.main /\ bounds.table = reads.table
    <2> DEFINE path == Disk!resolve_file_path(s.w, conn, <<name>>)
               file == IF path = <<>> THEN {} ELSE Disk!Get(s.w.local, path[1])
    <2>1. file = {f} /\ path # <<>>
      <3>1. There(s) = s.w.local
        BY <1>13, ThereFits
      <3>. QED  BY <3>1 DEF FileAt, Disk!Get
    <2> DEFINE beside == IF path = <<>> THEN {} ELSE Disk!Beside(Disk!OnDisk(s.w, path[1]))
               found == IF type = "geopackage" THEN Disk!SelectTable(s.w, conn, file, <<name>>) ELSE <<>>
    <2>2. bounds = [main |-> file, beside |-> beside, table |-> found]
      BY Zenon DEF Disk!compute_layer_bounds
    <2>3. bounds.main = file /\ bounds.table = found
      <3> HIDE DEF file, beside, found, bounds
      <3>. QED  BY <2>2
    <2>4. found = IF type = "geopackage" THEN table ELSE <<>>
      BY <1>7, <2>1
    <2>. QED  BY <1>8, <1>10, <2>1, <2>3, <2>4, Zenon
  <1> HIDE DEF reads, bounds, typed
  <1>. QED  BY <1>8, <1>9, <1>10, <1>11, <1>12, <1>13, Zenon DEF OpensAs, There, reads, bounds, typed

\* Nobody else takes a proper name.
LEMMA ProperIsAlone ==
  ASSUME NEW s \in FileSources, OfDirectory(s), NEW name \in Disk!get_data_source_tables(s.w, s.ds), Proper(s, name)
  PROVE  LET f == Append(Directory(s), name)
         IN  /\ Alone(s, f) /\ f \in There(s) /\ Disk!Trimmed(<<name>>) = <<name>>
             /\ Disk!resolve_file_path(s.w, s.ds.conn, <<name>>) = <<FileAt(f)>>
  <1>1. Alone(s, Append(Directory(s), name))
    BY OfferedIsThere DEF Proper, Alone, There
  <1>2. Disk!Trimmed(<<name>>) = <<name>>
    BY OfferedIsThere, NamesTrimmed DEF Proper
  <1>. QED  BY <1>1, <1>2, OfferedIsThere, PathsResolve

\* What is offered is opened.
LEMMA OfferedOpened == ASSUME NEW s \in FileSources PROVE OfferedOpen(s)
  <1> DEFINE offered == Disk!get_data_source_tables(s.w, s.ds)
  <1>1. ASSUME OfDirectory(s), NEW name \in offered, Proper(s, name)
        PROVE  LET file == Append(Directory(s), name)
                   tables == s.w.tables[file]
               IN  OpensAs(s, name, file, IF tables = <<>> THEN <<>> ELSE <<tables[1]>>)
    BY <1>1, ProperIsAlone, OfferedIsThere, FileOpens
  <1>2. ASSUME ~OfDirectory(s), NEW name \in offered, Proper(s, name) PROVE OpensAs(s, name, Directory(s), <<name>>)
    <2> DEFINE main == Disk!Main(Disk!materialize_file_for(s.w, s.ds.conn, <<>>))
               f == Directory(s)
    <2>1. s.ds.type = "geopackage" /\ name \in ToSet(Disk!TablesOf(s.w, main))
      BY <1>2, SameWords, Zenon DEF Disk!get_data_source_tables, OfDirectory
    <2>2. main # {}
      <3>1. ToSet(<<>>) = {}
        BY DEF ToSet
      <3>. QED  BY <2>1, <3>1, TablesAre, Zenon
    <2>3. f \in There(s) /\ s.ds.conn.path = <<FileAt(f)>>
      BY <1>2, <2>2, OpenedIsThere, Zenon
    <2>4. \A native : Disk!resolve_file_path(s.w, s.ds.conn, native) = <<FileAt(f)>>
      <3>1. s.ds.conn.path # <<>>
        BY <2>3
      <3>. QED  BY <1>2, <2>3, <3>1, PathsResolve, Zenon
    <2>5. main = {f}
      <3>1. Disk!resolve_file_path(s.w, s.ds.conn, <<>>) = <<FileAt(f)>>
        BY <2>4
      <3>. QED  BY <2>3, <3>1, FileGiven
    <2>6. name \in ToSet(s.w.tables[f])
      BY <2>1, <2>5, TablesAre, Zenon
    <2>7. IsName(name)
      BY <2>3, <2>6, ThereFits, Zenon DEF AreNames
    <2>8. Disk!Trimmed(<<name>>) = <<name>>
      BY <1>2, <2>7, NamesTrimmed, Zenon DEF Proper
    <2>9. s.ds.type \notin Disk!DirectoryTypes
      BY <2>1 DEF Disk!DirectoryTypes
    <2>. QED  BY <1>2, <2>1, <2>3, <2>4, <2>6, <2>8, <2>9, FileOpens
  <1>. QED  BY <1>1, <1>2 DEF OfferedOpen

\* A file that a path leads to is shown, also next to others of its name.
LEMMA FileShows ==
  ASSUME NEW s \in FileSources, NEW f \in There(s), NEW native,
         Disk!resolve_file_path(s.w, s.ds.conn, native) = <<FileAt(f)>>
  PROVE  Disk!Reads(s.w, s.ds, native).main # {}
  <1>1. CASE s.ds.type = "geojson"
    <2>1. Disk!Reads(s.w, s.ds, native).main = Disk!read_bytes_for(s.w, s.ds.conn, native)
      BY <1>1 DEF Disk!Reads
    <2>. QED  BY <2>1, FileGiven
  <1>2. CASE s.ds.type # "geojson"
    <2>1. Disk!Reads(s.w, s.ds, native).main = Disk!Main(Disk!materialize(s.w, s.ds, native))
      BY <1>2 DEF Disk!Reads
    <2>2. f \in Disk!Main(Disk!materialize(s.w, s.ds, native))
      BY FileGiven DEF Disk!materialize
    <2>. QED  BY <2>1, <2>2
  <1>. QED  BY <1>1, <1>2

\* A source that tests well shows something.
LEMMA TestedShown == ASSUME NEW s \in FileSources PROVE TestedShows(s)
  <1>. SUFFICES ASSUME Disk!test_datasource_connection(s.w, s.ds)
                PROVE  /\ s.ds.type \in Disk!DirectoryTypes /\ FromDisk(s) =>
                            /\ Disk!ReadsGranules(s.w, s.ds) = Disk!compute_layer_bounds(s.w, s.ds, <<>>).main
                            /\ Disk!ReadsGranules(s.w, s.ds) # {}
                       /\ s.ds.type \notin Disk!DirectoryTypes /\ OfDirectory(s) =>
                            Disk!get_data_source_tables(s.w, s.ds) # {}
                       /\ s.ds.type \notin Disk!DirectoryTypes /\ ~OfDirectory(s) =>
                            Disk!Reads(s.w, s.ds, <<>>).main # {}
    BY Zenon DEF TestedShows
  <1>1. ASSUME s.ds.type \in Disk!DirectoryTypes, FromDisk(s)
        PROVE  /\ Disk!ReadsGranules(s.w, s.ds) = Disk!compute_layer_bounds(s.w, s.ds, <<>>).main
               /\ Disk!ReadsGranules(s.w, s.ds) # {}
    <2> DEFINE granules == Disk!Granules(s.w.local, s.ds.conn.path[1].parts, s.ds.type)
    <2>1. s.ds.conn.path # <<>> /\ granules # {}
      BY <1>1, Zenon DEF Disk!test_datasource_connection, Disk!test_mosaic_connection
    <2>2. Disk!resolve_file_path(s.w, s.ds.conn, <<>>) # <<>>
      BY <2>1, PathsResolve, Zenon
    <2>3. Disk!compute_layer_bounds(s.w, s.ds, <<>>) = [main |-> granules, beside |-> {}, table |-> <<>>]
      BY <1>1, <2>2, Zenon DEF Disk!compute_layer_bounds
    <2>4. Disk!compute_layer_bounds(s.w, s.ds, <<>>).main = granules
      BY <2>3
    <2>5. Disk!ReadsGranules(s.w, s.ds) = granules
      BY <1>1, Zenon DEF Disk!ReadsGranules, FromDisk
    <2>. QED  BY <2>1, <2>4, <2>5, Zenon
  <1>2. ASSUME s.ds.type \notin Disk!DirectoryTypes, OfDirectory(s) PROVE Disk!get_data_source_tables(s.w, s.ds) # {}
    BY <1>2, Zenon DEF Disk!test_datasource_connection, Disk!test_file_connection, Disk!get_data_source_tables, OfDirectory
  <1>3. ASSUME s.ds.type \notin Disk!DirectoryTypes, ~OfDirectory(s) PROVE Disk!Reads(s.w, s.ds, <<>>).main # {}
    <2>1. s.ds.conn.path # <<>> /\ Disk!Get(There(s), s.ds.conn.path[1]) # {}
      BY <1>3, Zenon DEF Disk!test_datasource_connection, Disk!test_file_connection, OfDirectory, There
    <2>2. s.ds.conn.path = <<FileAt(s.ds.conn.path[1].parts)>> /\ s.ds.conn.path[1].parts \in There(s)
      BY <2>1, ThereFits DEF Disk!Get, IsConnection, FileAt
    <2>. QED  BY <2>1, <2>2, PathsResolve, FileShows
  <1>. QED  BY <1>1, <1>2, <1>3

\* So does a coverage store, whichever of its files is found.
LEMMA FoundShown == ASSUME NEW s \in FileSources PROVE FoundShows(s)
  <1> DEFINE offered == Disk!get_data_source_tables(s.w, s.ds)
  <1>. SUFFICES ASSUME OfDirectory(s), offered # {}, \A name \in offered : Proper(s, name),
                       NEW native \in Disk!resolve_raster_native_name(s.w, s.ds, <<>>)
                PROVE  Disk!Reads(s.w, s.ds, native).main # {}
    BY Zenon DEF FoundShows
  <1>1. s.ds.type \notin Disk!DirectoryTypes
    BY OfferedIsThere
  <1>2. offered = Disk!list_directory_files(s.w, s.ds.conn, s.ds.type)
    BY Zenon DEF OfDirectory, Disk!get_data_source_tables
  <1>3. PICK name \in offered : native = <<name>>
    <2>1. {i \in DOMAIN <<>> : (<<>>[i]).store = s.ds.name /\ Disk!Trimmed(<<>>[i].native) # <<>>} = {}
      OBVIOUS
    <2>2. Disk!resolve_raster_native_name(s.w, s.ds, <<>>) = {<<n>> : n \in offered}
      BY <1>1, <1>2, <2>1, Zenon DEF Disk!resolve_raster_native_name, OfDirectory
    <2>. QED  BY <2>2
  <1>. QED  BY <1>3, ProperIsAlone, FileShows

\* What is below a directory is one itself if and only if the path to it connects to one.
LEMMA BrowsedConnect == ASSUME NEW s \in FileSources PROVE BrowsedConnects(s)
  <1> DEFINE dir == IF OfDirectory(s) THEN Directory(s) ELSE <<>>
             conn == s.ds.conn
             below == {f \in There(s) : Disk!IsStrictPrefix(dir, f)}
             Entry(f) == [path |-> [parts |-> SubSeq(f, 1, Len(dir) + 1), slash |-> FALSE], is_dir |-> Len(f) > Len(dir) + 1]
  <1>1. dir \in Seq(ToSet(dir))
    <2>1. <<>> \in Seq(ToSet(<<>>))
      OBVIOUS
    <2>2. s.ds.conn.path # <<>> => Directory(s) \in Seq(ToSet(Directory(s)))
      BY ThereFits DEF Directory, IsConnection, AreNames
    <2>. QED  BY <2>1, <2>2 DEF Directory
  <1>2. ASSUME NEW f \in below
        PROVE  LET p == SubSeq(f, 1, Len(dir) + 1)
               IN  /\ p # <<>> /\ (Len(f) > Len(dir) + 1 => Disk!IsStrictPrefix(p, f))
                   /\ (~(Len(f) > Len(dir) + 1) => p = f)
    <2>1. f \in Seq(ToSet(f))
      BY ThereFits
    <2> DEFINE S == ToSet(f) \cup ToSet(dir)
    <2>2. f \in Seq(S) /\ dir \in Seq(S)
      BY <1>1, <2>1
    <2> HIDE DEF S
    <2>3. Len(f) > Len(dir)
      <3>1. Len(dir) <= Len(f) /\ SubSeq(dir, 1, Len(dir)) = SubSeq(f, 1, Len(dir)) /\ dir # f
        BY <1>2 DEF Disk!IsStrictPrefix, Disk!IsPrefix
      <3>2. Len(dir) # Len(f)
        <4>1. SubSeq(dir, 1, Len(dir)) = dir /\ SubSeq(f, 1, Len(f)) = f
          BY <2>2
        <4>. QED  BY <3>1, <4>1
      <3>. QED  BY <2>2, <3>1, <3>2
    <2> DEFINE n == Len(dir) + 1
               p == SubSeq(f, 1, n)
    <2>4. n \in Nat \ {0} /\ n <= Len(f)
      BY <2>2, <2>3
    <2> HIDE DEF n
    <2>5. Len(p) = n /\ p \in Seq(S) /\ \A i \in 1 .. n : p[i] = f[i]
      BY <2>2, <2>4
    <2>6. p # <<>>
      BY <2>4, <2>5
    <2>7. ASSUME Len(f) > n PROVE Disk!IsStrictPrefix(p, f)
      <3>1. SubSeq(p, 1, n) = SubSeq(f, 1, n)
        BY <2>4, <2>5
      <3>2. p # f
        BY <2>5, <2>7
      <3>. QED  BY <2>2, <2>4, <2>5, <3>1, <3>2 DEF Disk!IsStrictPrefix, Disk!IsPrefix
    <2>8. ASSUME ~(Len(f) > n) PROVE p = f
      BY <2>2, <2>4, <2>5, <2>8
    <2>. QED  BY <2>6, <2>7, <2>8 DEF n
  <1> HIDE DEF dir
  <1>3. Disk!Listing(There(s), dir) = {Entry(f) : f \in below}
    BY DEF Disk!Listing
  <1>4. ASSUME NEW path
        PROVE  Disk!is_directory_connection(s.w, [conn EXCEPT !.path = <<path>>])
                 <=> IF FromDisk(s) THEN Disk!IsDir(s.w.local, path.parts) ELSE path.slash \/ path.parts = <<>>
    <2> DEFINE c == [conn EXCEPT !.path = <<path>>]
    <2>1. c.path = <<path>> /\ c.storage = conn.storage
      BY ThereFits DEF IsConnection
    <2> HIDE DEF c
    <2>2. c.path # <<>> /\ c.path[1] = path /\ Disk!storage_type(c) = Disk!storage_type(conn)
      BY <2>1 DEF Disk!storage_type
    <2>3. Disk!storage_type(conn) = IF FromDisk(s) THEN "local" ELSE "s3"
      BY DEF FromDisk, Disk!storage_type
    <2>4. Disk!is_directory_connection(s.w, c)
            <=> IF FromDisk(s) THEN Disk!IsDir(s.w.local, path.parts) ELSE path.slash \/ path.parts = <<>>
      BY <2>2, <2>3 DEF Disk!is_directory_connection
    <2>. QED  BY <2>4 DEF c
  <1>5. CASE FromDisk(s)
    <2>1. There(s) = s.w.local
      BY <1>5, ThereFits
    <2>2. ASSUME NEW f \in below
          PROVE  Entry(f).is_dir <=> Disk!is_directory_connection(s.w, [conn EXCEPT !.path = <<Entry(f).path>>])
      <3>1. Disk!is_directory_connection(s.w, [conn EXCEPT !.path = <<Entry(f).path>>])
              <=> Disk!IsDir(s.w.local, Entry(f).path.parts)
        BY <1>4, <1>5
      <3>2. CASE Len(f) > Len(dir) + 1
        BY <1>2, <2>1, <3>1, <3>2 DEF Disk!IsDir
      <3>3. CASE ~(Len(f) > Len(dir) + 1)
        BY <1>2, <2>1, <3>1, <3>3, ThereFits
      <3>. QED  BY <3>2, <3>3
    <2>3. Disk!browse_local(s.w, dir) = {Entry(f) : f \in below}
      BY <1>3, <2>1 DEF Disk!browse_local
    <2>. QED  BY <1>5, <2>2, <2>3 DEF BrowsedConnects, dir
  <1>6. CASE ~FromDisk(s)
    <2>1. There(s) = s.w.bucket /\ Disk!storage_type(conn) = "s3"
      BY <1>6, ThereFits
    <2> DEFINE Key(f) == [Entry(f) EXCEPT !.path.slash = Entry(f).is_dir]
    <2>2. ASSUME NEW f \in below
          PROVE  Key(f).is_dir <=> Disk!is_directory_connection(s.w, [conn EXCEPT !.path = <<Key(f).path>>])
      <3>1. Disk!is_directory_connection(s.w, [conn EXCEPT !.path = <<Key(f).path>>])
              <=> Key(f).path.slash \/ Key(f).path.parts = <<>>
        BY <1>4, <1>6
      <3>2. Key(f).path.parts # <<>> /\ Key(f).path.slash = Key(f).is_dir
        BY <1>2
      <3>. QED  BY <3>1, <3>2
    <2>3. Disk!browse_s3(s.w, dir) = {Key(f) : f \in below}
      <3> DEFINE Slashed(e) == [e EXCEPT !.path.slash = e.is_dir]
      <3>1. Disk!browse_s3(s.w, dir) = {Slashed(e) : e \in {Entry(f) : f \in below}}
        BY <1>3, <2>1, Zenon DEF Disk!browse_s3
      <3>2. \A f : Key(f) = Slashed(Entry(f))
        BY Zenon
      <3> HIDE DEF Slashed, Key, Entry, below
      <3>. QED  BY <3>1, <3>2
    <2>. QED  BY <1>6, <2>2, <2>3 DEF BrowsedConnects, dir
  <1>. QED  BY <1>5, <1>6

\* Every question about files is about one of the sources.
FilesInv == question.about = "files" => question.input \in FileSources

\* Whatever files there are and whatever connection leads to them, what is offered opens.
THEOREM ProvedSpecOfferedOpens == ProvedSpec => []OfferedOpens
  <1>1. Unasked => FilesInv
    BY DEF Unasked, FilesInv
  <1>2. FilesInv /\ [ProvedNext]_question => FilesInv'
    <2>. SUFFICES ASSUME FilesInv, [ProvedNext]_question PROVE FilesInv'
      OBVIOUS
    <2>1. CASE AskFiles
      BY <2>1 DEF AskFiles, Asks, FilesInv
    <2>2. CASE question' = question
      BY <2>2 DEF FilesInv
    <2>3. CASE question'.about # "files"
      BY <2>3 DEF FilesInv
    <2>. QED  BY <2>1, <2>2, <2>3, WhatIsAsked
  <1>3. FilesInv => OfferedOpens
    BY OfferedOpened, TestedShown, FoundShown, BrowsedConnect, Zenon DEF FilesInv, OfferedOpens
  <1>. QED  BY <1>1, <1>2, <1>3, PTL DEF ProvedSpec
=============================================================================
