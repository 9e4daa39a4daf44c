-------------------------- MODULE Sessions_proofs ---------------------------
(***************************************************************************)
(* Proofs about sessions and their caches, for any number of sessions,     *)
(* replicas and requests, and any ttl, timeout and lifetime.               *)
(***************************************************************************)
EXTENDS Sessions, TLAPS

LoginSteps == {"create", "cacheNew", "cleanup"}

\* A request under way has a session and is within its deadline; a login is
\* the only request of a token nobody else has.
RequestOK(r) ==
  /\ pc[r] # "idle" =>
       sess[r] \in Sessions /\ since[r] <= clock /\ clock <= since[r] + Timeout
  /\ pc[r] \in LoginSteps => token[sess[r]] = "issuing"

\* What a verification carries, and what a login is about to cache, is no
\* older than the request.
CarriedOK(r) ==
  pc[r] \in {"fill", "cacheNew"} =>
    sess[r] \in row \/ since[r] <= held[sess[r]]

\* A cache entry of a session that is gone is at most a request younger than
\* the moment it went.
EntryOK(p, j) ==
  cache[p][j] # None =>
    cache[p][j] <= clock /\ (j \in row \/ cache[p][j] <= held[j] + Timeout)

TimeInv ==
  /\ TypeOK
  /\ \A j \in Sessions : held[j] <= clock
  /\ \A r \in Requests : RequestOK(r) /\ CarriedOK(r)
  /\ \A p \in Replicas, j \in Sessions : EntryOK(p, j)

-----------------------------------------------------------------------------
LEMMA InitTimeInv == Init => TimeInv
BY SessionsAssumption
   DEF Init, TimeInv, TypeOK, RequestOK, CarriedOK, EntryOK, LoginSteps

\* Two requests of one slot do not exist; what a login is issuing is its own.
OneLogin ==
  \A q, r \in Requests :
    pc[q] \in LoginSteps /\ pc[r] \in LoginSteps /\ sess[q] = sess[r] => q = r

Inv == TimeInv /\ OneLogin

LEMMA InitInv == Init => Inv
BY InitTimeInv DEF Inv, Init, OneLogin, LoginSteps

LEMMA StepInv == Inv /\ [Next]_vars => Inv'
<1> SUFFICES ASSUME Inv, [Next]_vars PROVE Inv'
  OBVIOUS
<1>1. TypeOK /\ OneLogin /\ (\A j \in Sessions : held[j] <= clock)
  BY DEF Inv, TimeInv
<1>2. /\ \A r \in Requests : RequestOK(r) /\ CarriedOK(r)
      /\ \A p \in Replicas, j \in Sessions : EntryOK(p, j)
  BY DEF Inv, TimeInv
<1> USE SessionsAssumption
<1>3. CASE UNCHANGED vars
  BY <1>1, <1>2, <1>3
     DEF vars, Inv, TimeInv, TypeOK, OneLogin, RequestOK, CarriedOK, EntryOK
<1>4. CASE Tick
  <2>1. clock' = clock + 1 /\ clock' \in Nat /\ TypeOK'
    BY <1>1, <1>4 DEF Tick, TypeOK, request
  <2>2. ASSUME NEW r \in Requests PROVE RequestOK(r)' /\ CarriedOK(r)'
    BY <1>1, <1>2, <1>4, <2>1 DEF Tick, TypeOK, RequestOK, CarriedOK, request
  <2>3. ASSUME NEW p \in Replicas, NEW j \in Sessions PROVE EntryOK(p, j)'
    <3>1. cache[p][j] \in Nat \cup {None} /\ EntryOK(p, j) /\ clock \in Nat
      BY <1>1, <1>2 DEF TypeOK
    <3>2. QED
      BY <1>4, <2>1, <3>1 DEF Tick, EntryOK
  <2>4. OneLogin' /\ \A j \in Sessions : held'[j] <= clock'
    BY <1>1, <1>4, <2>1 DEF Tick, OneLogin, request, TypeOK
  <2>5. QED
    BY <2>1, <2>2, <2>3, <2>4 DEF Inv, TimeInv
<1>5. ASSUME NEW p \in Replicas, Restart(p) PROVE Inv'
  <2>1. TypeOK'
    BY <1>1, <1>5 DEF Restart, TypeOK, request
  <2>2. ASSUME NEW q \in Replicas, NEW j \in Sessions PROVE EntryOK(q, j)'
    <3>1. cache'[q][j] = None \/ cache'[q][j] = cache[q][j]
      BY <1>1, <1>5 DEF Restart, TypeOK
    <3>2. QED
      BY <1>2, <1>5, <3>1 DEF Restart, EntryOK
  <2>3. ASSUME NEW r \in Requests PROVE RequestOK(r)' /\ CarriedOK(r)'
    BY <1>2, <1>5 DEF Restart, RequestOK, CarriedOK, request
  <2>4. QED
    BY <1>1, <1>5, <2>1, <2>2, <2>3 DEF Restart, Inv, TimeInv, OneLogin, request
<1>6. ASSUME NEW r \in Requests, Serve(r) PROVE Inv'
  <2> DEFINE j == sess[r]
             p == rep[r]
  <2>1. clock' = clock /\ rep' = rep /\ rep[r] \in Replicas /\ clock \in Nat
    BY <1>1, <1>6 DEF Serve, Start, Goto, Answer, request, Login, CreateSession,
       CacheNew, Cleanup, Logout, DeleteSession, Uncache, Verify, Hit, Miss, Found,
       Refused, Fill, Drop, TypeOK
  <2>2. CASE \E i \in Sessions : Login(r, i) \/ Logout(r, i) \/ Verify(r, i)
    <3>1. PICK i \in Sessions : Login(r, i) \/ Logout(r, i) \/ Verify(r, i)
      BY <2>2
    <3>2. /\ \A q \in Requests : q # r => pc'[q] = pc[q]
          /\ pc'[r] \in {"create", "delete", "lookup"} /\ pc[r] = "idle"
          /\ sess' = [sess EXCEPT ![r] = i] /\ since' = [since EXCEPT ![r] = clock]
          /\ row' = row /\ cache' = cache /\ held' = held /\ settled' = settled
      BY <1>1, <3>1 DEF Login, Logout, Verify, Start, TypeOK
    <3>3. TypeOK'
      <4>1. pc' = [pc EXCEPT ![r] = pc'[r]]
        BY <1>1, <3>1 DEF Login, Logout, Verify, Start, TypeOK
      <4>2. /\ token' \in [Sessions -> {"none", "issuing", "issued", "lost"}]
            /\ issued' \in [Sessions -> Nat]
        <5>1. \/ token' = token /\ issued' = issued
              \/ /\ token' = [token EXCEPT ![i] = "issuing"]
                 /\ issued' = [issued EXCEPT ![i] = clock]
          BY <3>1 DEF Login, Logout, Verify
        <5>2. /\ token \in [Sessions -> {"none", "issuing", "issued", "lost"}]
              /\ issued \in [Sessions -> Nat]
          BY <1>1 DEF TypeOK
        <5>3. token' \in [Sessions -> {"none", "issuing", "issued", "lost"}]
          BY <5>1, <5>2
        <5>4. issued' \in [Sessions -> Nat]
          BY <2>1, <5>1, <5>2
        <5>5. QED
          BY <5>3, <5>4
      <4>3. pc' \in [Requests -> {"idle", "create", "cacheNew", "cleanup", "delete",
                                  "uncache", "lookup", "read", "fill"}]
        BY <1>1, <3>2, <4>1 DEF TypeOK
      <4>4. sess' \in [Requests -> Sessions \cup {None}] /\ since' \in [Requests -> Nat]
        BY <1>1, <2>1, <3>2 DEF TypeOK
      <4>5. QED
        BY <1>1, <2>1, <3>2, <4>2, <4>3, <4>4 DEF TypeOK
    <3>4. \A q \in Requests : pc[q] \in LoginSteps => token[sess[q]] = "issuing"
      BY <1>2 DEF RequestOK
    <3>5. /\ token' = token \/ (token[i] = "none" /\ token' = [token EXCEPT ![i] = "issuing"])
          /\ pc'[r] \in LoginSteps => token[i] = "none" /\ token'[i] = "issuing"
      BY <1>1, <3>1 DEF TypeOK, Login, Logout, Verify, Start, LoginSteps
    <3>6. \A q \in Requests : q # r =>
            pc'[q] = pc[q] /\ sess'[q] = sess[q] /\ since'[q] = since[q]
      BY <1>1, <3>2 DEF TypeOK
    <3>7. sess'[r] = i /\ since'[r] = clock
      BY <1>1, <3>2 DEF TypeOK
    <3>8. \A q \in Requests : q # r /\ pc[q] \in LoginSteps =>
            sess[q] \in Sessions /\ token'[sess[q]] = "issuing"
      BY <1>1, <1>2, <3>4, <3>5 DEF TypeOK, RequestOK, LoginSteps
    <3>9. ASSUME NEW q \in Requests PROVE RequestOK(q)' /\ CarriedOK(q)'
      BY <1>1, <1>2, <2>1, <3>2, <3>5, <3>6, <3>7, <3>8
         DEF TypeOK, RequestOK, CarriedOK, LoginSteps
    <3>10. OneLogin'
      BY <1>1, <3>4, <3>5, <3>6, <3>7 DEF OneLogin
    <3>11. \A q \in Replicas, k \in Sessions : EntryOK(q, k)'
      BY <1>2, <2>1, <3>2 DEF EntryOK
    <3>12. QED
      BY <1>1, <2>1, <3>2, <3>3, <3>9, <3>10, <3>11 DEF Inv, TimeInv
  <2>3. CASE ~\E i \in Sessions : Login(r, i) \/ Logout(r, i) \/ Verify(r, i)
    <3>1. /\ pc[r] # "idle" /\ j \in Sessions
          /\ since[r] <= clock /\ clock <= since[r] + Timeout /\ since[r] \in Nat
          /\ \A q \in Requests : q # r =>
               pc'[q] = pc[q] /\ sess'[q] = sess[q] /\ since'[q] = since[q]
          /\ pc'[r] # "idle" => sess'[r] = sess[r] /\ since'[r] = since[r]
          /\ pc'[r] \in LoginSteps => pc[r] \in LoginSteps
      BY <1>1, <1>2, <1>6, <2>3 DEF Serve, Goto, Answer, request, CreateSession,
         CacheNew, Cleanup, DeleteSession, Uncache, Hit, Miss, Found,
         Refused, Fill, Drop, TypeOK, RequestOK, LoginSteps
    <3>2. TypeOK'
      <4>7. /\ sess' = sess \/ sess' = [sess EXCEPT ![r] = None]
            /\ since' = since \/ since' = [since EXCEPT ![r] = 0]
        BY <1>1, <1>6, <2>3 DEF Serve, Goto, Answer, request, CreateSession,
         CacheNew, Cleanup, DeleteSession, Uncache, Hit, Miss, Found,
         Refused, Fill, Drop
      <4>8. sess' \in [Requests -> Sessions \cup {None}]
        BY <1>1, <4>7 DEF TypeOK
      <4>1. /\ sess' \in [Requests -> Sessions \cup {None}]
            /\ since' \in [Requests -> Nat]
        BY <1>1, <4>7, <4>8 DEF TypeOK
      <4>6. pc' \in [Requests -> {"idle", "create", "cacheNew", "cleanup", "delete",
                                  "uncache", "lookup", "read", "fill"}]
        BY <1>1, <1>6, <2>3 DEF Serve, Goto, Answer, request, CreateSession,
         CacheNew, Cleanup, DeleteSession, Uncache, Hit, Miss, Found,
         Refused, Fill, Drop, TypeOK
      <4>2. cache' \in [Replicas -> [Sessions -> Nat \cup {None}]]
        BY <1>1, <1>6, <2>1, <2>3, <3>1 DEF Serve, CreateSession,
         CacheNew, Cleanup, DeleteSession, Uncache, Hit, Miss, Found,
         Refused, Fill, Drop, TypeOK, Cached
      <4>3. row' \in SUBSET Sessions
        BY <1>1, <1>6, <2>3, <3>1 DEF Serve, CreateSession,
         CacheNew, Cleanup, DeleteSession, Uncache, Hit, Miss, Found,
         Refused, Fill, Drop, TypeOK, Remove
      <4>9. held' \in [Sessions -> Nat]
        BY <1>1, <1>6, <2>3, <3>1 DEF Serve, CreateSession,
         CacheNew, Cleanup, DeleteSession, Uncache, Hit, Miss, Found,
         Refused, Fill, Drop, TypeOK, Remove
      <4>10. issued' \in [Sessions -> Nat]
        BY <1>1, <1>6, <2>3, <3>1 DEF Serve, CreateSession,
         CacheNew, Cleanup, DeleteSession, Uncache, Hit, Miss, Found,
         Refused, Fill, Drop, TypeOK, Remove
      <4>4. /\ token' \in [Sessions -> {"none", "issuing", "issued", "lost"}]
            /\ settled' \in SUBSET (Replicas \X Sessions)
        BY <1>1, <1>6, <2>1, <2>3, <3>1 DEF Serve, CreateSession,
         CacheNew, Cleanup, DeleteSession, Uncache, Hit, Miss, Found,
         Refused, Fill, Drop, TypeOK, Lost
      <4>5. QED
        BY <1>1, <2>1, <4>1, <4>2, <4>3, <4>4, <4>6, <4>9, <4>10 DEF TypeOK
    <3>3. /\ held' \in [Sessions -> Nat]
          /\ \A k \in Sessions : held'[k] = held[k] \/ held'[k] = clock
      BY <1>1, <1>6, <2>3, <3>1, <3>2 DEF Serve, CreateSession,
         CacheNew, Cleanup, DeleteSession, Uncache, Hit, Miss, Found,
         Refused, Fill, Drop, TypeOK, Remove
    <3>4. \A k \in Sessions : k \in row => k \in row' \/ held'[k] = clock
      BY <1>1, <1>6, <2>3, <3>1 DEF Serve, CreateSession,
         CacheNew, Cleanup, DeleteSession, Uncache, Hit, Miss, Found,
         Refused, Fill, Drop, TypeOK, Remove
    <3>5. ASSUME NEW k \in Sessions
          PROVE  held[k] \in Nat /\ held[k] <= clock /\ held[k] <= held'[k]
      <4>1. held[k] \in Nat /\ held[k] <= clock
        BY <1>1 DEF TypeOK
      <4>2. QED
        BY <2>1, <3>3, <4>1
    <3>6. /\ pc'[r] = "cacheNew" => held'[j] = clock
          /\ pc'[r] = "fill" => j \in row'
      BY <1>1, <1>6, <2>3, <3>1 DEF Serve, Goto, Answer, CreateSession,
         CacheNew, Cleanup, DeleteSession, Uncache, Hit, Miss, Found,
         Refused, Fill, Drop, TypeOK
    <3>7. ASSUME NEW q \in Requests PROVE CarriedOK(q)'
      <4>1. CASE q = r
        BY <3>1, <3>6, <4>1 DEF CarriedOK
      <4>2. CASE q # r
        <5>1. CarriedOK(q) /\ RequestOK(q) /\ since[q] \in Nat
          BY <1>1, <1>2 DEF TypeOK
        <5>2. QED
          BY <1>1, <2>1, <3>1, <3>3, <3>4, <3>5, <4>2, <5>1 DEF CarriedOK, RequestOK
      <4>3. QED
        BY <4>1, <4>2
    <3>8. ASSUME NEW q \in Requests PROVE RequestOK(q)'
      <4>1. \/ token' = token
            \/ /\ pc[r] \in LoginSteps /\ pc'[r] = "idle"
               /\ \A k \in Sessions : k # j => token'[k] = token[k]
        BY <1>1, <1>6, <2>3, <3>1 DEF Serve, Goto, Answer, CreateSession,
         CacheNew, Cleanup, DeleteSession, Uncache, Hit, Miss, Found,
         Refused, Fill, Drop, Lost, TypeOK, LoginSteps
      <4>2. pc'[q] \in LoginSteps => pc[q] \in LoginSteps /\ sess'[q] = sess[q]
        BY <3>1 DEF LoginSteps
      <4>3. pc'[q] \in LoginSteps => token'[sess'[q]] = "issuing"
        BY <1>1, <1>2, <3>1, <4>1, <4>2 DEF RequestOK, OneLogin, LoginSteps
      <4>4. QED
        BY <1>2, <2>1, <3>1, <4>3 DEF RequestOK
    <3>9. OneLogin'
      BY <1>1, <3>1 DEF OneLogin, LoginSteps
    <3>10. ASSUME NEW q \in Replicas, NEW k \in Sessions PROVE EntryOK(q, k)'
      <4>1. \/ cache'[q][k] \in {cache[q][k], None}
            \/ q = p /\ k = j /\ pc[r] \in {"fill", "cacheNew"} /\ cache'[q][k] = clock
        BY <1>1, <1>6, <2>1, <2>3, <3>1 DEF Serve, CreateSession,
         CacheNew, Cleanup, DeleteSession, Uncache, Hit, Miss, Found,
         Refused, Fill, Drop, TypeOK, Cached
      <4>2. cache[q][k] \in Nat \cup {None} /\ EntryOK(q, k)
        BY <1>1, <1>2 DEF TypeOK
      <4>3. held[k] \in Nat /\ held'[k] \in Nat /\ held[k] <= held'[k] /\ held[k] <= clock
        BY <3>3, <3>5
      <4>4. CASE cache'[q][k] = cache[q][k] \/ cache'[q][k] = None
        BY <2>1, <3>3, <3>4, <4>2, <4>3, <4>4 DEF EntryOK
      <4>5. CASE k = j /\ pc[r] \in {"fill", "cacheNew"} /\ cache'[q][k] = clock
        <5>1. j \in row \/ since[r] <= held[j]
          BY <1>2, <4>5 DEF CarriedOK
        <5>2. clock <= held'[j] + Timeout \/ j \in row'
          BY <2>1, <3>1, <3>3, <3>4, <4>3, <4>5, <5>1
        <5>3. QED
          BY <2>1, <4>5, <5>2 DEF EntryOK
      <4>6. QED
        BY <4>1, <4>4, <4>5
    <3>11. QED
      BY <1>1, <2>1, <3>2, <3>3, <3>7, <3>8, <3>9, <3>10 DEF Inv, TimeInv
  <2>4. QED
    BY <2>2, <2>3
<1>7. QED
  BY <1>3, <1>4, <1>5, <1>6 DEF Next

THEOREM AlwaysInv == Spec => []Inv
BY InitInv, StepInv, PTL DEF Spec

\* A session that has left the store is accepted for no longer than one
\* request and one ttl (verify, LocalSessionCache).
THEOREM AcceptedOnlyInTime == Spec => AcceptedInTime
<1>1. ASSUME Inv, NEW r \in Requests, Hit(r) \/ Fill(r), sess[r] \notin row
      PROVE  clock <= held[sess[r]] + Timeout + TTL
  <2> DEFINE j == sess[r]
             p == rep[r]
  <2>1. /\ TypeOK /\ pc[r] # "idle" /\ RequestOK(r) /\ CarriedOK(r)
        /\ p \in Replicas
    BY <1>1 DEF Inv, TimeInv, TypeOK, Hit, Fill
  <2>2. /\ j \in Sessions /\ held[j] \in Nat /\ since[r] \in Nat /\ clock \in Nat
        /\ clock <= since[r] + Timeout
    BY <2>1 DEF TypeOK, RequestOK
  <2>3. CASE Hit(r)
    <3>1. EntryOK(p, j) /\ cache[p][j] \in Nat \cup {None} /\ Fresh(p, j)
      BY <1>1, <2>1, <2>2, <2>3 DEF Inv, TimeInv, TypeOK, Hit
    <3>2. QED
      BY <1>1, <2>2, <3>1, SessionsAssumption DEF EntryOK, Fresh
  <2>4. CASE Fill(r)
    <3>1. since[r] <= held[j]
      BY <1>1, <2>1, <2>4 DEF Fill, CarriedOK
    <3>2. QED
      BY <2>2, <3>1, SessionsAssumption
  <2>5. QED
    BY <1>1, <2>3, <2>4
<1>2. Inv /\ [Next]_vars =>
        [\A r \in Requests : (Hit(r) \/ Fill(r)) /\ sess[r] \notin row =>
           clock <= held[sess[r]] + Timeout + TTL]_vars
  BY <1>1
<1>3. QED
  BY <1>2, AlwaysInv, PTL DEF Spec, AcceptedInTime

-----------------------------------------------------------------------------
\* Where a logout has settled there is no row to read, nothing to cache and
\* nothing cached, and no login to bring it back.
SettledOK ==
  \A p \in Replicas, j \in Sessions : <<p, j>> \in settled =>
    /\ cache[p][j] = None /\ j \notin row
    /\ token[j] = "issued"
    /\ \A r \in Requests : pc[r] = "fill" => rep[r] # p \/ sess[r] # j

\* A logout is about a token that was issued.
LogoutOK ==
  \A r \in Requests : pc[r] \in {"delete", "uncache", "lookup", "read", "fill"} =>
    token[sess[r]] = "issued"

LEMMA StepSettled ==
  Inv /\ LogoutOK /\ SettledOK /\ [Next]_vars => LogoutOK' /\ SettledOK'
<1> SUFFICES ASSUME Inv, LogoutOK, SettledOK, [Next]_vars
             PROVE  LogoutOK' /\ SettledOK'
  OBVIOUS
<1>1. /\ TypeOK
      /\ \A r \in Requests : pc[r] # "idle" => sess[r] \in Sessions
      /\ \A r \in Requests : pc[r] \in LoginSteps => token[sess[r]] = "issuing"
  BY DEF Inv, TimeInv, RequestOK
<1>2. CASE UNCHANGED vars \/ Tick
  BY <1>2 DEF vars, Tick, LogoutOK, SettledOK, request
<1>3. ASSUME NEW p \in Replicas, Restart(p) PROVE LogoutOK' /\ SettledOK'
  BY <1>1, <1>3 DEF Restart, LogoutOK, SettledOK, TypeOK, request
<1>4. ASSUME NEW r \in Requests, Serve(r) PROVE LogoutOK' /\ SettledOK'
  <2>1. ASSUME NEW j \in Sessions, token[j] = "issued" PROVE token'[j] = "issued"
    BY <1>1, <1>4, <2>1 DEF Serve, Login, CreateSession,
       CacheNew, Cleanup, Logout, DeleteSession, Uncache, Verify, Hit, Miss, Found,
       Refused, Fill, Drop, Lost, TypeOK, LoginSteps
  <2>2. ASSUME NEW q \in Requests, q # r
        PROVE  pc'[q] = pc[q] /\ sess'[q] = sess[q] /\ rep'[q] = rep[q]
    BY <1>1, <1>4, <2>2 DEF Serve, Start, Goto, Answer, request, Login, CreateSession,
       CacheNew, Cleanup, Logout, DeleteSession, Uncache, Verify, Hit, Miss, Found,
       Refused, Fill, Drop, TypeOK
  <2>3. pc'[r] \in {"delete", "uncache", "lookup", "read", "fill"} =>
          token[sess'[r]] = "issued" /\ sess'[r] \in Sessions
    BY <1>1, <1>4 DEF Serve, Start, Goto, Answer, request, Login, CreateSession,
       CacheNew, Cleanup, Logout, DeleteSession, Uncache, Verify, Hit, Miss, Found,
       Refused, Fill, Drop, TypeOK, Valid, LogoutOK
  <2>4. LogoutOK'
    BY <1>1, <2>1, <2>2, <2>3 DEF LogoutOK
  <2>5. /\ rep' = rep /\ rep[r] \in Replicas
        /\ pc'[r] = "fill" => sess'[r] = sess[r] /\ sess[r] \in row
    BY <1>1, <1>4 DEF Serve, Start, Goto, Answer, request, Login, CreateSession,
       CacheNew, Cleanup, Logout, DeleteSession, Uncache, Verify, Hit, Miss, Found,
       Refused, Fill, Drop, TypeOK
  <2>6. ASSUME NEW j \in Sessions, j \notin row, token[j] = "issued" PROVE j \notin row'
    BY <1>1, <1>4, <2>6 DEF Serve, Login, CreateSession,
       CacheNew, Cleanup, Logout, DeleteSession, Uncache, Verify, Hit, Miss, Found,
       Refused, Fill, Drop, Remove, TypeOK, LoginSteps
  <2>7. ASSUME NEW p \in Replicas, NEW j \in Sessions, <<p, j>> \in settled
        PROVE  /\ cache'[p][j] = None /\ j \notin row' /\ token'[j] = "issued"
               /\ \A q \in Requests : pc'[q] = "fill" => rep'[q] # p \/ sess'[q] # j
    <3>1. /\ cache[p][j] = None /\ j \notin row /\ token[j] = "issued"
          /\ \A q \in Requests : pc[q] = "fill" => rep[q] # p \/ sess[q] # j
      BY <2>7 DEF SettledOK
    <3>2. cache'[p][j] = None
      BY <1>1, <1>4, <3>1 DEF Serve, Login, CreateSession,
       CacheNew, Cleanup, Logout, DeleteSession, Uncache, Verify, Hit, Miss, Found,
       Refused, Fill, Drop, Cached, TypeOK, LoginSteps
    <3>3. QED
      BY <2>1, <2>2, <2>5, <2>6, <3>1, <3>2
  <2>8. ASSUME NEW p \in Replicas, NEW j \in Sessions,
               <<p, j>> \in settled', <<p, j>> \notin settled
        PROVE  /\ cache'[p][j] = None /\ j \notin row' /\ token'[j] = "issued"
               /\ \A q \in Requests : pc'[q] = "fill" => rep'[q] # p \/ sess'[q] # j
    <3>1. /\ Uncache(r) /\ p = rep[r] /\ j = sess[r] /\ j \notin row
          /\ \A q \in Requests : pc[q] = "fill" => rep[q] # p \/ sess[q] # j
      BY <1>1, <1>4, <2>8 DEF Serve, Login, CreateSession,
       CacheNew, Cleanup, Logout, DeleteSession, Uncache, Verify, Hit, Miss, Found,
       Refused, Fill, Drop
    <3>2. cache'[p][j] = None /\ row' = row /\ token' = token /\ token[j] = "issued"
      BY <1>1, <3>1 DEF Uncache, TypeOK, LogoutOK
    <3>3. QED
      BY <2>2, <2>5, <3>1, <3>2
  <2>9. SettledOK'
    BY <2>7, <2>8 DEF SettledOK
  <2>10. QED
    BY <2>4, <2>9
<1>5. QED
  BY <1>2, <1>3, <1>4 DEF Next

\* After a logout on a replica that nothing was about to undo, the replica
\* never caches the session again (logout, verify).
THEOREM SettledStays == Spec => []SettledIsFinal
<1>1. Init => LogoutOK /\ SettledOK
  BY DEF Init, LogoutOK, SettledOK
<1>2. SettledOK => SettledIsFinal
  BY DEF SettledOK, SettledIsFinal
<1>3. QED
  BY <1>1, <1>2, StepSettled, AlwaysInv, PTL DEF Spec
=============================================================================
