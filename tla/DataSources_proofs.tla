------------------------- MODULE DataSources_proofs -------------------------
(***************************************************************************)
(* Proofs about data sources, for any names, servers, contents, replicas   *)
(* and requests.                                                           *)
(***************************************************************************)
EXTENDS DataSources, TLAPS

ReadReqs == [step : {"read"}, p : Replicas, n : Names]
LinkReqs == [step : {"look", "connect"}, p : Replicas, n : Names, key : Names, kind : Links, at : Servers]
FileReqs == [step : {"truncate", "fill", "insert"}, p : Replicas, n : Names, content : Contents]
LinkRows == [kind : Links, at : Servers]
FileRows == [kind : {"file"}, at : Contents]

\* What a request has read of a row that has not changed is still so, and it
\* looks under the name of the source unless it draws a map.
RequestsFit ==
  \A r \in Requests :
    LET q == req[r] IN
    q.step \in {"look", "connect"} =>
      /\ q.n \notin changed[q.p] => row[q.n] = [kind |-> q.kind, at |-> q.at]
      /\ q.key # q.n => q.kind = "pool" /\ q.key \in Tables
      /\ q.step = "connect" => q.kind # "pool"

\* An upload whose file is not shared has it to itself: there is no uploaded
\* source with that file, and what it has filled it with is still there.
UploadsFit ==
  \A r \in Requests :
    LET q == req[r] IN
    q.step \in {"truncate", "fill", "insert"} /\ FileOf[q.n] \notin shared =>
      /\ Uploading(FileOf[q.n]) = {r}
      /\ \A m \in Names : FileOf[m] = FileOf[q.n] => row[m] \notin FileRows
      /\ q.step = "insert" => file[FileOf[q.n]] = q.content

IInv == TypeOK /\ ConnFits /\ AsUploaded /\ RequestsFit /\ UploadsFit

LEMMA Apart ==
  /\ None \notin LinkRows \cup FileRows \cup Servers \cup Contents
  /\ \A v \in LinkRows : v \notin FileRows
  /\ \A q \in ReadReqs \cup LinkReqs \cup FileReqs : q # Idle
BY DataSourcesAssumption DEF LinkRows, FileRows, Rows, Kinds, Links, ReadReqs, LinkReqs, FileReqs, Idle

LEMMA InitIInv == Init => IInv
BY DataSourcesAssumption DEF Init, IInv, TypeOK, ConnFits, AsUploaded, RequestsFit, UploadsFit, NoConn, Idle

-----------------------------------------------------------------------------
(* Types.                                                                  *)

LEMMA TypeStep == TypeOK /\ [Next]_vars => TypeOK'
<1> SUFFICES ASSUME TypeOK, [Next]_vars PROVE TypeOK'
  OBVIOUS
<1> USE DataSourcesAssumption
<1>1. /\ row \in [Names -> LinkRows \cup FileRows \cup {None}]
      /\ conn \in [Replicas -> [Links -> [Names -> Servers \cup {None}]]]
      /\ file \in [Files -> Contents \cup {Torn, None}]
      /\ req \in [Requests -> {Idle} \cup ReadReqs \cup LinkReqs \cup FileReqs]
      /\ events \in 0..MaxEvents /\ changed \in [Replicas -> SUBSET Names] /\ shared \in SUBSET Files
  BY DEF TypeOK, LinkRows, FileRows, ReadReqs, LinkReqs, FileReqs
<1>2. ASSUME /\ row' \in [Names -> LinkRows \cup FileRows \cup {None}]
             /\ conn' \in [Replicas -> [Links -> [Names -> Servers \cup {None}]]]
             /\ file' \in [Files -> Contents \cup {Torn, None}]
             /\ req' \in [Requests -> {Idle} \cup ReadReqs \cup LinkReqs \cup FileReqs]
             /\ events' \in 0..MaxEvents /\ changed' \in [Replicas -> SUBSET Names] /\ shared' \in SUBSET Files
      PROVE TypeOK'
  BY <1>2 DEF TypeOK, LinkRows, FileRows, ReadReqs, LinkReqs, FileReqs
<1>3. Count => events' \in 0..MaxEvents
  BY <1>1 DEF Count
<1>4. ASSUME NEW r, NEW q \in {Idle} \cup ReadReqs \cup LinkReqs \cup FileReqs, Step(r, q)
      PROVE  req' \in [Requests -> {Idle} \cup ReadReqs \cup LinkReqs \cup FileReqs]
  BY <1>1, <1>4 DEF Step
<1>5. ASSUME NEW n \in Names, NEW v \in LinkRows \cup FileRows \cup {None}, SetRow(n, v)
      PROVE  row' \in [Names -> LinkRows \cup FileRows \cup {None}] /\ changed' \in [Replicas -> SUBSET Names]
  BY <1>1, <1>5 DEF SetRow
<1>6. CASE UNCHANGED vars
  BY <1>1, <1>2, <1>6 DEF vars
<1>7. ASSUME NEW n \in Names, Rest(n) PROVE TypeOK'
  <2>1. \A k \in Links, s \in Servers : [kind |-> k, at |-> s] \in LinkRows
    BY DEF LinkRows
  <2>2. QED
    BY <1>1, <1>2, <1>3, <1>5, <1>7, <2>1 DEF Rest, Create, Update, Delete
<1>8. ASSUME NEW r \in Requests, NEW p \in Replicas, NEW n \in Names, Arrive(r, p, n) PROVE TypeOK'
  <2>1. ASSUME NEW key \in Names, Query(r, p, n, key) PROVE TypeOK'
    <3>1. row[n] \in LinkRows
      BY <1>1, <2>1 DEF Query, FileRows
    <3>2. [step |-> "look", p |-> p, n |-> n, key |-> key, kind |-> row[n].kind, at |-> row[n].at] \in LinkReqs
      BY <3>1 DEF LinkRows, LinkReqs
    <3>3. req' \in [Requests -> {Idle} \cup ReadReqs \cup LinkReqs \cup FileReqs]
      BY <1>4, <2>1, <3>2 DEF Query
    <3>4. QED
      BY <1>1, <1>2, <1>3, <2>1, <3>3 DEF Query
  <2>2. ASSUME Tile(r, p, n) PROVE TypeOK'
    <3>1. [step |-> "read", p |-> p, n |-> n] \in ReadReqs
      BY DEF ReadReqs
    <3>2. req' \in [Requests -> {Idle} \cup ReadReqs \cup LinkReqs \cup FileReqs]
      BY <1>4, <2>2, <3>1 DEF Tile
    <3>3. QED
      BY <1>1, <1>2, <1>3, <2>2, <3>2 DEF Tile
  <2>3. ASSUME NEW c \in Contents, Upload(r, p, n, c) PROVE TypeOK'
    <3>1. [step |-> "truncate", p |-> p, n |-> n, content |-> c] \in FileReqs
      BY DEF FileReqs
    <3>2. req' \in [Requests -> {Idle} \cup ReadReqs \cup LinkReqs \cup FileReqs]
      BY <1>4, <2>3, <3>1 DEF Upload, Begin
    <3>3. shared' \in SUBSET Files
      BY <1>1, <2>3 DEF Upload, Begin
    <3>4. QED
      BY <1>1, <1>2, <1>3, <2>3, <3>2, <3>3 DEF Upload, Begin
  <2>4. QED
    BY <1>8, <2>1, <2>2, <2>3 DEF Arrive
<1>9. ASSUME NEW r \in Requests, Continue(r) PROVE TypeOK'
  <2> DEFINE q == req[r]
  <2>1. q \in {Idle} \cup ReadReqs \cup LinkReqs \cup FileReqs
    BY <1>1
  <2>2. /\ q.step = "read" => q \in ReadReqs
        /\ q.step \in {"look", "connect"} => q \in LinkReqs
        /\ q.step \in {"truncate", "fill", "insert"} => q \in FileReqs
    BY <2>1 DEF Idle, ReadReqs, LinkReqs, FileReqs
  <2>3. CASE UsePool(r) \/ KeepClient(r)
    <3>1. req' \in [Requests -> {Idle} \cup ReadReqs \cup LinkReqs \cup FileReqs]
      BY <1>4, <2>3 DEF UsePool, KeepClient
    <3>2. q.p \in Replicas /\ q.key \in Names /\ q.kind \in Links /\ q.at \in Servers
      BY <2>2, <2>3 DEF UsePool, KeepClient, LinkReqs
    <3>3. conn' \in [Replicas -> [Links -> [Names -> Servers \cup {None}]]]
      <4>1. conn' = conn \/ conn' = [conn EXCEPT ![q.p][q.kind][q.key] = q.at]
        BY <2>3 DEF UsePool, KeepClient
      <4>2. [conn[q.p][q.kind] EXCEPT ![q.key] = q.at] \in [Names -> Servers \cup {None}]
        BY <1>1, <3>2
      <4>3. [conn[q.p] EXCEPT ![q.kind] = [@ EXCEPT ![q.key] = q.at]] \in [Links -> [Names -> Servers \cup {None}]]
        BY <1>1, <3>2, <4>2
      <4>4. QED
        BY <1>1, <3>2, <4>1, <4>3
    <3>4. QED
      BY <1>1, <1>2, <2>3, <3>1, <3>3 DEF UsePool, KeepClient
  <2>4. CASE LookClient(r)
    <3>1. q \in LinkReqs
      BY <2>2, <2>4 DEF LookClient
    <3>2. [q EXCEPT !.step = "connect"] \in LinkReqs
      BY <3>1 DEF LinkReqs
    <3>3. req' \in [Requests -> {Idle} \cup ReadReqs \cup LinkReqs \cup FileReqs]
      BY <1>4, <2>4, <3>2 DEF LookClient
    <3>4. QED
      BY <1>1, <1>2, <2>4, <3>3 DEF LookClient
  <2>5. CASE ReadCache(r)
    <3>1. q \in ReadReqs
      BY <2>2, <2>5 DEF ReadCache
    <3>2. row[q.n] # None /\ row[q.n].kind = "redis" => row[q.n] \in LinkRows
      BY <1>1, <3>1 DEF ReadReqs, FileRows
    <3>3. row[q.n] # None /\ row[q.n].kind = "redis" =>
            [step |-> "connect", p |-> q.p, n |-> q.n, key |-> q.n, kind |-> "redis", at |-> row[q.n].at] \in LinkReqs
      BY <3>1, <3>2 DEF ReadReqs, LinkReqs, LinkRows, Links
    <3>4. req' \in [Requests -> {Idle} \cup ReadReqs \cup LinkReqs \cup FileReqs]
      BY <1>4, <2>5, <3>3 DEF ReadCache
    <3>5. QED
      BY <1>1, <1>2, <2>5, <3>4 DEF ReadCache
  <2>6. CASE Truncate(r) \/ Fill(r)
    <3>1. q \in FileReqs
      BY <2>2, <2>6 DEF Truncate, Fill
    <3>2. q.n \in Names /\ q.content \in Contents
          /\ \A s \in {"fill", "insert"} : [q EXCEPT !.step = s] \in FileReqs
      BY <3>1 DEF FileReqs
    <3>3. req' \in [Requests -> {Idle} \cup ReadReqs \cup LinkReqs \cup FileReqs]
      BY <1>4, <2>6, <3>2 DEF Truncate, Fill
    <3>4. file' \in [Files -> Contents \cup {Torn, None}]
      BY <1>1, <2>6, <3>2 DEF Truncate, Fill
    <3>5. QED
      BY <1>1, <1>2, <2>6, <3>3, <3>4 DEF Truncate, Fill
  <2>7. CASE Insert(r)
    <3>1. q \in FileReqs
      BY <2>2, <2>7 DEF Insert
    <3>2. q.n \in Names /\ [kind |-> "file", at |-> q.content] \in FileRows
      BY <3>1 DEF FileReqs, FileRows
    <3>3. row' \in [Names -> LinkRows \cup FileRows \cup {None}] /\ changed' \in [Replicas -> SUBSET Names]
      BY <1>1, <1>5, <2>7, <3>2 DEF Insert
    <3>4. req' \in [Requests -> {Idle} \cup ReadReqs \cup LinkReqs \cup FileReqs]
      BY <1>4, <2>7 DEF Insert
    <3>5. QED
      BY <1>1, <1>2, <2>7, <3>3, <3>4 DEF Insert
  <2>8. CASE Drop(r)
    <3>1. req' \in [Requests -> {Idle} \cup ReadReqs \cup LinkReqs \cup FileReqs]
      BY <1>4, <2>8 DEF Drop
    <3>2. QED
      BY <1>1, <1>2, <2>8, <3>1 DEF Drop
  <2>9. QED
    BY <1>9, <2>3, <2>4, <2>5, <2>6, <2>7, <2>8 DEF Continue
<1>10. ASSUME NEW p \in Replicas, Restart(p) PROVE TypeOK'
  <2>1. NoConn \in [Links -> [Names -> Servers \cup {None}]]
    BY DEF NoConn
  <2>2. conn' \in [Replicas -> [Links -> [Names -> Servers \cup {None}]]] /\ changed' \in [Replicas -> SUBSET Names]
    BY <1>1, <1>10, <2>1 DEF Restart
  <2>3. QED
    BY <1>1, <1>2, <1>3, <1>10, <2>2 DEF Restart
<1>11. QED
  BY <1>6, <1>7, <1>8, <1>9, <1>10 DEF Next

-----------------------------------------------------------------------------
(* Connections.                                                            *)

\* What a request holds at a step.
LEMMA ReqTypes ==
  ASSUME TypeOK, NEW r \in Requests
  PROVE  /\ req[r].step = "read" => req[r] \in ReadReqs
         /\ req[r].step \in {"look", "connect"} => req[r] \in LinkReqs
         /\ req[r].step \in {"truncate", "fill", "insert"} => req[r] \in FileReqs
<1>1. req[r] \in {Idle} \cup ReadReqs \cup LinkReqs \cup FileReqs
  BY DEF TypeOK, ReadReqs, LinkReqs, FileReqs
<1>2. QED
  BY <1>1 DEF Idle, ReadReqs, LinkReqs, FileReqs

\* Where rows, connections and histories change.
LEMMA Effects ==
  ASSUME TypeOK, [Next]_vars
  PROVE  \/ UNCHANGED <<row, conn, changed>>
         \/ UNCHANGED conn /\ \E n \in Names : \E v : SetRow(n, v)
         \/ \E r \in Requests : UsePool(r) \/ KeepClient(r)
         \/ \E p \in Replicas : Restart(p)
<1>1. CASE UNCHANGED vars
  BY <1>1 DEF vars
<1>2. ASSUME NEW n \in Names, Rest(n) PROVE UNCHANGED conn /\ \E v : SetRow(n, v)
  BY <1>2 DEF Rest, Create, Update, Delete
<1>3. ASSUME NEW r \in Requests, NEW p \in Replicas, NEW n \in Names, Arrive(r, p, n)
      PROVE  UNCHANGED <<row, conn, changed>>
  BY <1>3 DEF Arrive, Query, Tile, Upload, Begin
<1>4. ASSUME NEW r \in Requests, Insert(r)
      PROVE  \/ UNCHANGED <<row, conn, changed>>
             \/ UNCHANGED conn /\ \E n \in Names : \E v : SetRow(n, v)
  <2>1. req[r].n \in Names
    BY <1>4, ReqTypes DEF Insert, FileReqs
  <2>2. QED
    BY <1>4, <2>1 DEF Insert
<1>5. ASSUME NEW r \in Requests, LookClient(r) \/ ReadCache(r) \/ Truncate(r) \/ Fill(r) \/ Drop(r)
      PROVE  UNCHANGED <<row, conn, changed>>
  BY <1>5 DEF LookClient, ReadCache, Truncate, Fill, Drop
<1>6. QED
  BY <1>1, <1>2, <1>3, <1>4, <1>5 DEF Next, Continue

LEMMA ConnStep == IInv /\ [Next]_vars => ConnFits'
<1> SUFFICES ASSUME IInv, [Next]_vars,
                    NEW p \in Replicas, NEW k \in Links, NEW n \in Names,
                    conn'[p][k][n] # None, n \notin changed'[p], k = "pool" => n \notin Tables
             PROVE  row'[n] = [kind |-> k, at |-> conn'[p][k][n]]
  BY DEF ConnFits
<1>1. /\ row \in [Names -> LinkRows \cup FileRows \cup {None}]
      /\ conn \in [Replicas -> [Links -> [Names -> Servers \cup {None}]]]
      /\ changed \in [Replicas -> SUBSET Names]
  BY DEF IInv, TypeOK, LinkRows, FileRows
<1>2. conn[p][k][n] # None /\ n \notin changed[p] => row[n] = [kind |-> k, at |-> conn[p][k][n]]
  BY DEF IInv, ConnFits
<1>3. CASE UNCHANGED <<row, conn, changed>>
  BY <1>2, <1>3
<1>4. CASE UNCHANGED conn /\ \E m \in Names : \E v : SetRow(m, v)
  BY <1>1, <1>2, <1>4 DEF SetRow
<1>5. ASSUME NEW r \in Requests, UsePool(r) \/ KeepClient(r)
      PROVE  row'[n] = [kind |-> k, at |-> conn'[p][k][n]]
  <2> DEFINE q == req[r]
  <2>1. q \in LinkReqs /\ q.step \in {"look", "connect"}
    BY <1>5, ReqTypes DEF IInv, UsePool, KeepClient
  <2>2. /\ q.p \in Replicas /\ q.kind \in Links /\ q.key \in Names
        /\ q.n \notin changed[q.p] => row[q.n] = [kind |-> q.kind, at |-> q.at]
        /\ q.key # q.n => q.kind = "pool" /\ q.key \in Tables
    BY <2>1 DEF IInv, RequestsFit, LinkReqs
  <2>3. UNCHANGED <<row, changed>> /\ (conn' = conn \/ conn' = [conn EXCEPT ![q.p][q.kind][q.key] = q.at])
    BY <1>5 DEF UsePool, KeepClient
  <2>4. CASE conn' = [conn EXCEPT ![q.p][q.kind][q.key] = q.at] /\ p = q.p /\ k = q.kind /\ n = q.key
    BY <1>1, <2>2, <2>3, <2>4
  <2>5. CASE conn' = [conn EXCEPT ![q.p][q.kind][q.key] = q.at] /\ ~(p = q.p /\ k = q.kind /\ n = q.key)
    <3>1. conn'[p][k][n] = conn[p][k][n]
      BY <1>1, <2>2, <2>5
    <3>2. QED
      BY <1>2, <2>3, <3>1
  <2>6. QED
    BY <1>2, <2>3, <2>4, <2>5
<1>6. ASSUME NEW s \in Replicas, Restart(s) PROVE row'[n] = [kind |-> k, at |-> conn'[p][k][n]]
  <2>1. p # s
    BY <1>1, <1>6 DEF Restart, NoConn
  <2>2. UNCHANGED row /\ conn'[p] = conn[p] /\ changed'[p] = changed[p]
    BY <1>1, <1>6, <2>1 DEF Restart
  <2>3. QED
    BY <1>2, <2>2
<1>7. QED
  BY <1>3, <1>4, <1>5, <1>6, Effects DEF IInv

LEMMA RequestsStep == IInv /\ [Next]_vars => RequestsFit'
<1> SUFFICES ASSUME IInv, [Next]_vars, NEW r \in Requests, req'[r].step \in {"look", "connect"}
             PROVE  /\ req'[r].n \notin changed'[req'[r].p] =>
                          row'[req'[r].n] = [kind |-> req'[r].kind, at |-> req'[r].at]
                    /\ req'[r].key # req'[r].n => req'[r].kind = "pool" /\ req'[r].key \in Tables
                    /\ req'[r].step = "connect" => req'[r].kind # "pool"
  BY DEF RequestsFit
<1> DEFINE q == req'[r]
<1> DEFINE Goal == /\ q.n \notin changed'[q.p] => row'[q.n] = [kind |-> q.kind, at |-> q.at]
                   /\ q.key # q.n => q.kind = "pool" /\ q.key \in Tables
                   /\ q.step = "connect" => q.kind # "pool"
<1>1. /\ row \in [Names -> LinkRows \cup FileRows \cup {None}] /\ req \in [Requests -> {Idle} \cup ReadReqs \cup LinkReqs \cup FileReqs]
      /\ changed \in [Replicas -> SUBSET Names]
  BY DEF IInv, TypeOK, LinkRows, FileRows, ReadReqs, LinkReqs, FileReqs
<1>2. ASSUME req'[r] = req[r], UNCHANGED <<row, changed>> PROVE Goal
  BY <1>2 DEF IInv, RequestsFit
<1>3. ASSUME req'[r] = req[r], NEW m \in Names, NEW v, SetRow(m, v) PROVE Goal
  <2>1. q \in LinkReqs
    BY <1>3, ReqTypes DEF IInv
  <2>2. q.p \in Replicas
    BY <2>1 DEF LinkReqs
  <2>3. QED
    BY <1>1, <1>3, <2>2 DEF IInv, RequestsFit, SetRow
<1>4. ASSUME req'[r] = req[r], NEW s \in Replicas, Restart(s) PROVE Goal
  <2>1. q.p # s /\ q \in LinkReqs
    BY <1>4, ReqTypes DEF IInv, Restart, Idle
  <2>2. changed'[q.p] = changed[q.p] /\ UNCHANGED row
    BY <1>1, <1>4, <2>1 DEF Restart, LinkReqs
  <2>3. QED
    BY <1>4, <2>2 DEF IInv, RequestsFit
<1>5. ASSUME NEW s, NEW v, Step(s, v), s # r PROVE req'[r] = req[r]
  BY <1>1, <1>5 DEF Step
<1>6. ASSUME NEW v, Step(r, v) PROVE q = v
  BY <1>1, <1>6 DEF Step
<1>7. CASE UNCHANGED vars
  BY <1>2, <1>7 DEF vars
<1>8. ASSUME NEW n \in Names, Rest(n) PROVE Goal
  BY <1>3, <1>8 DEF Rest, Create, Update, Delete
<1>9. ASSUME NEW s \in Requests, NEW p \in Replicas, NEW n \in Names, Arrive(s, p, n) PROVE Goal
  <2>1. UNCHANGED <<row, changed>> /\ \E v : Step(s, v)
    BY <1>9 DEF Arrive, Query, Tile, Upload, Begin
  <2>2. CASE s # r
    BY <1>2, <1>5, <2>1, <2>2
  <2>3. CASE s = r
    <3>a. ~Tile(r, p, n)
      <4>1. Tile(r, p, n) => q = [step |-> "read", p |-> p, n |-> n]
        BY <1>6 DEF Tile
      <4>2. QED
        BY <4>1
    <3>b. \A c \in Contents : ~Upload(r, p, n, c)
      <4>1. SUFFICES ASSUME NEW c \in Contents, Upload(r, p, n, c) PROVE FALSE
        OBVIOUS
      <4>2. q = [step |-> "truncate", p |-> p, n |-> n, content |-> c]
        BY <1>6, <4>1 DEF Upload, Begin
      <4>3. QED
        BY <4>2
    <3>1. PICK key \in Names : Query(r, p, n, key)
      BY <1>9, <2>3, <3>a, <3>b DEF Arrive
    <3>2. q = [step |-> "look", p |-> p, n |-> n, key |-> key, kind |-> row[n].kind, at |-> row[n].at]
      BY <1>6, <3>1 DEF Query
    <3>3. row[n] \in LinkRows
      BY <1>1, <3>1 DEF Query, FileRows
    <3>4. row[n] = [kind |-> row[n].kind, at |-> row[n].at]
      BY <3>3 DEF LinkRows
    <3>5. QED
      BY <2>1, <3>1, <3>2, <3>4 DEF Query
  <2>4. QED
    BY <2>2, <2>3
<1>10. ASSUME NEW s \in Requests, Continue(s) PROVE Goal
  <2>1. CASE s # r
    <3>1. req'[r] = req[r]
      BY <1>5, <1>10, <2>1 DEF Continue, UsePool, LookClient, ReadCache, KeepClient, Truncate, Fill, Insert, Drop
    <3>2. CASE Insert(s)
      <4>1. req[s].n \in Names
        BY <3>2, ReqTypes DEF IInv, Insert, FileReqs
      <4>2. QED
        BY <1>2, <1>3, <3>1, <3>2, <4>1 DEF Insert
    <3>3. CASE ~Insert(s)
      BY <1>2, <1>10, <3>1, <3>3 DEF Continue, UsePool, LookClient, ReadCache, KeepClient, Truncate, Fill, Drop
    <3>4. QED
      BY <3>2, <3>3
  <2>2. CASE s = r /\ LookClient(r)
    <3>1. q = [req[r] EXCEPT !.step = "connect"] /\ req[r] \in LinkReqs /\ req[r].step = "look"
      BY <1>6, <2>2, ReqTypes DEF IInv, LookClient, Idle
    <3>2. q.n = req[r].n /\ q.p = req[r].p /\ q.kind = req[r].kind /\ q.at = req[r].at /\ q.key = req[r].key
      BY <3>1 DEF LinkReqs
    <3>3. QED
      BY <2>2, <3>1, <3>2 DEF LookClient, IInv, RequestsFit
  <2>3. CASE s = r /\ ReadCache(r)
    <3>1. req[r] \in ReadReqs
      BY <2>3, ReqTypes DEF IInv, ReadCache
    <3>2. /\ row[req[r].n] # None /\ row[req[r].n].kind = "redis"
          /\ q = [step |-> "connect", p |-> req[r].p, n |-> req[r].n, key |-> req[r].n,
                  kind |-> "redis", at |-> row[req[r].n].at]
      BY <1>6, <2>3 DEF ReadCache, Idle
    <3>3. row[req[r].n] \in LinkRows
      BY <1>1, <3>1, <3>2 DEF ReadReqs, FileRows
    <3>4. row[req[r].n] = [kind |-> "redis", at |-> row[req[r].n].at]
      BY <3>2, <3>3 DEF LinkRows
    <3>5. QED
      BY <2>3, <3>2, <3>4 DEF ReadCache
  <2>4. CASE s = r /\ (UsePool(r) \/ KeepClient(r) \/ Insert(r) \/ Drop(r))
    <3>1. q = Idle
      BY <1>6, <2>4 DEF UsePool, KeepClient, Insert, Drop
    <3>2. QED
      BY <3>1 DEF Idle
  <2>5. CASE s = r /\ (Truncate(r) \/ Fill(r))
    <3>1. req[r] \in FileReqs
      BY <2>5, ReqTypes DEF IInv, Truncate, Fill
    <3>2. q.step \in {"fill", "insert"}
      BY <1>6, <2>5, <3>1 DEF Truncate, Fill, FileReqs
    <3>3. QED
      BY <3>2
  <2>6. QED
    BY <1>10, <2>1, <2>2, <2>3, <2>4, <2>5 DEF Continue
<1>11. ASSUME NEW s \in Replicas, Restart(s) PROVE Goal
  BY <1>4, <1>11 DEF Restart
<1>12. QED
  BY <1>7, <1>8, <1>9, <1>10, <1>11 DEF Next

-----------------------------------------------------------------------------
(* Files.                                                                  *)

FileSteps == {"truncate", "fill", "insert"}

\* A step of one request leaves the others as they are.
LEMMA OthersStay ==
  ASSUME TypeOK, NEW s \in Requests, Continue(s) \/ \E p \in Replicas, n \in Names : Arrive(s, p, n)
  PROVE  \A t \in Requests : t # s => req'[t] = req[t]
<1>1. \E v : Step(s, v)
  BY DEF Continue, UsePool, LookClient, ReadCache, KeepClient, Truncate, Fill, Insert, Drop, Arrive, Query, Tile, Upload, Begin
<1>2. QED
  BY <1>1 DEF Step, TypeOK

\* A request is at an upload after a step only if it was before, of the same
\* name, or has just come.
LEMMA Uploads ==
  ASSUME TypeOK, [Next]_vars, NEW t \in Requests, req'[t].step \in FileSteps
  PROVE  \/ req[t].step \in FileSteps /\ req[t].n = req'[t].n /\ req[t].content = req'[t].content
         \/ \E p \in Replicas, c \in Contents : Upload(t, p, req'[t].n, c)
<1>1. req \in [Requests -> {Idle} \cup ReadReqs \cup LinkReqs \cup FileReqs]
  BY DEF TypeOK, ReadReqs, LinkReqs, FileReqs
<1>2. CASE req'[t] = req[t]
  BY <1>2
<1>3. ASSUME NEW p \in Replicas, NEW n \in Names, Arrive(t, p, n)
      PROVE  \E c \in Contents : Upload(t, p, req'[t].n, c)
  <2>1. ASSUME NEW key \in Names, Query(t, p, n, key) PROVE FALSE
    BY <1>1, <2>1 DEF Query, Step, FileSteps
  <2>2. ASSUME Tile(t, p, n) PROVE FALSE
    BY <1>1, <2>2 DEF Tile, Step, FileSteps
  <2>3. ASSUME NEW c \in Contents, Upload(t, p, n, c) PROVE req'[t].n = n
    BY <1>1, <2>3 DEF Upload, Begin, Step
  <2>4. QED
    BY <1>3, <2>1, <2>2, <2>3 DEF Arrive
<1>4. ASSUME Continue(t)
      PROVE  req[t].step \in FileSteps /\ req[t].n = req'[t].n /\ req[t].content = req'[t].content
  <2>1. CASE Truncate(t) \/ Fill(t)
    <3>1. req[t] \in FileReqs
      BY <2>1, ReqTypes DEF Truncate, Fill
    <3>2. \E x \in FileSteps : req'[t] = [req[t] EXCEPT !.step = x]
      BY <1>1, <2>1 DEF Truncate, Fill, Step, FileSteps
    <3>3. QED
      BY <3>1, <3>2 DEF FileReqs, FileSteps
  <2>2. CASE LookClient(t)
    <3>1. req[t] \in LinkReqs
      BY <2>2, ReqTypes DEF LookClient
    <3>2. req'[t] \in {Idle, [req[t] EXCEPT !.step = "connect"]}
      BY <1>1, <2>2 DEF LookClient, Step
    <3>3. QED
      BY <3>1, <3>2 DEF LinkReqs, Idle, FileSteps
  <2>3. CASE ReadCache(t)
    BY <1>1, <2>3 DEF ReadCache, Step, Idle, FileSteps
  <2>4. CASE UsePool(t) \/ KeepClient(t) \/ Insert(t) \/ Drop(t)
    BY <1>1, <2>4 DEF UsePool, KeepClient, Insert, Drop, Step, Idle, FileSteps
  <2>5. QED
    BY <1>4, <2>1, <2>2, <2>3, <2>4 DEF Continue
<1>5. ASSUME NEW n \in Names, Rest(n) PROVE req' = req
  BY <1>5 DEF Rest, Create, Update, Delete
<1>6. QED
  BY <1>2, <1>3, <1>4, <1>5, OthersStay DEF Next, Restart, vars

\* A file ceases to be shared only when an upload of it begins that is alone.
LEMMA SharedEnds ==
  ASSUME [Next]_vars, NEW f, f \in shared, f \notin shared'
  PROVE  \E r \in Requests, p \in Replicas, n \in Names, c \in Contents : FileOf[n] = f /\ Upload(r, p, n, c)
<1>1. ASSUME NEW n \in Names, Rest(n) PROVE shared' = shared
  BY <1>1 DEF Rest, Create, Update, Delete
<1>2. ASSUME NEW r \in Requests, NEW p \in Replicas, NEW n \in Names, Arrive(r, p, n)
      PROVE  \E c \in Contents : FileOf[n] = f /\ Upload(r, p, n, c)
  <2>1. PICK c \in Contents : Upload(r, p, n, c)
    BY <1>2 DEF Arrive, Query, Tile
  <2>2. FileOf[n] = f
    BY <2>1 DEF Upload, Begin
  <2>3. QED
    BY <2>1, <2>2
<1>3. ASSUME NEW r \in Requests, Continue(r) PROVE shared' = shared
  BY <1>3 DEF Continue, UsePool, LookClient, ReadCache, KeepClient, Truncate, Fill, Insert, Drop
<1>4. ASSUME NEW p \in Replicas, Restart(p) PROVE shared' = shared
  BY <1>4 DEF Restart
<1>5. QED
  BY <1>1, <1>2, <1>3, <1>4 DEF Next, vars

\* An upload after whose beginning its file is not shared has found it unused.
LEMMA BeginsAlone ==
  ASSUME TypeOK, NEW r \in Requests, NEW p \in Replicas, NEW n \in Names, NEW c \in Contents,
         Upload(r, p, n, c), FileOf[n] \notin shared'
  PROVE  /\ Uploading(FileOf[n]) = {}
         /\ \A m \in Names : FileOf[m] = FileOf[n] => row[m] \notin FileRows
         /\ UNCHANGED <<row, file>>
         /\ req' = [req EXCEPT ![r] = [step |-> "truncate", p |-> p, n |-> n, content |-> c]]
<1>1. PICK answered \in BOOLEAN : (answered => row[n] = None) /\ Begin(r, p, n, c, answered)
  BY DEF Upload
<1>2. ~Shares(n, answered)
  BY <1>1 DEF Begin
<1>3. Uploading(FileOf[n]) = {} /\ row[n] = None
  BY <1>1, <1>2 DEF Shares
<1>4. ASSUME NEW m \in Names, FileOf[m] = FileOf[n], row[m] \in FileRows PROVE FALSE
  <2>1. row[m] # None /\ row[m].kind = "file"
    BY <1>4, Apart DEF FileRows
  <2>2. QED
    BY <1>2, <1>3, <1>4, <2>1 DEF Shares
<1>5. QED
  BY <1>1, <1>3, <1>4 DEF Begin, Step

\* What an upload with a file of its own holds is unchanged by the others.
LEMMA UploadsStep == IInv /\ [Next]_vars => UploadsFit'
<1> SUFFICES ASSUME IInv, [Next]_vars, NEW r \in Requests, NEW n, req'[r].n = n,
                    req'[r].step \in FileSteps, NEW f, f = FileOf[n], f \notin shared'
             PROVE  /\ Uploading(f)' = {r}
                    /\ \A m \in Names : FileOf[m] = f => row'[m] \notin FileRows
                    /\ req'[r].step = "insert" => file'[f] = req'[r].content
  BY DEF UploadsFit, FileSteps, Uploading
<1>1. /\ row \in [Names -> LinkRows \cup FileRows \cup {None}]
      /\ req \in [Requests -> {Idle} \cup ReadReqs \cup LinkReqs \cup FileReqs]
      /\ file \in [Files -> Contents \cup {Torn, None}]
  BY DEF IInv, TypeOK, LinkRows, FileRows, ReadReqs, LinkReqs, FileReqs
<1>2. n \in Names /\ f \in Files
  <2>1. TypeOK'
    BY TypeStep DEF IInv
  <2>2. req'[r] \in {Idle} \cup ReadReqs \cup LinkReqs \cup FileReqs
    BY <2>1 DEF TypeOK, ReadReqs, LinkReqs, FileReqs
  <2>3. n \in Names
    BY <2>2 DEF FileSteps, Idle, ReadReqs, LinkReqs, FileReqs
  <2>4. QED
    BY <2>3, DataSourcesAssumption
\* An upload of the file begins: it is r, since nobody else is at work on it.
<1>3. ASSUME NEW t \in Requests, NEW p \in Replicas, NEW m \in Names, NEW c \in Contents,
             Upload(t, p, m, c), FileOf[m] = f
      PROVE  /\ Uploading(f)' = {r}
             /\ \A k \in Names : FileOf[k] = f => row'[k] \notin FileRows
             /\ req'[r].step = "insert" => file'[f] = req'[r].content
  <2>1. /\ Uploading(f) = {}
        /\ \A k \in Names : FileOf[k] = f => row[k] \notin FileRows
        /\ UNCHANGED <<row, file>>
        /\ req' = [req EXCEPT ![t] = [step |-> "truncate", p |-> p, n |-> m, content |-> c]]
    BY <1>3, BeginsAlone DEF IInv
  <2>2. ASSUME NEW x \in Requests, x # t PROVE ~(req'[x].step \in FileSteps /\ FileOf[req'[x].n] = f)
    BY <1>1, <2>1, <2>2 DEF Uploading, FileSteps
  <2>3. t = r
    BY <2>2
  <2>4. req'[r] = [step |-> "truncate", p |-> p, n |-> m, content |-> c]
    BY <1>1, <2>1, <2>3
  <2>5. Uploading(f)' = {r}
    BY <2>2, <2>3 DEF Uploading, FileSteps
  <2>6. QED
    BY <2>1, <2>4, <2>5
\* No upload of the file begins.
<1>4. ASSUME \A t \in Requests, p \in Replicas, m \in Names, c \in Contents :
               Upload(t, p, m, c) => FileOf[m] # f
      PROVE  /\ Uploading(f)' = {r}
             /\ \A k \in Names : FileOf[k] = f => row'[k] \notin FileRows
             /\ req'[r].step = "insert" => file'[f] = req'[r].content
  <2>1. f \notin shared
    BY <1>4, SharedEnds
  <2>2. ASSUME NEW t \in Requests, req'[t].step \in FileSteps, FileOf[req'[t].n] = f
        PROVE  /\ req[t].step \in FileSteps /\ req[t].n = req'[t].n /\ req[t].content = req'[t].content
               /\ Uploading(f) = {t}
               /\ \A k \in Names : FileOf[k] = f => row[k] \notin FileRows
               /\ req[t].step = "insert" => file[f] = req[t].content
    <3>1. req'[t].n \in Names
      <4>1. TypeOK'
        BY TypeStep DEF IInv
      <4>2. req'[t] \in {Idle} \cup ReadReqs \cup LinkReqs \cup FileReqs
        BY <4>1 DEF TypeOK, ReadReqs, LinkReqs, FileReqs
      <4>3. QED
        BY <2>2, <4>2 DEF FileSteps, Idle, ReadReqs, LinkReqs, FileReqs
    <3>2. req[t].step \in FileSteps /\ req[t].n = req'[t].n /\ req[t].content = req'[t].content
      BY <1>4, <2>2, <3>1, Uploads DEF IInv
    <3>3. QED
      BY <2>1, <2>2, <3>2 DEF IInv, UploadsFit, FileSteps
  <2>3. /\ req[r].step \in FileSteps /\ req[r].n = n /\ req[r].content = req'[r].content
        /\ Uploading(f) = {r}
        /\ \A k \in Names : FileOf[k] = f => row[k] \notin FileRows
        /\ req[r].step = "insert" => file[f] = req[r].content
    BY <2>2
  <2>4. Uploading(f)' = {r}
    <3>1. \A t \in Uploading(f)' : t = r
      BY <2>2, <2>3 DEF Uploading, FileSteps
    <3>2. r \in Uploading(f)'
      BY DEF Uploading, FileSteps
    <3>3. QED
      BY <3>1, <3>2
  <2>5. ASSUME NEW s \in Requests, s # r, Continue(s) \/ \E p \in Replicas, m \in Names : Arrive(s, p, m)
        PROVE  /\ \A k \in Names : FileOf[k] = f => row'[k] \notin FileRows
               /\ file'[f] = file[f] /\ req'[r] = req[r]
    <3>1. req'[r] = req[r]
      BY <2>5, OthersStay DEF IInv
    <3>2. ~(req[s].step \in FileSteps /\ FileOf[req[s].n] = f)
      BY <2>3, <2>5 DEF Uploading, FileSteps
    <3>3. CASE Truncate(s) \/ Fill(s)
      BY <1>1, <1>2, <2>3, <3>1, <3>2, <3>3 DEF Truncate, Fill, FileSteps
    <3>4. CASE Insert(s)
      <4>1. \A k \in Names : FileOf[k] = f => row'[k] = row[k]
        BY <1>1, <3>2, <3>4 DEF Insert, SetRow, FileSteps
      <4>2. file' = file
        BY <3>4 DEF Insert
      <4>3. QED
        BY <2>3, <3>1, <4>1, <4>2
    <3>5. CASE UNCHANGED <<row, file>>
      BY <2>3, <3>1, <3>5
    <3>6. QED
      BY <2>5, <3>3, <3>4, <3>5
         DEF Continue, Arrive, Query, Tile, Upload, Begin, UsePool, LookClient, ReadCache, KeepClient, Drop
  <2>6. ASSUME NEW m \in Names, Rest(m)
        PROVE  /\ \A k \in Names : FileOf[k] = f => row'[k] \notin FileRows
               /\ file' = file /\ req' = req
    <3>1. \E v \in LinkRows \cup {None} : SetRow(m, v)
      BY <2>6 DEF Rest, Create, Update, Delete, LinkRows
    <3>2. file' = file /\ req' = req
      BY <2>6 DEF Rest, Create, Update, Delete
    <3>3. QED
      BY <1>1, <2>3, <3>1, <3>2, Apart DEF SetRow
  <2>7. ASSUME Continue(r)
        PROVE  /\ \A k \in Names : FileOf[k] = f => row'[k] \notin FileRows
               /\ req'[r].step = "insert" => file'[f] = req'[r].content
    <3>1. req[r] \in FileReqs
      BY <2>3, ReqTypes DEF IInv, FileSteps
    <3>2. CASE Truncate(r)
      <4>1. req'[r] = [req[r] EXCEPT !.step = "fill"] /\ row' = row
        BY <1>1, <3>2 DEF Truncate, Step
      <4>2. req'[r].step = "fill"
        BY <3>1, <4>1 DEF FileReqs
      <4>3. QED
        BY <2>3, <4>1, <4>2
    <3>3. CASE Fill(r)
      BY <1>1, <1>2, <2>3, <3>3 DEF Fill
    <3>4. CASE ~Truncate(r) /\ ~Fill(r)
      <4>1. Insert(r) \/ Drop(r)
        BY <2>3, <2>7, <3>4 DEF Continue, UsePool, LookClient, ReadCache, KeepClient, FileSteps
      <4>2. req'[r] = Idle
        BY <1>1, <4>1 DEF Insert, Drop, Step
      <4>3. QED
        BY <4>2 DEF Idle, FileSteps
    <3>5. QED
      BY <3>2, <3>3, <3>4
  <2>8. ASSUME NEW p \in Replicas, NEW m \in Names, Arrive(r, p, m) PROVE FALSE
    <3>1. req[r] = Idle
      BY <2>8 DEF Arrive, Query, Tile, Upload, Begin
    <3>2. QED
      BY <2>3, <3>1 DEF Idle, FileSteps
  <2>9. ASSUME UNCHANGED vars \/ \E p \in Replicas : Restart(p)
        PROVE  /\ \A k \in Names : FileOf[k] = f => row'[k] \notin FileRows
               /\ req'[r].step = "insert" => file'[f] = req'[r].content
    BY <2>3, <2>9 DEF vars, Restart
  <2>10. /\ \A k \in Names : FileOf[k] = f => row'[k] \notin FileRows
         /\ req'[r].step = "insert" => file'[f] = req'[r].content
    <3>1. CASE \E m \in Names : Rest(m)
      BY <2>3, <2>6, <3>1
    <3>2. ASSUME NEW s \in Requests, Continue(s) \/ \E p \in Replicas, m \in Names : Arrive(s, p, m)
          PROVE  /\ \A k \in Names : FileOf[k] = f => row'[k] \notin FileRows
                 /\ req'[r].step = "insert" => file'[f] = req'[r].content
      BY <2>3, <2>5, <2>7, <2>8, <3>2
    <3>3. QED
      BY <2>9, <3>1, <3>2 DEF Next
  <2>11. QED
    BY <2>4, <2>10
<1>5. CASE \E t \in Requests, p \in Replicas, m \in Names, c \in Contents : Upload(t, p, m, c) /\ FileOf[m] = f
  BY <1>3, <1>5
<1>6. CASE \A t \in Requests, p \in Replicas, m \in Names, c \in Contents : Upload(t, p, m, c) => FileOf[m] # f
  BY <1>4, <1>6
<1>7. QED
  BY <1>5, <1>6

LEMMA FileStep == IInv /\ [Next]_vars => AsUploaded'
<1> SUFFICES ASSUME IInv, [Next]_vars, NEW n \in Names, NEW f, f = FileOf[n],
                    row'[n] # None, row'[n].kind = "file", f \notin shared'
             PROVE  file'[f] = row'[n].at
  BY DEF AsUploaded
<1>1. /\ row \in [Names -> LinkRows \cup FileRows \cup {None}]
      /\ file \in [Files -> Contents \cup {Torn, None}] /\ f \in Files
  BY DataSourcesAssumption DEF IInv, TypeOK, LinkRows, FileRows
<1>2. f \notin shared
  <2>1. ASSUME NEW r \in Requests, NEW p \in Replicas, NEW m \in Names, NEW c \in Contents,
               FileOf[m] = f, Upload(r, p, m, c)
        PROVE  FALSE
    <3>1. row[n] \notin FileRows /\ row' = row
      BY <2>1, BeginsAlone DEF IInv
    <3>2. QED
      BY <1>1, <3>1 DEF LinkRows, Links
  <2>2. QED
    BY <2>1, SharedEnds
<1>3. CASE UNCHANGED <<row, file>>
  BY <1>2, <1>3 DEF IInv, AsUploaded
<1>4. ASSUME NEW m \in Names, Rest(m) PROVE file'[f] = row'[n].at
  <2>1. \E v \in LinkRows \cup {None} : SetRow(m, v)
    BY <1>4 DEF Rest, Create, Update, Delete, LinkRows
  <2>2. m # n
    BY <1>1, <2>1 DEF SetRow, LinkRows, Links
  <2>3. row'[n] = row[n] /\ file' = file
    BY <1>1, <1>4, <2>1, <2>2 DEF Rest, Create, Update, Delete, SetRow
  <2>4. QED
    BY <1>2, <2>3 DEF IInv, AsUploaded
<1>5. ASSUME NEW s \in Requests, Truncate(s) \/ Fill(s) PROVE file'[f] = row'[n].at
  <2>1. row' = row /\ row[n] \in FileRows
    BY <1>1, <1>5 DEF Truncate, Fill, LinkRows, Links
  <2>2. FileOf[req[s].n] # f
    BY <1>2, <1>5, <2>1 DEF IInv, UploadsFit, Truncate, Fill
  <2>3. file'[f] = file[f]
    BY <1>1, <1>5, <2>2 DEF Truncate, Fill
  <2>4. QED
    BY <1>2, <2>1, <2>3 DEF IInv, AsUploaded
<1>6. ASSUME NEW s \in Requests, Insert(s) PROVE file'[f] = row'[n].at
  <2>1. file' = file
    BY <1>6 DEF Insert
  <2>2. CASE row' = row
    BY <1>2, <2>1, <2>2 DEF IInv, AsUploaded
  <2>3. CASE row[req[s].n] = None /\ req[s].n = n
    <3>1. row'[n] = [kind |-> "file", at |-> req[s].content]
      BY <1>1, <1>6, <2>3 DEF Insert, SetRow
    <3>2. file[f] = req[s].content
      BY <1>2, <1>6, <2>3 DEF IInv, UploadsFit, Insert
    <3>3. QED
      BY <2>1, <3>1, <3>2
  <2>4. CASE req[s].n # n
    <3>1. row'[n] = row[n]
      BY <1>1, <1>6, <2>4 DEF Insert, SetRow
    <3>2. QED
      BY <1>2, <2>1, <3>1 DEF IInv, AsUploaded
  <2>5. QED
    BY <1>6, <2>2, <2>3, <2>4 DEF Insert
<1>7. ASSUME NEW s \in Requests, NEW p \in Replicas, NEW m \in Names, Arrive(s, p, m) PROVE UNCHANGED <<row, file>>
  BY <1>7 DEF Arrive, Query, Tile, Upload, Begin
<1>8. ASSUME NEW s \in Requests, Continue(s) PROVE file'[f] = row'[n].at
  BY <1>3, <1>5, <1>6, <1>8 DEF Continue, UsePool, LookClient, ReadCache, KeepClient, Drop
<1>9. QED
  BY <1>3, <1>4, <1>7, <1>8 DEF Next, vars, Restart

-----------------------------------------------------------------------------

\* The inductive invariant: types, and what requests in flight hold agrees
\* with rows and files.
THEOREM AlwaysIInv == Spec => []IInv
<1>1. IInv /\ [Next]_vars => IInv'
  BY TypeStep, ConnStep, RequestsStep, UploadsStep, FileStep DEF IInv
<1>2. QED
  BY InitIInv, <1>1, PTL DEF Spec

\* A cached connection leads where the row of its name says, unless the row
\* has changed since the replica started, for any number of requests.
THEOREM ConnectionsFit == Spec => []ConnFits
<1>1. IInv => ConnFits
  BY DEF IInv
<1>2. QED
  BY AlwaysIInv, <1>1, PTL

\* The file of an uploaded source is what its client sent, for any names and
\* any files that they share, except after an upload that was not alone with
\* its file: see AsUploaded.
THEOREM FilesAreAsUploaded == Spec => []AsUploaded
<1>1. IInv => AsUploaded
  BY DEF IInv
<1>2. QED
  BY AlwaysIInv, <1>1, PTL

\* A replica makes one pool for a name until it restarts.
THEOREM OnePoolForAName == Spec => OnePool
<1>1. ASSUME IInv, [Next]_vars, NEW p \in Replicas, NEW n \in Names, conn[p]["pool"][n] # None
      PROVE  conn'[p]["pool"][n] = conn[p]["pool"][n] \/ conn'[p] = NoConn
  <2>1. conn \in [Replicas -> [Links -> [Names -> Servers \cup {None}]]]
    BY <1>1 DEF IInv, TypeOK
  <2>2. CASE UNCHANGED conn
    BY <2>2
  <2>3. ASSUME NEW r \in Requests, UsePool(r) PROVE conn'[p]["pool"][n] = conn[p]["pool"][n]
    <3>1. req[r] \in LinkReqs
      BY <1>1, <2>3, ReqTypes DEF IInv, UsePool
    <3>2. req[r].p \in Replicas /\ req[r].kind = "pool" /\ req[r].key \in Names
      BY <2>3, <3>1 DEF UsePool, LinkReqs
    <3>3. QED
      BY <1>1, <2>1, <2>3, <3>2 DEF UsePool, Links
  <2>4. ASSUME NEW r \in Requests, KeepClient(r) PROVE conn'[p]["pool"][n] = conn[p]["pool"][n]
    <3>1. req[r] \in LinkReqs
      BY <1>1, <2>4, ReqTypes DEF IInv, KeepClient
    <3>2. req[r].p \in Replicas /\ req[r].kind \in Links \ {"pool"}
      BY <1>1, <2>4, <3>1 DEF IInv, RequestsFit, KeepClient, LinkReqs
    <3>3. QED
      BY <1>1, <2>1, <2>4, <3>2 DEF KeepClient
  <2>5. ASSUME NEW s \in Replicas, Restart(s) PROVE conn'[p] = conn[p] \/ conn'[p] = NoConn
    BY <2>1, <2>5 DEF Restart
  <2>6. QED
    BY <1>1, <2>2, <2>3, <2>4, <2>5, Effects DEF IInv
<1>2. IInv /\ [Next]_vars =>
        [\A p \in Replicas, n \in Names :
           conn[p]["pool"][n] # None =>
             conn'[p]["pool"][n] = conn[p]["pool"][n] \/ conn'[p] = NoConn]_vars
  BY <1>1
<1>3. QED
  BY <1>2, AlwaysIInv, PTL DEF Spec, OnePool
=============================================================================
