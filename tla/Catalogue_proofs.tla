-------------------------- MODULE Catalogue_proofs --------------------------
(***************************************************************************)
(* Proofs about the catalogue: about Catalog, that a replica serves no     *)
(* title that the store did not hold, whatever the interleaving of         *)
(* creates, updates, deletions, refreshes, time-outs and restarts; about   *)
(* CatalogLocks, that tasks that lock layers, styles and metadata in this  *)
(* order never wait for each other in a circle; and, of the questions of   *)
(* Questions, that both metadata stores refuse and read the same, and that *)
(* all routes of the administration show what the answers told, for any    *)
(* calls.                                                                  *)
(***************************************************************************)
EXTENDS Catalog, CatalogLocks, Questions, FiniteSetTheorems, SequenceTheorems,
        WellFoundedInduction, TLAPS

(* Catalog: what is served.                                                *)

\* What the store holds, it has held.
RowsStored == \A n \in Names : store[n] # NoRow => store[n] \in stored[n]

\* The rows that a refresh has read were in the store when it read them, and
\* the store may have moved on since.
SnapshotsStored ==
  \A a \in Actors, n \in Names : snapshot[a][n] # NoRow => snapshot[a][n] \in stored[n]

\* The row create_layer has got back is one it has put there, until its
\* handler has pushed it or is gone.
CreatedStored ==
  \A c \in Clients : pc[c] = "add" => row[c] \in stored[name[c]]

\* The inductive invariant: what is on the way to memory has been stored.
CatalogInv ==
  /\ TypeOK
  /\ NothingInvented
  /\ RowsStored
  /\ SnapshotsStored
  /\ CreatedStored

-----------------------------------------------------------------------------
\* Entries taken from a set S: a sequence that is changed as memory is.
LEMMA AppendKeeps ==
  ASSUME NEW T, NEW S, NEW s \in Seq(T), NEW e \in T,
         \A i \in 1..Len(s) : s[i] \in S, e \in S
  PROVE  \A i \in 1..Len(Append(s, e)) : Append(s, e)[i] \in S
  BY AppendProperties

LEMMA TailKeeps ==
  ASSUME NEW T, NEW S, NEW s \in Seq(T), s # <<>>,
         \A i \in 1..Len(s) : s[i] \in S
  PROVE  /\ Tail(s) \in Seq(T)
         /\ \A i \in 1..Len(Tail(s)) : Tail(s)[i] \in S
  BY HeadTailProperties

\* Merging one row into the entries of its name.
LEMMA MergedKeeps ==
  ASSUME NEW T, NEW S, NEW s \in Seq(T), NEW d,
         \A i \in 1..Len(s) : s[i] \in S,
         d # NoRow => d \in S \cap T
  PROVE  /\ Merged(s, d) \in Seq(T)
         /\ \A i \in 1..Len(Merged(s, d)) : Merged(s, d)[i] \in S
  <1>1. CASE d = NoRow
    BY <1>1 DEF Merged
  <1>2. CASE d # NoRow /\ s = <<>>
    <2>1. Merged(s, d) = <<d>>
      BY <1>2 DEF Merged
    <2>2. <<d>> \in Seq(T) /\ Len(<<d>>) = 1 /\ <<d>>[1] = d
      BY <1>2
    <2>3. \A i \in 1..Len(<<d>>) : <<d>>[i] \in S
      <3>1. d \in S
        BY <1>2
      <3>. QED  BY <3>1, <2>2
    <2>. QED  BY <2>1, <2>2, <2>3
  <1>3. CASE d # NoRow /\ s # <<>>
    <2>1. Merged(s, d) = <<d>> \o Tail(s)
      BY <1>3 DEF Merged
    <2>2. <<d>> \in Seq(T) /\ Len(<<d>>) = 1 /\ <<d>>[1] = d
      BY <1>3
    <2>3. Tail(s) \in Seq(T) /\ \A i \in 1..Len(Tail(s)) : Tail(s)[i] \in S
      BY <1>3, TailKeeps
    <2>. QED  BY <1>3, <2>1, <2>2, <2>3, ConcatProperties
  <1>. QED  BY <1>1, <1>2, <1>3

-----------------------------------------------------------------------------
LEMMA CatalogInvInit == Init => CatalogInv
  <1> SUFFICES ASSUME Init PROVE CatalogInv
    OBVIOUS
  <1>1. (CHOOSE n \in Names : TRUE) \in Names
    BY CatalogAssumption
  <1>2. TypeOK
    <2>1. memory \in [Replicas -> [Names -> Seq(Titles)]] /\ stored \in [Names -> SUBSET Titles]
      BY DEF Init
    <2>2. store \in [Names -> Titles \cup {NoRow}] /\ row \in [Clients -> Titles \cup {NoRow}]
      BY DEF Init, NoRows
    <2>3. snapshot \in [Actors -> [Names -> Titles \cup {NoRow}]]
      BY DEF Init, NoRows
    <2>4. name \in [Clients -> Names]
      BY <1>1 DEF Init
    <2>5. /\ pc \in [Actors -> {"idle", "add", "remove", "refresh", "merge"}]
          /\ writes \in 0..MaxWrites
      BY CatalogAssumption DEF Init
    <2>. QED  BY <2>1, <2>2, <2>3, <2>4, <2>5 DEF TypeOK
  <1>3. NothingInvented
    BY DEF Init, NothingInvented
  <1>. QED
    BY <1>2, <1>3 DEF Init, CatalogInv, RowsStored, SnapshotsStored, CreatedStored, NoRows, Actors

LEMMA CatalogInvStep == CatalogInv /\ [Next]_vars => CatalogInv'
  <1> SUFFICES ASSUME CatalogInv, [Next]_vars PROVE CatalogInv'
    OBVIOUS
  <1>a. /\ TypeOK /\ NothingInvented /\ RowsStored /\ SnapshotsStored /\ CreatedStored
        /\ \A c \in Clients : c \in Actors /\ Host(c) \in Replicas
        /\ \A a \in Actors : Host(a) \in Replicas
        /\ MaxWrites \in Nat
    BY CatalogAssumption DEF CatalogInv, Actors, Host
  <1>1. ASSUME NEW c \in Clients, CreateRow(c) PROVE CatalogInv'
    <2>1. PICK n \in Names, t \in Titles :
            /\ store[n] = NoRow /\ Arrive(c, n, "add")
            /\ row' = [row EXCEPT ![c] = t]
            /\ store' = [store EXCEPT ![n] = t]
            /\ stored' = [stored EXCEPT ![n] = @ \cup {t}]
            /\ UNCHANGED <<memory, snapshot>>
      BY <1>1 DEF CreateRow
    <2>2. TypeOK'
      BY <1>a, <2>1 DEF TypeOK, Arrive
    <2>3. \A m \in Names : stored[m] \subseteq stored'[m]
      BY <1>a, <2>1 DEF TypeOK
    <2>4. NothingInvented' /\ SnapshotsStored'
      BY <1>a, <2>1, <2>3 DEF NothingInvented, SnapshotsStored
    <2>5. RowsStored' /\ CreatedStored'
      BY <1>a, <2>1, <2>3 DEF RowsStored, CreatedStored, TypeOK, Arrive
    <2>. QED  BY <2>2, <2>4, <2>5 DEF CatalogInv
  <1>2. ASSUME NEW c \in Clients, AddLayer(c) PROVE CatalogInv'
    <2> DEFINE h == Host(c)
               s == memory[h][name[c]]
    <2>1. row[c] \in stored[name[c]] /\ row[c] \in Titles /\ name[c] \in Names
      BY <1>a, <1>2 DEF AddLayer, CreatedStored, TypeOK
    <2>2. s \in Seq(Titles) /\ \A i \in 1..Len(s) : s[i] \in stored[name[c]]
      BY <1>a, <2>1 DEF TypeOK, NothingInvented
    <2>3. /\ Append(s, row[c]) \in Seq(Titles)
          /\ \A i \in 1..Len(Append(s, row[c])) : Append(s, row[c])[i] \in stored[name[c]]
      BY <2>1, <2>2, AppendKeeps, AppendProperties
    <2>4. memory' = [memory EXCEPT ![h][name[c]] = Append(s, row[c])]
      BY <1>2 DEF AddLayer
    <2> HIDE DEF s, h
    <2>5. TypeOK'
      BY <1>a, <1>2, <2>1, <2>3, <2>4 DEF AddLayer, TypeOK
    <2>6. NothingInvented'
      BY <1>a, <1>2, <2>1, <2>3, <2>4 DEF AddLayer, TypeOK, NothingInvented
    <2>. QED
      BY <1>a, <1>2, <2>5, <2>6
      DEF AddLayer, CatalogInv, RowsStored, SnapshotsStored, CreatedStored, TypeOK
  <1>3. ASSUME NEW c \in Clients, UpdateRow(c) PROVE CatalogInv'
    <2>1. PICK n \in Names, t \in Titles :
            /\ Arrive(c, n, "refresh")
            /\ IF store[n] = NoRow THEN UNCHANGED <<store, stored>>
               ELSE /\ store' = [store EXCEPT ![n] = t]
                    /\ stored' = [stored EXCEPT ![n] = @ \cup {t}]
            /\ UNCHANGED <<memory, row, snapshot>>
      BY <1>3 DEF UpdateRow
    <2>2. CASE store[n] = NoRow
      <3>1. UNCHANGED <<store, stored, memory, row, snapshot>>
        BY <2>1, <2>2
      <3>2. TypeOK'
        BY <1>a, <2>1, <3>1 DEF TypeOK, Arrive
      <3>. QED
        BY <1>a, <2>1, <3>1, <3>2
        DEF CatalogInv, NothingInvented, RowsStored, SnapshotsStored, CreatedStored, TypeOK, Arrive
    <2>3. CASE store[n] # NoRow
      <3>1. /\ store' = [store EXCEPT ![n] = t]
            /\ stored' = [stored EXCEPT ![n] = @ \cup {t}]
            /\ UNCHANGED <<memory, row, snapshot>>
        BY <2>1, <2>3
      <3>2. TypeOK'
        BY <1>a, <2>1, <3>1 DEF TypeOK, Arrive
      <3>3. \A m \in Names : stored[m] \subseteq stored'[m]
        BY <1>a, <3>1 DEF TypeOK
      <3>4. NothingInvented' /\ SnapshotsStored'
        BY <1>a, <3>1, <3>3 DEF NothingInvented, SnapshotsStored
      <3>5. RowsStored'
        BY <1>a, <3>1, <3>3 DEF RowsStored, TypeOK
      <3>6. CreatedStored'
        BY <1>a, <2>1, <3>1, <3>3 DEF CreatedStored, TypeOK, Arrive
      <3>. QED  BY <3>2, <3>4, <3>5, <3>6 DEF CatalogInv
    <2>. QED  BY <2>2, <2>3
  <1>4. ASSUME NEW c \in Clients, DeleteRow(c) PROVE CatalogInv'
    <2>1. PICK n \in Names :
            /\ Arrive(c, n, "remove")
            /\ store' = [store EXCEPT ![n] = NoRow]
            /\ UNCHANGED <<memory, row, snapshot, stored>>
      BY <1>4 DEF DeleteRow
    <2>2. TypeOK'
      BY <1>a, <2>1 DEF TypeOK, Arrive
    <2>. QED
      BY <1>a, <2>1, <2>2
      DEF CatalogInv, NothingInvented, RowsStored, SnapshotsStored, CreatedStored, TypeOK, Arrive
  <1>5. ASSUME NEW c \in Clients, RemoveLayer(c) PROVE CatalogInv'
    <2> DEFINE h == Host(c)
               s == memory[h][name[c]]
               rest == IF s = <<>> THEN s ELSE Tail(s)
    <2>1. name[c] \in Names /\ h \in Replicas
      BY <1>a DEF TypeOK
    <2>2. s \in Seq(Titles) /\ \A i \in 1..Len(s) : s[i] \in stored[name[c]]
      BY <1>a, <2>1 DEF TypeOK, NothingInvented
    <2>3. rest \in Seq(Titles) /\ \A i \in 1..Len(rest) : rest[i] \in stored[name[c]]
      BY <2>2, TailKeeps
    <2>4. memory' = [memory EXCEPT ![h][name[c]] = rest]
      BY <1>5 DEF RemoveLayer
    <2> HIDE DEF rest, s, h
    <2>5. TypeOK'
      BY <1>a, <1>5, <2>1, <2>3, <2>4 DEF RemoveLayer, TypeOK
    <2>6. NothingInvented'
      BY <1>a, <1>5, <2>1, <2>3, <2>4 DEF RemoveLayer, TypeOK, NothingInvented
    <2>. QED
      BY <1>a, <1>5, <2>5, <2>6
      DEF RemoveLayer, CatalogInv, RowsStored, SnapshotsStored, CreatedStored, TypeOK
  <1>6. ASSUME NEW c \in Clients, Drop(c) PROVE CatalogInv'
    <2>1. TypeOK'
      BY <1>a, <1>6 DEF Drop, TypeOK, NoRows
    <2>. QED
      BY <1>a, <1>6, <2>1
      DEF Drop, CatalogInv, NothingInvented, RowsStored, SnapshotsStored, CreatedStored, TypeOK, NoRows
  <1>7. ASSUME NEW a \in Actors, ReadRows(a) PROVE CatalogInv'
    <2>1. TypeOK'
      BY <1>a, <1>7 DEF ReadRows, TypeOK
    <2>. QED
      BY <1>a, <1>7, <2>1
      DEF ReadRows, CatalogInv, NothingInvented, RowsStored, SnapshotsStored, CreatedStored, TypeOK
  <1>8. ASSUME NEW a \in Actors, ReadFails(a) PROVE CatalogInv'
    BY <1>a, <1>8
    DEF ReadFails, CatalogInv, NothingInvented, RowsStored, SnapshotsStored, CreatedStored, TypeOK
  <1>9. ASSUME NEW a \in Actors, MergeRows(a) PROVE CatalogInv'
    <2> DEFINE h == Host(a)
    <2>1. \A n \in Names :
            LET s == Merged(memory[h][n], snapshot[a][n]) IN
              s \in Seq(Titles) /\ \A i \in 1..Len(s) : s[i] \in stored[n]
      <3> SUFFICES ASSUME NEW n \in Names
                   PROVE  LET s == Merged(memory[h][n], snapshot[a][n]) IN
                            s \in Seq(Titles) /\ \A i \in 1..Len(s) : s[i] \in stored[n]
        OBVIOUS
      <3>1. /\ memory[h][n] \in Seq(Titles)
            /\ \A i \in 1..Len(memory[h][n]) : memory[h][n][i] \in stored[n]
            /\ snapshot[a][n] # NoRow => snapshot[a][n] \in stored[n] \cap Titles
        BY <1>a DEF TypeOK, NothingInvented, SnapshotsStored
      <3>. QED  BY <3>1, MergedKeeps
    <2>2. memory' = [memory EXCEPT ![h] = [n \in Names |-> Merged(memory[h][n], snapshot[a][n])]]
      BY <1>9 DEF MergeRows
    <2> DEFINE new == [n \in Names |-> Merged(memory[h][n], snapshot[a][n])]
    <2>3. new \in [Names -> Seq(Titles)]
      BY <2>1
    <2>4. \A n \in Names : \A i \in 1..Len(new[n]) : new[n][i] \in stored[n]
      BY <2>1
    <2>5. memory' = [memory EXCEPT ![h] = new] /\ h \in Replicas
      BY <1>a, <2>2
    <2> HIDE DEF new, h
    <2>6. TypeOK'
      BY <1>a, <1>9, <2>3, <2>5 DEF MergeRows, TypeOK, NoRows
    <2>7. NothingInvented'
      BY <1>a, <1>9, <2>4, <2>5 DEF MergeRows, TypeOK, NothingInvented
    <2>. QED
      BY <1>a, <1>9, <2>6, <2>7
      DEF MergeRows, CatalogInv, RowsStored, SnapshotsStored, CreatedStored, TypeOK, NoRows
  <1>10. ASSUME NEW r \in Replicas, Restart(r) PROVE CatalogInv'
    <2>1. \A n \in Names : /\ Loaded[n] \in Seq(Titles)
                           /\ \A i \in 1..Len(Loaded[n]) : Loaded[n][i] \in stored[n]
      BY <1>a DEF Loaded, TypeOK, RowsStored
    <2>2. Loaded \in [Names -> Seq(Titles)]
      BY <2>1 DEF Loaded
    <2>3. memory' = [memory EXCEPT ![r] = Loaded]
      BY <1>10 DEF Restart
    <2>4. TypeOK'
      BY <1>a, <1>10, <2>2, <2>3 DEF Restart, TypeOK, NoRows, Actors
    <2>5. NothingInvented'
      BY <1>a, <1>10, <2>1, <2>3 DEF Restart, TypeOK, NothingInvented
    <2>6. RowsStored'
      BY <1>a, <1>10 DEF Restart, RowsStored
    <2>7. SnapshotsStored'
      BY <1>a, <1>10 DEF Restart, SnapshotsStored, NoRows
    <2>8. \A c \in Clients : pc'[c] = "add" => row'[c] = row[c] /\ pc[c] = "add"
      BY <1>a, <1>10, CatalogAssumption DEF Restart, Actors, Host
    <2>9. CreatedStored'
      BY <1>a, <1>10, <2>8 DEF Restart, CreatedStored
    <2>. QED  BY <2>4, <2>5, <2>6, <2>7, <2>9 DEF CatalogInv
  <1>11. CASE UNCHANGED vars
    BY <1>a, <1>11
    DEF vars, CatalogInv, NothingInvented, RowsStored, SnapshotsStored, CreatedStored, TypeOK
  <1>. QED
    BY <1>1, <1>2, <1>3, <1>4, <1>5, <1>6, <1>7, <1>8, <1>9, <1>10, <1>11
    DEF Next, Request, Refresh

-----------------------------------------------------------------------------
LEMMA CatalogInvHolds == Spec => []CatalogInv
  BY CatalogInvInit, CatalogInvStep, PTL DEF Spec

\* Every variable of the catalogue keeps its type (state.rs: AppState).
THEOREM CatalogTypeCorrect == Spec => []TypeOK
  <1>1. CatalogInv => TypeOK
    BY DEF CatalogInv
  <1>. QED  BY <1>1, CatalogInvHolds, PTL

\* However many clients and replicas there are, and whatever refreshes merge
\* stale rows, requests are dropped between the store and memory, and replicas
\* restart: a replica serves only titles the store has held
\* (refresh_catalog_from_store, add_layer, delete_layer).
THEOREM CatalogNothingInvented == Spec => []NothingInvented
  <1>1. CatalogInv => NothingInvented
    BY DEF CatalogInv
  <1>. QED  BY <1>1, CatalogInvHolds, PTL

-----------------------------------------------------------------------------
(* CatalogLocks: who waits for whom.                                       *)

LEMMA LeastNatural ==
  ASSUME NEW S \in SUBSET Nat, S # {}
  PROVE  \E m \in S : \A n \in S : m <= n
  <1> DEFINE Less == {p \in Nat \X Nat : p[1] < p[2]}
  <1>1. IsWellFoundedOn(Less, Nat)
    <2>1. Less = OpToRel(<, Nat)
      BY DEF OpToRel
    <2>. QED  BY <2>1, NatLessThanWellFounded
  <1>2. PICK m \in S : \A n \in S : <<n, m>> \notin Less
    <2> HIDE DEF Less
    <2>. QED  BY <1>1, WFMin
  <1>3. \A n \in S : m <= n
    <2> SUFFICES ASSUME NEW n \in S, ~(m <= n) PROVE FALSE
      OBVIOUS
    <2>1. <<n, m>> \in Less
      OBVIOUS
    <2>. QED  BY <1>2, <2>1
  <1>. QED  BY <1>3

\* Sequences without repetition.
Unlike(q) == \A i, j \in 1..Len(q) : q[i] = q[j] => i = j

LEMMA WithoutIsShorter ==
  ASSUME NEW T, NEW q \in Seq(T), NEW t, Unlike(q)
  PROVE  /\ Without(q, t) \in Seq(T)
         /\ Unlike(Without(q, t))
         /\ \A i \in 1..Len(Without(q, t)) :
              Without(q, t)[i] # t /\ \E j \in 1..Len(q) : Without(q, t)[i] = q[j]
  <1>1. CASE ~Contains(q, t)
    BY <1>1 DEF Without, Contains
  <1>2. CASE Contains(q, t)
    <2> DEFINE k == CHOOSE i \in DOMAIN q : q[i] = t
    <2>1. k \in 1..Len(q) /\ q[k] = t
      BY <1>2 DEF Contains
    <2> HIDE DEF k
    <2>2. Without(q, t) = SubSeq(q, 1, k - 1) \o SubSeq(q, k + 1, Len(q))
      BY <1>2 DEF Without, RemoveAt, k
    <2> DEFINE w == SubSeq(q, 1, k - 1) \o SubSeq(q, k + 1, Len(q))
    <2>3. /\ w \in Seq(T) /\ Len(w) = Len(q) - 1
          /\ \A i \in 1..Len(w) : w[i] = q[IF i < k THEN i ELSE i + 1]
      <3> DEFINE a == SubSeq(q, 1, k - 1)
                 b == SubSeq(q, k + 1, Len(q))
      <3>1. /\ a \in Seq(T) /\ Len(a) = k - 1
            /\ \A i \in 1..(k - 1) : a[i] = q[i]
        BY <2>1, SubSeqProperties
      <3>2. /\ b \in Seq(T) /\ Len(b) = Len(q) - k
            /\ \A i \in 1..(Len(q) - k) : b[i] = q[k + i]
        BY <2>1, SubSeqProperties
      <3> HIDE DEF a, b
      <3>3. /\ a \o b \in Seq(T) /\ Len(a \o b) = Len(q) - 1
            /\ \A i \in 1..Len(a \o b) : (a \o b)[i] = IF i <= Len(a) THEN a[i] ELSE b[i - Len(a)]
        <4>1. /\ a \o b \in Seq(T) /\ Len(a \o b) = Len(a) + Len(b)
              /\ \A i \in 1..(Len(a) + Len(b)) :
                   (a \o b)[i] = IF i <= Len(a) THEN a[i] ELSE b[i - Len(a)]
          BY <3>1, <3>2, ConcatProperties
        <4>2. Len(a) + Len(b) = Len(q) - 1
          BY <2>1, <3>1, <3>2
        <4>. QED  BY <4>1, <4>2
      <3>4. \A i \in 1..Len(a \o b) : (a \o b)[i] = q[IF i < k THEN i ELSE i + 1]
        <4> SUFFICES ASSUME NEW i \in 1..Len(a \o b)
                     PROVE  (a \o b)[i] = q[IF i < k THEN i ELSE i + 1]
          OBVIOUS
        <4>0. k \in Nat /\ Len(q) \in Nat /\ i \in 1..(Len(q) - 1)
          BY <2>1, <3>3
        <4>1. CASE i < k
          BY <4>0, <4>1, <3>1, <3>3
        <4>2. CASE i >= k
          <5>1. i - (k - 1) \in 1..(Len(q) - k) /\ ~(i <= Len(a))
            BY <4>0, <4>2, <3>1
          <5>2. (a \o b)[i] = b[i - (k - 1)]
            BY <5>1, <3>1, <3>3
          <5>3. b[i - (k - 1)] = q[k + (i - (k - 1))]
            BY <5>1, <3>2
          <5>4. k + (i - (k - 1)) = i + 1
            BY <4>0
          <5>. QED  BY <5>2, <5>3, <5>4, <4>0, <4>2
        <4>. QED  BY <4>0, <4>1, <4>2
      <3>. QED  BY <3>3, <3>4 DEF a, b
    <2> HIDE DEF w
    <2>4. Without(q, t) = w
      BY <2>2 DEF w
    <2>5. Unlike(w)
      <3> SUFFICES ASSUME NEW i \in 1..Len(w), NEW j \in 1..Len(w), w[i] = w[j]
                   PROVE  i = j
        BY DEF Unlike
      <3> DEFINE Was(n) == IF n < k THEN n ELSE n + 1
      <3>1. Len(q) \in Nat /\ Was(i) \in 1..Len(q) /\ Was(j) \in 1..Len(q)
        BY <2>1, <2>3
      <3>2. q[Was(i)] = q[Was(j)]
        BY <2>3
      <3>3. Was(i) = Was(j)
        BY <3>1, <3>2 DEF Unlike
      <3>. QED  BY <2>1, <3>1, <3>3
    <2>6. \A i \in 1..Len(w) : w[i] # t /\ \E j \in 1..Len(q) : w[i] = q[j]
      BY <2>1, <2>3 DEF Unlike
    <2>. QED  BY <2>3, <2>4, <2>5, <2>6
  <1>. QED  BY <1>1, <1>2

-----------------------------------------------------------------------------
(* What a script holds at each of its places.                              *)

\* How many guards of the layers, the styles and the metadata are held.
Held(layers, styles, meta) == [layers |-> layers, styles |-> styles, meta |-> meta]
G0 == Held(0, 0, 0)
GL == Held(1, 0, 0)
GS == Held(0, 1, 0)
GLS == Held(1, 1, 0)
GSM == Held(0, 1, 1)
GLSM == Held(1, 1, 1)
GLLSM == Held(2, 1, 1)

\* At each place of a script, the end included.
Guards ==
  [tile |-> <<G0, GL, G0, GL, GLS, GLSM, GLLSM, GLSM>>, map |-> <<G0, GL, GLS, GLSM>>,
   get_styles |-> <<G0, GS, GLS>>, legend |-> <<G0, GL, GLS>>, backup |-> <<G0, GS, GSM>>,
   write_layer |-> <<G0, GL>>, put_style |-> <<G0, GL, G0, GS, GSM>>,
   refresh |-> <<G0, GL, G0, GS, GSM>>]

\* The locks a script takes to write.
Written ==
  [tile |-> {}, map |-> {}, get_styles |-> {}, legend |-> {}, backup |-> {},
   write_layer |-> {"layers"}, put_style |-> {"styles", "meta"}, refresh |-> Locks]

\* Step s of a script that writes the locks w leads from guards g to guards h.
GoesOn(s, w, g, h) ==
  /\ s.do \in {"read", "write", "let go"} /\ s.lock \in Locks
  /\ g \in [Locks -> 0..2] /\ h \in [Locks -> 0..2]
  /\ h = [g EXCEPT ![s.lock] = IF s.do = "let go" THEN @ - 1 ELSE @ + 1]
  /\ s.do = "read" => s.lock \notin w
  /\ s.do = "write" => s.lock \in w
  /\ \A l \in w : g[l] <= 1 /\ h[l] <= 1

\* The order of the locks, and a step that keeps to it: whoever asks for a
\* lock holds only those before it.
Rank == [layers |-> 1, styles |-> 2, meta |-> 3]
KeepsOrder(s, g) ==
  s.do # "let go" => \A l \in Locks : g[l] > 0 => Rank[l] < Rank[s.lock]

Disorderly == {"tile", "get_styles"}

LEMMA OpsAre ==
  Ops = {"tile", "map", "get_styles", "legend", "backup", "write_layer", "put_style", "refresh"}
  BY DEF Ops, Script

\* The steps that occur in the scripts that only read.
LEMMA ReadingGoes ==
  /\ GoesOn(R("layers"), {}, G0, GL) /\ GoesOn(R("styles"), {}, GL, GLS)
  /\ GoesOn(R("meta"), {}, GLS, GLSM) /\ GoesOn(R("layers"), {}, GLSM, GLLSM)
  /\ GoesOn(R("styles"), {}, G0, GS) /\ GoesOn(R("layers"), {}, GS, GLS)
  /\ GoesOn(R("meta"), {}, GS, GSM)
  /\ GoesOn(Let("layers"), {}, GL, G0) /\ GoesOn(Let("layers"), {}, GLLSM, GLSM)
  <1> USE DEF GoesOn, Held, Locks
  <1>1. GoesOn(R("layers"), {}, G0, GL)
    BY DEF R, G0, GL
  <1>2. GoesOn(R("styles"), {}, GL, GLS)
    BY DEF R, GL, GLS
  <1>3. GoesOn(R("meta"), {}, GLS, GLSM)
    BY DEF R, GLS, GLSM
  <1>4. GoesOn(R("layers"), {}, GLSM, GLLSM)
    BY DEF R, GLSM, GLLSM
  <1>5. GoesOn(R("styles"), {}, G0, GS)
    BY DEF R, G0, GS
  <1>6. GoesOn(R("layers"), {}, GS, GLS)
    BY DEF R, GS, GLS
  <1>7. GoesOn(R("meta"), {}, GS, GSM)
    BY DEF R, GS, GSM
  <1>8. GoesOn(Let("layers"), {}, GL, G0)
    BY DEF Let, GL, G0
  <1>9. GoesOn(Let("layers"), {}, GLLSM, GLSM)
    BY DEF Let, GLLSM, GLSM
  <1>. QED  BY <1>1, <1>2, <1>3, <1>4, <1>5, <1>6, <1>7, <1>8, <1>9

\* Those of the scripts that write.
LEMMA WritingGoes ==
  /\ GoesOn(W("layers"), {"layers"}, G0, GL)
  /\ \A w \in {{"styles", "meta"}, Locks} :
       /\ GoesOn(Let("layers"), w, GL, G0)
       /\ GoesOn(W("styles"), w, G0, GS) /\ GoesOn(W("meta"), w, GS, GSM)
  /\ GoesOn(R("layers"), {"styles", "meta"}, G0, GL)
  /\ GoesOn(W("layers"), Locks, G0, GL)
  <1> USE DEF GoesOn, Held, Locks
  <1>1. GoesOn(W("layers"), {"layers"}, G0, GL)
    BY DEF W, G0, GL
  <1>2. \A w \in {{"styles", "meta"}, Locks} : GoesOn(Let("layers"), w, GL, G0)
    BY DEF Let, GL, G0
  <1>3. \A w \in {{"styles", "meta"}, Locks} : GoesOn(W("styles"), w, G0, GS)
    BY DEF W, G0, GS
  <1>4. \A w \in {{"styles", "meta"}, Locks} : GoesOn(W("meta"), w, GS, GSM)
    BY DEF W, GS, GSM
  <1>5. GoesOn(R("layers"), {"styles", "meta"}, G0, GL)
    BY DEF R, G0, GL
  <1>6. GoesOn(W("layers"), Locks, G0, GL)
    BY DEF W, G0, GL
  <1>. QED  BY <1>1, <1>2, <1>3, <1>4, <1>5, <1>6

\* Every script goes as the table says.
LEMMA ScriptGoes ==
  ASSUME NEW o \in Ops, NEW i \in 1..Len(Script[o])
  PROVE  GoesOn(Script[o][i], Written[o], Guards[o][i], Guards[o][i + 1])
  <1>1. CASE o = "tile"
    <2>1. Script[o] = Tile /\ Written[o] = {} /\ Guards[o] = <<G0, GL, G0, GL, GLS, GLSM, GLLSM, GLSM>>
      BY <1>1 DEF Script, Written, Guards
    <2>. QED  BY <2>1, ReadingGoes DEF Tile
  <1>2. CASE o = "map"
    <2>1. Script[o] = Map /\ Written[o] = {} /\ Guards[o] = <<G0, GL, GLS, GLSM>>
      BY <1>2 DEF Script, Written, Guards
    <2>. QED  BY <2>1, ReadingGoes DEF Map
  <1>3. CASE o = "get_styles"
    <2>1. Script[o] = GetStyles /\ Written[o] = {} /\ Guards[o] = <<G0, GS, GLS>>
      BY <1>3 DEF Script, Written, Guards
    <2>. QED  BY <2>1, ReadingGoes DEF GetStyles
  <1>4. CASE o = "legend"
    <2>1. Script[o] = Legend /\ Written[o] = {} /\ Guards[o] = <<G0, GL, GLS>>
      BY <1>4 DEF Script, Written, Guards
    <2>. QED  BY <2>1, ReadingGoes DEF Legend
  <1>5. CASE o = "backup"
    <2>1. Script[o] = Backup /\ Written[o] = {} /\ Guards[o] = <<G0, GS, GSM>>
      BY <1>5 DEF Script, Written, Guards
    <2>. QED  BY <2>1, ReadingGoes DEF Backup
  <1>6. CASE o = "write_layer"
    <2>1. Script[o] = WriteLayer /\ Written[o] = {"layers"} /\ Guards[o] = <<G0, GL>>
      BY <1>6 DEF Script, Written, Guards
    <2>. QED  BY <2>1, WritingGoes DEF WriteLayer
  <1>7. CASE o = "put_style"
    <2>1. Script[o] = PutStyle /\ Written[o] = {"styles", "meta"} /\ Guards[o] = <<G0, GL, G0, GS, GSM>>
      BY <1>7 DEF Script, Written, Guards
    <2>. QED  BY <2>1, WritingGoes DEF PutStyle
  <1>8. CASE o = "refresh"
    <2>1. Script[o] = RefreshScript /\ Written[o] = Locks /\ Guards[o] = <<G0, GL, G0, GS, GSM>>
      BY <1>8 DEF Script, Written, Guards
    <2>. QED  BY <2>1, WritingGoes DEF RefreshScript
  <1>. QED  BY <1>1, <1>2, <1>3, <1>4, <1>5, <1>6, <1>7, <1>8, OpsAre

\* All begin with nothing and have seven steps at most.
LEMMA ScriptBegins ==
  ASSUME NEW o \in Ops
  PROVE  Len(Script[o]) \in 1..7 /\ Guards[o][1] = G0
  BY OpsAre
  DEF Script, Guards, Tile, Map, GetStyles, Legend, Backup, WriteLayer, PutStyle, RefreshScript

\* All but two keep to the order.
LEMMA OrderlySteps ==
  /\ \A k \in {"layers", "styles", "meta"} : KeepsOrder(R(k), G0) /\ KeepsOrder(W(k), G0)
  /\ KeepsOrder(R("styles"), GL) /\ KeepsOrder(R("meta"), GLS)
  /\ KeepsOrder(R("meta"), GS) /\ KeepsOrder(W("meta"), GS)
  /\ \A g : KeepsOrder(Let("layers"), g)
  BY DEF KeepsOrder, Rank, Locks, Held, R, W, Let, G0, GL, GLS, GS

LEMMA ScriptKeepsOrder ==
  ASSUME NEW o \in Ops \ Disorderly, NEW i \in 1..Len(Script[o])
  PROVE  KeepsOrder(Script[o][i], Guards[o][i])
  <1> USE OrderlySteps DEF Script, Guards
  <1>1. CASE o = "map"
    BY <1>1 DEF Map
  <1>2. CASE o = "legend"
    BY <1>2 DEF Legend
  <1>3. CASE o = "backup"
    BY <1>3 DEF Backup
  <1>4. CASE o = "write_layer"
    BY <1>4 DEF WriteLayer
  <1>5. CASE o = "put_style"
    BY <1>5 DEF PutStyle
  <1>6. CASE o = "refresh"
    BY <1>6 DEF RefreshScript
  <1>. QED  BY <1>1, <1>2, <1>3, <1>4, <1>5, <1>6, OpsAre DEF Disorderly

-----------------------------------------------------------------------------
\* A task holds what its script says at the place it is at, and nothing
\* between two scripts.
HoldsAsScripted ==
  \A t \in Tasks, l \in Locks :
    IF op[t] = "none" THEN at[t] = 1 /\ readers[l][t] = 0 /\ t \notin writer[l]
    ELSE /\ at[t] \in 1..(Len(Script[op[t]]) + 1)
         /\ readers[l][t] = IF l \in Written[op[t]] THEN 0 ELSE Guards[op[t]][at[t]][l]
         /\ t \in writer[l] <=> l \in Written[op[t]] /\ Guards[op[t]][at[t]][l] = 1

\* Task t is at a step that asks for lock l.
AsksFor(t, l) ==
  op[t] # "none" /\ AtStep(t) /\ Step(t).do \in {"read", "write"} /\ Step(t).lock = l

\* A task waits in one queue at most, once, and it is that of the lock its
\* script asks for.
QueuesAsScripted ==
  \A l \in Locks :
    Unlike(queue[l]) /\ \A i \in 1..Len(queue[l]) : AsksFor(queue[l][i], l)

\* The inductive invariant.
LocksInv == LocksTypeOK /\ HoldsAsScripted /\ QueuesAsScripted

\* What is known of a task at a step.
LEMMA TaskGoes ==
  ASSUME LocksInv, NEW t \in Tasks, AtStep(t)
  PROVE  /\ op[t] \in Ops /\ op[t] # "none"
         /\ at[t] \in 1..Len(Script[op[t]]) /\ Len(Script[op[t]]) \in 1..7
         /\ at[t] \in 1..7
         /\ GoesOn(Step(t), Written[op[t]], Guards[op[t]][at[t]], Guards[op[t]][at[t] + 1])
  <1>1. op[t] \in Ops /\ op[t] # "none"
    BY DEF LocksInv, LocksTypeOK, AtStep
  <1>2. Len(Script[op[t]]) \in 1..7
    BY <1>1, ScriptBegins
  <1>3. at[t] \in 1..Len(Script[op[t]])
    <2>1. at[t] \in 1..8
      BY DEF LocksInv, LocksTypeOK
    <2>2. at[t] <= Len(Script[op[t]])
      BY DEF AtStep
    <2>. QED  BY <1>2, <2>1, <2>2
  <1>5. at[t] \in 1..7
    <2> DEFINE n == Len(Script[op[t]])
    <2>1. n \in 1..7 /\ at[t] \in 1..n
      BY <1>2, <1>3
    <2> HIDE DEF n
    <2>. QED  BY <2>1
  <1>4. GoesOn(Step(t), Written[op[t]], Guards[op[t]][at[t]], Guards[op[t]][at[t] + 1])
    BY <1>1, <1>3, ScriptGoes DEF Step
  <1>. QED  BY <1>1, <1>2, <1>3, <1>4, <1>5

\* Whoever is in a queue asks for that lock.
LEMMA QueuedAsks ==
  ASSUME LocksInv, NEW l \in Locks, NEW t, Contains(queue[l], t)
  PROVE  AsksFor(t, l)
  BY DEF LocksInv, QueuesAsScripted, Contains

\* Task t leaves: nobody else is touched.
LEMMA LeavesKeeps ==
  ASSUME LocksInv, NEW t \in Tasks, Leaves(t)
  PROVE  LocksInv'
  <1>a. LocksTypeOK /\ HoldsAsScripted /\ QueuesAsScripted
    BY DEF LocksInv
  <1>1. /\ op' = [op EXCEPT ![t] = "none"] /\ at' = [at EXCEPT ![t] = 1]
        /\ \A l \in Locks : /\ readers'[l] = [readers[l] EXCEPT ![t] = 0]
                            /\ writer'[l] = writer[l] \ {t}
                            /\ queue'[l] = Without(queue[l], t)
    BY DEF Leaves
  <1>b. ASSUME NEW l \in Locks, NEW v \in Tasks
        PROVE  readers'[l][v] = IF v = t THEN 0 ELSE readers[l][v]
    <2>1. readers[l] \in [Tasks -> 0..2] /\ readers'[l] = [readers[l] EXCEPT ![t] = 0]
      BY <1>a, <1>1 DEF LocksTypeOK
    <2>. QED  BY <2>1
  <1>2. \A l \in Locks :
          /\ queue'[l] \in Seq(Tasks) /\ Unlike(queue'[l])
          /\ \A i \in 1..Len(queue'[l]) :
               queue'[l][i] # t /\ \E j \in 1..Len(queue[l]) : queue'[l][i] = queue[l][j]
    <2> SUFFICES ASSUME NEW l \in Locks
                 PROVE  /\ queue'[l] \in Seq(Tasks) /\ Unlike(queue'[l])
                        /\ \A i \in 1..Len(queue'[l]) :
                             queue'[l][i] # t /\ \E j \in 1..Len(queue[l]) : queue'[l][i] = queue[l][j]
      OBVIOUS
    <2>1. queue[l] \in Seq(Tasks) /\ Unlike(queue[l]) /\ queue'[l] = Without(queue[l], t)
      BY <1>a, <1>1 DEF LocksTypeOK, QueuesAsScripted
    <2>. QED  BY <2>1, WithoutIsShorter
  <1>3. LocksTypeOK'
    <2>1. op' \in [Tasks -> Ops \cup {"none"}] /\ at' \in [Tasks -> 1..8]
      BY <1>a, <1>1 DEF LocksTypeOK
    <2>2. readers' \in [Locks -> [Tasks -> 0..2]] /\ writer' \in [Locks -> SUBSET Tasks]
      BY <1>a DEF LocksTypeOK, Leaves
    <2>3. queue' \in [Locks -> Seq(Tasks)]
      BY <1>2 DEF Leaves
    <2>4. ASSUME NEW l \in Locks, writer'[l] # {}
          PROVE  \E u \in Tasks : Holders(l)' = {u}
      <3>1. PICK u \in Tasks : Holders(l) = {u}
        BY <1>a, <1>1, <2>4 DEF LocksTypeOK
      <3>2. Holders(l)' = Holders(l) \ {t}
        <4>1. \A v \in Tasks : readers'[l][v] > 0 <=> v # t /\ readers[l][v] > 0
          BY <1>b
        <4>2. {v \in Tasks : readers'[l][v] > 0} = {v \in Tasks : readers[l][v] > 0} \ {t}
          BY <4>1
        <4>3. writer'[l] = writer[l] \ {t}
          BY <1>1
        <4>. QED  BY <4>2, <4>3, Zenon DEF Holders
      <3>3. u # t
        BY <1>1, <2>4, <3>1 DEF Holders
      <3>. QED  BY <3>1, <3>2, <3>3
    <2>. QED  BY <2>1, <2>2, <2>3, <2>4 DEF LocksTypeOK
  <1>4. HoldsAsScripted'
    <2>1. ASSUME NEW u \in Tasks, NEW l \in Locks, u # t
          PROVE  /\ op'[u] = op[u] /\ at'[u] = at[u]
                 /\ readers'[l][u] = readers[l][u]
                 /\ u \in writer'[l] <=> u \in writer[l]
      BY <1>a, <1>1, <1>b, <2>1 DEF LocksTypeOK
    <2>2. ASSUME NEW l \in Locks
          PROVE  op'[t] = "none" /\ at'[t] = 1 /\ readers'[l][t] = 0 /\ t \notin writer'[l]
      BY <1>a, <1>1, <1>b DEF LocksTypeOK
    <2>. QED  BY <1>a, <2>1, <2>2 DEF HoldsAsScripted
  <1>5. QueuesAsScripted'
    <2> SUFFICES ASSUME NEW l \in Locks, NEW i \in 1..Len(queue'[l])
                 PROVE  AsksFor(queue[l][i], l)'
      BY <1>2 DEF QueuesAsScripted
    <2>1. PICK j \in 1..Len(queue[l]) : queue'[l][i] = queue[l][j] /\ queue[l][j] # t
      BY <1>2
    <2>2. AsksFor(queue[l][j], l) /\ queue[l][j] \in Tasks
      BY <1>a DEF QueuesAsScripted, LocksTypeOK
    <2>3. op'[queue[l][j]] = op[queue[l][j]] /\ at'[queue[l][j]] = at[queue[l][j]]
      BY <1>a, <1>1, <2>1, <2>2 DEF LocksTypeOK
    <2>. QED  BY <2>1, <2>2, <2>3 DEF AsksFor, AtStep, Step
  <1>. QED  BY <1>3, <1>4, <1>5 DEF LocksInv

LEMMA BeginKeeps ==
  ASSUME LocksInv, NEW t \in Tasks, Begin(t)
  PROVE  LocksInv'
  <1>a. LocksTypeOK /\ HoldsAsScripted /\ QueuesAsScripted
    BY DEF LocksInv
  <1>1. PICK o \in MayDo(t) :
          /\ op' = [op EXCEPT ![t] = o] /\ op[t] = "none"
          /\ UNCHANGED <<at, readers, writer, queue>>
    BY DEF Begin
  <1>2. o \in Ops /\ o # "none"
    BY CatalogLocksAssumption, OpsAre DEF MayDo
  <1>3. Len(Script[o]) \in 1..7 /\ Guards[o][1] = G0
    BY <1>2, ScriptBegins
  <1>4. LocksTypeOK'
    BY <1>a, <1>1, <1>2 DEF LocksTypeOK, Holders
  <1>5. HoldsAsScripted'
    BY <1>a, <1>1, <1>2, <1>3 DEF HoldsAsScripted, LocksTypeOK, G0, Held, Locks
  <1>6. QueuesAsScripted'
    <2> SUFFICES ASSUME NEW l \in Locks, NEW i \in 1..Len(queue[l])
                 PROVE  AsksFor(queue[l][i], l)'
      BY <1>a, <1>1 DEF QueuesAsScripted
    <2>1. AsksFor(queue[l][i], l) /\ queue[l][i] \in Tasks
      BY <1>a DEF QueuesAsScripted, LocksTypeOK
    <2>2. queue[l][i] # t
      BY <1>1, <2>1 DEF AsksFor
    <2>3. op'[queue[l][i]] = op[queue[l][i]]
      BY <1>a, <1>1, <2>1, <2>2 DEF LocksTypeOK
    <2>. QED  BY <1>1, <2>1, <2>3 DEF AsksFor, AtStep, Step
  <1>. QED  BY <1>4, <1>5, <1>6 DEF LocksInv

LEMMA AskKeeps ==
  ASSUME LocksInv, NEW t \in Tasks, Ask(t)
  PROVE  LocksInv'
  <1>a. LocksTypeOK /\ HoldsAsScripted /\ QueuesAsScripted
    BY DEF LocksInv
  <1> DEFINE m == Step(t).lock
  <1>1. /\ AtStep(t) /\ Step(t).do \in {"read", "write"} /\ ~Queued(t)
        /\ queue' = [queue EXCEPT ![m] = Append(@, t)]
        /\ UNCHANGED <<op, at, readers, writer>>
    BY DEF Ask
  <1>2. m \in Locks /\ AsksFor(t, m)
    BY <1>1, TaskGoes DEF GoesOn, AsksFor
  <1> HIDE DEF m
  <1>3. \A i \in 1..Len(queue[m]) : queue[m][i] # t
    BY <1>1, <1>2 DEF Queued, Contains
  <1>4. /\ Append(queue[m], t) \in Seq(Tasks) /\ Len(Append(queue[m], t)) = Len(queue[m]) + 1
        /\ \A i \in 1..Len(queue[m]) : Append(queue[m], t)[i] = queue[m][i]
        /\ Append(queue[m], t)[Len(queue[m]) + 1] = t
        /\ Len(queue[m]) \in Nat
    BY <1>a, <1>2, AppendProperties DEF LocksTypeOK
  <1>5. LocksTypeOK'
    <2>1. queue' \in [Locks -> Seq(Tasks)]
      BY <1>a, <1>1, <1>4 DEF LocksTypeOK
    <2>2. \A l \in Locks : Holders(l)' = Holders(l)
      BY <1>1 DEF Holders
    <2>. QED  BY <1>a, <1>1, <2>1, <2>2 DEF LocksTypeOK
  <1>6. HoldsAsScripted'
    BY <1>a, <1>1 DEF HoldsAsScripted
  <1>7. QueuesAsScripted'
    <2>1. \A u, l : AsksFor(u, l)' <=> AsksFor(u, l)
      BY <1>1 DEF AsksFor, AtStep, Step
    <2>2. ASSUME NEW l \in Locks, l # m
          PROVE  Unlike(queue'[l]) /\ \A i \in 1..Len(queue'[l]) : AsksFor(queue'[l][i], l)
      BY <1>a, <1>1, <2>2 DEF QueuesAsScripted, LocksTypeOK
    <2>3. queue'[m] = Append(queue[m], t)
      BY <1>a, <1>1, <1>2 DEF LocksTypeOK
    <2>4. Unlike(Append(queue[m], t))
      BY <1>a, <1>2, <1>3, <1>4 DEF QueuesAsScripted, Unlike
    <2>5. \A i \in 1..Len(Append(queue[m], t)) : AsksFor(Append(queue[m], t)[i], m)
      BY <1>a, <1>2, <1>4 DEF QueuesAsScripted
    <2>. QED  BY <2>1, <2>2, <2>3, <2>4, <2>5 DEF QueuesAsScripted
  <1>. QED  BY <1>5, <1>6, <1>7 DEF LocksInv

\* What task t does at its step touches nobody else, and no lock but the one
\* of the step.
LEMMA StepKeepsHolds ==
  ASSUME LocksInv, NEW t \in Tasks, AtStep(t), UNCHANGED op, Advance(t),
         \A u \in Tasks, l \in Locks : u # t \/ l # Step(t).lock =>
           readers'[l][u] = readers[l][u] /\ (u \in writer'[l] <=> u \in writer[l]),
         readers'[Step(t).lock][t] = IF Step(t).lock \in Written[op[t]] THEN 0
                                     ELSE Guards[op[t]][at[t] + 1][Step(t).lock],
         t \in writer'[Step(t).lock] <=>
           Step(t).lock \in Written[op[t]] /\ Guards[op[t]][at[t] + 1][Step(t).lock] = 1
  PROVE  HoldsAsScripted'
  <1>a. LocksTypeOK /\ HoldsAsScripted
    BY DEF LocksInv
  <1> DEFINE m == Step(t).lock
             g == Guards[op[t]][at[t]]
             h == Guards[op[t]][at[t] + 1]
             n == Len(Script[op[t]])
  <1>1. op[t] # "none" /\ at[t] \in 1..n /\ n \in 1..7 /\ GoesOn(Step(t), Written[op[t]], g, h)
    BY TaskGoes
  <1>2. \A l \in Locks : l # m => h[l] = g[l]
    BY <1>1 DEF GoesOn
  <1>3. /\ op' = op /\ at'[t] = at[t] + 1
        /\ \A u \in Tasks : u # t => at'[u] = at[u]
    BY <1>a DEF Advance, LocksTypeOK
  <1>4. at'[t] \in 1..(n + 1)
    BY <1>1, <1>3
  <1>5. ASSUME NEW l \in Locks
        PROVE  /\ readers'[l][t] = IF l \in Written[op[t]] THEN 0 ELSE h[l]
               /\ t \in writer'[l] <=> l \in Written[op[t]] /\ h[l] = 1
    <2>1. CASE l = m
      BY <2>1
    <2>2. CASE l # m
      <3>1. /\ readers[l][t] = IF l \in Written[op[t]] THEN 0 ELSE g[l]
            /\ t \in writer[l] <=> l \in Written[op[t]] /\ g[l] = 1
        BY <1>a, <1>1 DEF HoldsAsScripted
      <3>. QED  BY <1>2, <2>2, <3>1
    <2>. QED  BY <2>1, <2>2
  <1>6. ASSUME NEW l \in Locks, NEW u \in Tasks, u # t
        PROVE  /\ readers'[l][u] = readers[l][u]
               /\ u \in writer'[l] <=> u \in writer[l]
    BY <1>6
  <1>. QED  BY <1>a, <1>1, <1>3, <1>4, <1>5, <1>6 DEF HoldsAsScripted

LEMMA GrantKeeps ==
  ASSUME LocksInv, NEW t \in Tasks, Grant(t)
  PROVE  LocksInv'
  <1>a. LocksTypeOK /\ HoldsAsScripted /\ QueuesAsScripted
    BY DEF LocksInv
  <1> DEFINE m == Step(t).lock
             g == Guards[op[t]][at[t]]
             h == Guards[op[t]][at[t] + 1]
  <1>1. AtStep(t) /\ Queued(t) /\ Advance(t) /\ UNCHANGED op
    BY DEF Grant
  <1>2. /\ t = Head(queue[m]) /\ writer[m] = {}
        /\ queue' = [queue EXCEPT ![m] = Tail(@)]
        /\ IF Step(t).do = "read"
           THEN readers' = [readers EXCEPT ![m][t] = @ + 1] /\ UNCHANGED writer
           ELSE /\ Holders(m) = {}
                /\ writer' = [writer EXCEPT ![m] = {t}] /\ UNCHANGED readers
    BY DEF Grant
  <1>3. /\ op[t] \in Ops /\ op[t] # "none" /\ at[t] \in 1..7
        /\ GoesOn(Step(t), Written[op[t]], g, h)
    BY <1>1, TaskGoes
  <1>4. PICK k \in Locks : Contains(queue[k], t)
    BY <1>1 DEF Queued
  <1>5. m \in Locks /\ k = m /\ Step(t).do \in {"read", "write"}
    BY <1>4, QueuedAsks DEF AsksFor
  <1>6. queue[m] \in Seq(Tasks) /\ queue[m] # <<>>
    BY <1>a, <1>4, <1>5 DEF LocksTypeOK, Contains
  <1>7. h = [g EXCEPT ![m] = @ + 1] /\ g \in [Locks -> 0..2] /\ h \in [Locks -> 0..2]
    BY <1>3, <1>5 DEF GoesOn
  <1>8. /\ readers[m][t] = IF m \in Written[op[t]] THEN 0 ELSE g[m]
        /\ t \in writer[m] <=> m \in Written[op[t]] /\ g[m] = 1
    BY <1>a, <1>3, <1>5 DEF HoldsAsScripted
  <1>9. /\ Step(t).do = "read" => m \notin Written[op[t]]
        /\ Step(t).do # "read" => m \in Written[op[t]] /\ g[m] = 0
    <2>1. /\ Step(t).do = "read" => m \notin Written[op[t]]
          /\ Step(t).do = "write" => m \in Written[op[t]]
          /\ \A l \in Written[op[t]] : g[l] <= 1
      BY <1>3 DEF GoesOn
    <2>2. Step(t).do # "read" => t \notin writer[m]
      BY <1>2
    <2>. QED  BY <1>5, <1>7, <1>8, <2>1, <2>2
  <1> HIDE DEF m, g, h
  <1>10. h[m] = g[m] + 1 /\ h[m] \in 0..2
    BY <1>5, <1>7
  <1>11. /\ readers' \in [Locks -> [Tasks -> 0..2]] /\ writer' \in [Locks -> SUBSET Tasks]
         /\ \A u \in Tasks, l \in Locks : u # t \/ l # m =>
              readers'[l][u] = readers[l][u] /\ (u \in writer'[l] <=> u \in writer[l])
         /\ readers'[m][t] = IF m \in Written[op[t]] THEN 0 ELSE h[m]
         /\ t \in writer'[m] <=> m \in Written[op[t]] /\ h[m] = 1
    <2>1. CASE Step(t).do = "read"
      <3>1. readers[m][t] + 1 = h[m] /\ readers' = [readers EXCEPT ![m][t] = h[m]] /\ writer' = writer
        BY <1>2, <1>8, <1>9, <1>10, <2>1
      <3>. QED  BY <1>a, <1>2, <1>5, <1>9, <1>10, <2>1, <3>1 DEF LocksTypeOK
    <2>2. CASE Step(t).do # "read"
      <3>1. h[m] = 1 /\ readers' = readers /\ writer' = [writer EXCEPT ![m] = {t}]
        BY <1>2, <1>9, <1>10, <2>2
      <3>. QED  BY <1>a, <1>2, <1>5, <1>8, <1>9, <2>2, <3>1 DEF LocksTypeOK
    <2>. QED  BY <2>1, <2>2
  <1>12. HoldsAsScripted'
    BY <1>1, <1>11, StepKeepsHolds DEF m, h
  <1>13. /\ Tail(queue[m]) \in Seq(Tasks) /\ Len(Tail(queue[m])) = Len(queue[m]) - 1
         /\ \A i \in 1..Len(Tail(queue[m])) : Tail(queue[m])[i] = queue[m][i + 1]
         /\ queue[m][1] = t /\ Len(queue[m]) \in Nat \ {0}
    BY <1>2, <1>6, HeadTailProperties
  <1>14. /\ \A l \in Locks : l # m => queue'[l] = queue[l]
         /\ queue'[m] = Tail(queue[m])
    BY <1>a, <1>2, <1>5 DEF LocksTypeOK
  <1>15. LocksTypeOK'
    <2>1. op' \in [Tasks -> Ops \cup {"none"}] /\ at' \in [Tasks -> 1..8]
      BY <1>a, <1>1, <1>3 DEF LocksTypeOK, Advance
    <2>2. queue' \in [Locks -> Seq(Tasks)]
      BY <1>a, <1>2, <1>13 DEF LocksTypeOK
    <2>3. ASSUME NEW l \in Locks, writer'[l] # {}
          PROVE  \E u \in Tasks : Holders(l)' = {u}
      <3>1. CASE l # m
        <4>1. Holders(l)' = Holders(l) /\ writer[l] # {}
          <5>1. writer'[l] = writer[l]
            BY <1>a, <1>2, <3>1 DEF LocksTypeOK
          <5>2. {v \in Tasks : readers'[l][v] > 0} = {v \in Tasks : readers[l][v] > 0}
            BY <1>11, <3>1
          <5>. QED  BY <2>3, <5>1, <5>2 DEF Holders
        <4>. QED  BY <1>a, <4>1 DEF LocksTypeOK
      <3>2. CASE l = m
        <4>1. Step(t).do # "read"
          BY <1>2, <2>3, <3>2
        <4>2. writer' = [writer EXCEPT ![m] = {t}] /\ readers' = readers /\ Holders(m) = {}
          BY <1>2, <4>1
        <4>3. writer'[m] = {t} /\ {v \in Tasks : readers[m][v] > 0} = {}
          BY <1>a, <1>5, <4>2 DEF Holders, LocksTypeOK
        <4>. QED  BY <3>2, <4>2, <4>3 DEF Holders
      <3>. QED  BY <3>1, <3>2
    <2>. QED  BY <1>11, <2>1, <2>2, <2>3 DEF LocksTypeOK
  <1>16. QueuesAsScripted'
    <2>1. ASSUME NEW l \in Locks, NEW i \in 1..Len(queue'[l])
          PROVE  AsksFor(queue[l][i], l)'
      <3>1. PICK j \in 1..Len(queue[l]) : queue'[l][i] = queue[l][j] /\ (l = m => j # 1)
        <4>1. CASE l = m
          <5>1. i \in 1..(Len(queue[m]) - 1) /\ queue'[l][i] = queue[m][i + 1]
            BY <1>13, <1>14, <4>1
          <5>2. i + 1 \in 1..Len(queue[m]) /\ i + 1 # 1
            BY <1>13, <5>1
          <5>. QED  BY <4>1, <5>1, <5>2
        <4>2. CASE l # m
          BY <1>14, <4>2
        <4>. QED  BY <4>1, <4>2
      <3>2. AsksFor(queue[l][j], l) /\ queue[l][j] \in Tasks
        BY <1>a DEF QueuesAsScripted, LocksTypeOK
      <3>3. queue[l][j] # t
        <4>1. CASE l = m
          BY <1>a, <1>13, <3>1, <4>1 DEF QueuesAsScripted, Unlike
        <4>2. CASE l # m
          BY <1>5, <3>2, <4>2 DEF AsksFor, m
        <4>. QED  BY <4>1, <4>2
      <3>4. op' = op /\ at'[queue[l][j]] = at[queue[l][j]]
        BY <1>a, <1>1, <3>2, <3>3 DEF Advance, LocksTypeOK
      <3>. QED  BY <3>1, <3>2, <3>4 DEF AsksFor, AtStep, Step
    <2>2. ASSUME NEW l \in Locks PROVE Unlike(queue'[l])
      <3>1. CASE l = m
        <4>1. Unlike(queue[m])
          BY <1>a, <1>5 DEF QueuesAsScripted
        <4>2. Unlike(Tail(queue[m]))
          <5> SUFFICES ASSUME NEW i \in 1..Len(Tail(queue[m])), NEW j \in 1..Len(Tail(queue[m])),
                              Tail(queue[m])[i] = Tail(queue[m])[j]
                       PROVE  i = j
            BY DEF Unlike
          <5>1. /\ i \in Nat /\ j \in Nat /\ i + 1 \in 1..Len(queue[m]) /\ j + 1 \in 1..Len(queue[m])
                /\ queue[m][i + 1] = queue[m][j + 1]
            BY <1>13
          <5>2. i + 1 = j + 1
            BY <4>1, <5>1 DEF Unlike
          <5>. QED  BY <5>1, <5>2
        <4>. QED  BY <1>14, <3>1, <4>2
      <3>2. CASE l # m
        BY <1>a, <1>14, <3>2 DEF QueuesAsScripted
      <3>. QED  BY <3>1, <3>2
    <2>. QED  BY <2>1, <2>2 DEF QueuesAsScripted
  <1>. QED  BY <1>12, <1>15, <1>16 DEF LocksInv

LEMMA LetGoKeeps ==
  ASSUME LocksInv, NEW t \in Tasks, LetGo(t)
  PROVE  LocksInv'
  <1>a. LocksTypeOK /\ HoldsAsScripted /\ QueuesAsScripted
    BY DEF LocksInv
  <1> DEFINE m == Step(t).lock
             g == Guards[op[t]][at[t]]
             h == Guards[op[t]][at[t] + 1]
  <1>1. /\ AtStep(t) /\ Step(t).do = "let go" /\ Advance(t)
        /\ UNCHANGED op /\ UNCHANGED queue
    BY DEF LetGo
  <1>2. IF t \in writer[m]
        THEN writer' = [writer EXCEPT ![m] = {}] /\ UNCHANGED readers
        ELSE readers' = [readers EXCEPT ![m][t] = @ - 1] /\ UNCHANGED writer
    BY DEF LetGo
  <1>3. /\ op[t] \in Ops /\ op[t] # "none" /\ at[t] \in 1..7
        /\ GoesOn(Step(t), Written[op[t]], g, h)
    BY <1>1, TaskGoes
  <1>5. m \in Locks
    BY <1>3 DEF GoesOn
  <1>7. /\ h = [g EXCEPT ![m] = @ - 1] /\ g \in [Locks -> 0..2] /\ h \in [Locks -> 0..2]
        /\ m \in Written[op[t]] => g[m] <= 1
    BY <1>1, <1>3 DEF GoesOn
  <1>8. /\ readers[m][t] = IF m \in Written[op[t]] THEN 0 ELSE g[m]
        /\ t \in writer[m] <=> m \in Written[op[t]] /\ g[m] = 1
    BY <1>a, <1>3, <1>5 DEF HoldsAsScripted
  <1> HIDE DEF m, g, h
  <1>10. h[m] = g[m] - 1 /\ h[m] \in 0..2 /\ g[m] \in 0..2
    BY <1>5, <1>7
  <1>11. /\ readers' \in [Locks -> [Tasks -> 0..2]] /\ writer' \in [Locks -> SUBSET Tasks]
         /\ \A u \in Tasks, l \in Locks : u # t \/ l # m =>
              readers'[l][u] = readers[l][u] /\ (u \in writer'[l] <=> u \in writer[l])
         /\ readers'[m][t] = IF m \in Written[op[t]] THEN 0 ELSE h[m]
         /\ t \in writer'[m] <=> m \in Written[op[t]] /\ h[m] = 1
    <2>1. CASE t \in writer[m]
      <3>1. h[m] = 0 /\ readers' = readers /\ writer' = [writer EXCEPT ![m] = {}]
        BY <1>2, <1>8, <1>10, <2>1
      <3>2. writer[m] = {t}
        BY <1>a, <1>5, <2>1 DEF LocksTypeOK, Holders
      <3>. QED  BY <1>a, <1>5, <1>8, <2>1, <3>1, <3>2 DEF LocksTypeOK
    <2>2. CASE t \notin writer[m]
      <3>1. m \notin Written[op[t]]
        BY <1>7, <1>8, <1>10, <2>2
      <3>2. readers[m][t] - 1 = h[m] /\ readers' = [readers EXCEPT ![m][t] = h[m]] /\ writer' = writer
        BY <1>2, <1>8, <1>10, <2>2, <3>1
      <3>. QED  BY <1>a, <1>5, <1>10, <2>2, <3>1, <3>2 DEF LocksTypeOK
    <2>. QED  BY <2>1, <2>2
  <1>12. HoldsAsScripted'
    BY <1>1, <1>11, StepKeepsHolds DEF m, h
  <1>15. LocksTypeOK'
    <2>1. op' \in [Tasks -> Ops \cup {"none"}] /\ at' \in [Tasks -> 1..8]
      <3>1. op' = op /\ at' = [at EXCEPT ![t] = @ + 1] /\ at \in [Tasks -> 1..8] /\ at[t] \in 1..7
        BY <1>a, <1>1, <1>3 DEF LocksTypeOK, Advance
      <3>. QED  BY <1>a, <3>1 DEF LocksTypeOK
    <2>3. ASSUME NEW l \in Locks, writer'[l] # {}
          PROVE  \E u \in Tasks : Holders(l)' = {u}
      <3>1. writer'[l] = writer[l]
        BY <1>a, <1>2, <1>5, <2>3 DEF LocksTypeOK
      <3>2. PICK u \in Tasks : Holders(l) = {u} /\ writer[l] = {u}
        <4>1. writer[l] \subseteq Holders(l)
          BY DEF Holders
        <4>. QED  BY <1>a, <2>3, <3>1, <4>1 DEF LocksTypeOK
      <3>3. \A v \in Tasks : readers'[l][v] > 0 => readers[l][v] > 0
        <4>1. ASSUME NEW v \in Tasks, readers'[l][v] > 0, ~(readers[l][v] > 0)
              PROVE  FALSE
          <5>1. v = t /\ l = m
            BY <1>11, <4>1
          <5>2. readers[m][t] \in 0..2 /\ (readers' = [readers EXCEPT ![m][t] = @ - 1] \/ readers' = readers)
            BY <1>a, <1>2, <1>5 DEF LocksTypeOK
          <5>. QED  BY <1>a, <1>5, <4>1, <5>1, <5>2 DEF LocksTypeOK
        <4>. QED  BY <4>1
      <3>4. {v \in Tasks : readers'[l][v] > 0} \subseteq {v \in Tasks : readers[l][v] > 0}
        BY <3>3
      <3>. QED  BY <3>1, <3>2, <3>4 DEF Holders
    <2>. QED  BY <1>a, <1>1, <1>11, <2>1, <2>3 DEF LocksTypeOK
  <1>16. QueuesAsScripted'
    <2>1. ASSUME NEW l \in Locks, NEW i \in 1..Len(queue[l])
          PROVE  AsksFor(queue[l][i], l)'
      <3>2. AsksFor(queue[l][i], l) /\ queue[l][i] \in Tasks
        BY <1>a DEF QueuesAsScripted, LocksTypeOK
      <3>3. queue[l][i] # t
        BY <1>1, <3>2 DEF AsksFor
      <3>4. op' = op /\ queue' = queue /\ at'[queue[l][i]] = at[queue[l][i]]
        BY <1>a, <1>1, <3>2, <3>3 DEF Advance, LocksTypeOK
      <3>. QED  BY <3>2, <3>4 DEF AsksFor, AtStep, Step
    <2>. QED  BY <1>a, <1>1, <2>1 DEF QueuesAsScripted
  <1>. QED  BY <1>12, <1>15, <1>16 DEF LocksInv

LEMMA LocksInvInit ==
  LocksInit => LocksInv
  <1> SUFFICES ASSUME LocksInit PROVE LocksInv
    OBVIOUS
  <1>1. LocksTypeOK
    BY DEF LocksInit, LocksTypeOK
  <1>2. HoldsAsScripted
    BY DEF LocksInit, HoldsAsScripted
  <1>3. QueuesAsScripted
    BY DEF LocksInit, QueuesAsScripted, Unlike
  <1>. QED  BY <1>1, <1>2, <1>3 DEF LocksInv

LEMMA LocksInvStep ==
  LocksInv /\ [LocksNext]_lockVars => LocksInv'
  <1> SUFFICES ASSUME LocksInv, [LocksNext]_lockVars PROVE LocksInv'
    OBVIOUS
  <1>1. ASSUME NEW t \in Tasks, Begin(t) PROVE LocksInv'
    BY <1>1, BeginKeeps
  <1>2. ASSUME NEW t \in Tasks, Ask(t) PROVE LocksInv'
    BY <1>2, AskKeeps
  <1>3. ASSUME NEW t \in Tasks, Grant(t) PROVE LocksInv'
    BY <1>3, GrantKeeps
  <1>4. ASSUME NEW t \in Tasks, LetGo(t) PROVE LocksInv'
    BY <1>4, LetGoKeeps
  <1>5. ASSUME NEW t \in Tasks, End(t) PROVE LocksInv'
    <2>1. Leaves(t)
      BY <1>5 DEF End
    <2>. QED  BY <2>1, LeavesKeeps
  <1>6. ASSUME NEW t \in Tasks, DropHandler(t) PROVE LocksInv'
    <2>1. Leaves(t)
      BY <1>6 DEF DropHandler
    <2>. QED  BY <2>1, LeavesKeeps
  <1>7. CASE UNCHANGED lockVars
    BY <1>7 DEF lockVars, LocksInv, LocksTypeOK, Holders, HoldsAsScripted, QueuesAsScripted, AsksFor, AtStep, Step
  <1>. QED  BY <1>1, <1>2, <1>3, <1>4, <1>5, <1>6, <1>7 DEF LocksNext, Go

\* Every variable keeps its type, and a guard that writes is the only one:
\* what the tokio RwLock promises of its queue and its guards.
THEOREM LocksTypeCorrect == LocksSpec => []LocksTypeOK
  <1>1. LocksInv => LocksTypeOK
    BY DEF LocksInv
  <1>. QED  BY <1>1, LocksInvInit, LocksInvStep, PTL DEF LocksSpec

\* A task holds the guards its script says, and waits in the queue of the
\* lock its script asks for, in no other and there once: nobody keeps a guard
\* or a place after its handler is through or was dropped at the timeout.
THEOREM LocksFollowScripts == LocksSpec => [](HoldsAsScripted /\ QueuesAsScripted)
  <1>1. LocksInv => HoldsAsScripted /\ QueuesAsScripted
    BY DEF LocksInv
  <1>. QED  BY <1>1, LocksInvInit, LocksInvStep, PTL DEF LocksSpec

-----------------------------------------------------------------------------
(* Who waits for whom.                                                     *)

\* The place of task t in the queue it waits in.
Place(t) == CHOOSE i \in DOMAIN queue[Step(t).lock] : queue[Step(t).lock][i] = t

LEMMA QueuedPlace ==
  ASSUME LocksInv, NEW t \in Tasks, Queued(t)
  PROVE  /\ AsksFor(t, Step(t).lock) /\ Step(t).lock \in Locks
         /\ Place(t) \in 1..Len(queue[Step(t).lock])
         /\ \A i \in 1..Len(queue[Step(t).lock]) : queue[Step(t).lock][i] = t => i = Place(t)
  <1>1. PICK l \in Locks : Contains(queue[l], t)
    BY DEF Queued
  <1>2. AsksFor(t, l) /\ Step(t).lock = l
    BY <1>1, QueuedAsks DEF AsksFor
  <1>3. Place(t) \in DOMAIN queue[l] /\ queue[l][Place(t)] = t
    BY <1>1, <1>2 DEF Place, Contains
  <1>4. queue[l] \in Seq(Tasks) /\ Unlike(queue[l])
    BY DEF LocksInv, LocksTypeOK, QueuesAsScripted
  <1>. QED  BY <1>2, <1>3, <1>4 DEF Unlike

\* Whoever holds a lock and waits for another that keeps to the order waits
\* for one that comes later in it.
LEMMA HolderWaitsForLater ==
  ASSUME LocksInv, NEW u \in Tasks, NEW l \in Locks, u \in Holders(l), Queued(u),
         op[u] \notin Disorderly
  PROVE  Rank[l] < Rank[Step(u).lock]
  <1>1. AsksFor(u, Step(u).lock)
    BY QueuedPlace
  <1>2. /\ AtStep(u) /\ op[u] \in Ops \ Disorderly /\ at[u] \in 1..Len(Script[op[u]])
        /\ Step(u).do # "let go" /\ op[u] # "none"
    BY <1>1, TaskGoes DEF AsksFor
  <1> DEFINE g == Guards[op[u]][at[u]]
  <1>3. KeepsOrder(Step(u), g)
    BY <1>2, ScriptKeepsOrder DEF Step
  <1>4. readers[l][u] > 0 \/ u \in writer[l]
    BY DEF Holders
  <1>5. /\ readers[l][u] = IF l \in Written[op[u]] THEN 0 ELSE g[l]
        /\ u \in writer[l] <=> l \in Written[op[u]] /\ g[l] = 1
    BY <1>2 DEF LocksInv, HoldsAsScripted
  <1>6. g[l] > 0
    BY <1>4, <1>5
  <1>. QED  BY <1>2, <1>3, <1>6 DEF KeepsOrder

\* Whoever waits for a task that waits itself, and keeps to the order, waits
\* for a lock before that of the other or stands behind it in the same queue.
LEMMA WaitsForLater ==
  ASSUME LocksInv, NEW t \in Tasks, NEW u \in Tasks, Queued(t), Queued(u),
         u \in WaitsFor(t), op[u] \notin Disorderly
  PROVE  \/ Rank[Step(t).lock] < Rank[Step(u).lock]
         \/ Step(u).lock = Step(t).lock /\ Place(u) < Place(t)
  <1> DEFINE l == Step(t).lock
  <1>1. /\ l \in Locks /\ Place(t) \in 1..Len(queue[l])
    BY QueuedPlace
  <1>2. \/ u \in {queue[l][j] : j \in 1..(Place(t) - 1)}
        \/ u \in Holders(l)
    BY DEF WaitsFor, Place, Holders
  <1>3. CASE u \in Holders(l)
    BY <1>1, <1>3, HolderWaitsForLater
  <1>4. CASE u \in {queue[l][j] : j \in 1..(Place(t) - 1)}
    <2>1. PICK j \in 1..(Place(t) - 1) : u = queue[l][j]
      BY <1>4
    <2>2. queue[l] \in Seq(Tasks)
      BY <1>1 DEF LocksInv, LocksTypeOK
    <2>3. j \in 1..Len(queue[l]) /\ j < Place(t)
      BY <1>1, <2>1, <2>2
    <2>4. AsksFor(u, l)
      BY <1>1, <2>1, <2>3 DEF LocksInv, QueuesAsScripted
    <2>5. Step(u).lock = l
      BY <2>4 DEF AsksFor
    <2>6. Place(u) = j
      BY <2>1, <2>3, <2>5, QueuedPlace
    <2>. QED  BY <2>3, <2>5, <2>6
  <1>. QED  BY <1>2, <1>3, <1>4

LEMMA LocksInvOnlyDisorder ==
  LocksInv => OnlyDisorderDeadlocks
  <1> SUFFICES ASSUME LocksInv, NEW S \in SUBSET Tasks, Circle(S),
                      \A t \in S : op[t] \notin Disorderly
               PROVE  FALSE
    BY DEF OnlyDisorderDeadlocks, Disorderly
  <1>1. S # {} /\ \A t \in S : Queued(t) /\ \E u \in S : u \in WaitsFor(t)
    BY DEF Circle
  <1> DEFINE Down(t) == 3 - Rank[Step(t).lock]
  <1>2. ASSUME NEW t \in S
        PROVE  /\ Down(t) \in Nat /\ Rank[Step(t).lock] \in 1..3 /\ Step(t).lock \in Locks
               /\ Place(t) \in Nat
    <2>1. Step(t).lock \in Locks /\ Place(t) \in 1..Len(queue[Step(t).lock])
      BY <1>1, QueuedPlace
    <2>2. Rank[Step(t).lock] \in 1..3
      BY <2>1 DEF Rank, Locks
    <2>. QED  BY <2>1, <2>2
  \* Of those that wait for the last lock, the one in front waits for nobody.
  <1>3. PICK a \in S : \A t \in S : Rank[Step(t).lock] <= Rank[Step(a).lock]
    <2>1. {Down(t) : t \in S} \in SUBSET Nat /\ {Down(t) : t \in S} # {}
      BY <1>1, <1>2
    <2>2. PICK d \in {Down(t) : t \in S} : \A n \in {Down(t) : t \in S} : d <= n
      BY <2>1, LeastNatural
    <2>3. PICK a \in S : d = Down(a)
      BY <2>2
    <2>4. \A t \in S : Down(a) <= Down(t)
      BY <2>2, <2>3
    <2>. QED  BY <1>2, <2>4
  <1> DEFINE P == {t \in S : Step(t).lock = Step(a).lock}
  <1>4. PICK b \in P : \A t \in P : Place(b) <= Place(t)
    <2>1. {Place(t) : t \in P} \in SUBSET Nat /\ {Place(t) : t \in P} # {}
      BY <1>2
    <2>2. PICK d \in {Place(t) : t \in P} : \A n \in {Place(t) : t \in P} : d <= n
      BY <2>1, LeastNatural
    <2>. QED  BY <2>2
  <1>5. PICK u \in S : u \in WaitsFor(b)
    BY <1>1
  <1>6. \/ Rank[Step(b).lock] < Rank[Step(u).lock]
        \/ Step(u).lock = Step(b).lock /\ Place(u) < Place(b)
    BY <1>1, <1>5, WaitsForLater
  <1>7. CASE Rank[Step(b).lock] < Rank[Step(u).lock]
    BY <1>2, <1>3, <1>7
  <1>8. CASE Step(u).lock = Step(b).lock /\ Place(u) < Place(b)
    BY <1>2, <1>4, <1>8
  <1>. QED  BY <1>6, <1>7, <1>8

\* Tasks that wait for each other in a circle never are all of those that
\* lock the layers, the styles and the metadata in this order: every such
\* circle has a tile or a GetStyles in it, however many tasks there are.
THEOREM LocksOnlyDisorderDeadlocks == LocksSpec => []OnlyDisorderDeadlocks
  <1>. QED  BY LocksInvInit, LocksInvStep, LocksInvOnlyDisorder, PTL DEF LocksSpec

-----------------------------------------------------------------------------
(* Of the questions (Questions), those about the metadata stores and the   *)
(* routes of the administration.                                           *)

\* All other questions are asked once.
LEMMA WhatIsCalled ==
  ASSUME [ProvedNext]_question
  PROVE  \/ question' = question \/ question'.about \notin {"stores", "routes"}
         \/ (AskStores \/ CallStores) /\ question'.about = "stores"
         \/ (AskRoutes \/ CallRoutes) /\ question'.about = "routes"
  <1>1. AskRules \/ AskGrid \/ AskBackup \/ AskFiles => question'.about \notin {"stores", "routes"}
    BY DEF AskRules, AskGrid, AskBackup, AskFiles, Asks
  <1>2. AskStores => question'.about = "stores"
    BY DEF AskStores
  <1>3. CallStores => question'.about = "stores"
    <2>1. \A lite, pg : Call(lite, pg) => question'.about = "stores"
      BY DEF Call, Goes
    <2>2. StartAgain => question'.about = "stores"
      BY DEF StartAgain, Goes
    <2>. QED  BY <2>1, <2>2, Zenon
              DEF CallStores, CallWorkspaces, CallNamespaces, CallDataSources, CallLayers, CallSqlViews,
                  CallUsers, CallPermissions, CallStyles, CallLayerGroups, CallSessions, CallSettings
  <1>4. \A subject, calls, srv, told : RoutesGo(subject, calls, srv, told) => question'.about = "routes"
    BY DEF RoutesGo
  <1>5. AskRoutes => question'.about = "routes"
    BY <1>4, Zenon DEF AskRoutes
  <1>6. CallRoutes => question'.about = "routes"
    <2>1. \A answer, statuses, told : Routed(answer, statuses, told) => question'.about = "routes"
      BY <1>4 DEF Routed
    <2>2. \A answer, status, told : Told(answer, status, told) => question'.about = "routes"
      BY <2>1 DEF Told
    <2>. QED  BY <2>1, <2>2, Zenon
              DEF CallRoutes, RouteWorkspaces, RouteNamespaces, RouteStores, RouteViews, RoutePermissions
  <1>. QED  BY <1>1, <1>2, <1>3, <1>5, <1>6 DEF ProvedNext

\* Names that are different, as many as there are, are all of them.
LEMMA ListedOnce ==
  ASSUME NEW S, IsFiniteSet(S), NEW names \in [1 .. Cardinality(S) -> S],
         \A i, j \in 1 .. Cardinality(S) : names[i] = names[j] => i = j
  PROVE  /\ names \in Seq(S) /\ Len(names) = Cardinality(S)
         /\ \A n \in S : \E i \in 1 .. Len(names) : names[i] = n
  <1>. DEFINE m == Cardinality(S)
  <1>1. m \in Nat
    BY FS_CardinalityType
  <1>2. names \in Injection(1 .. m, S)
    BY DEF Injection, IsInjective
  <1>3. IsFiniteSet(1 .. m) /\ Cardinality(1 .. m) = m
    BY <1>1, FS_Interval
  <1>4. names \in Surjection(1 .. m, S)
    BY <1>2, <1>3, FS_Injection
  <1>5. \A n \in S : \E i \in 1 .. m : names[i] = n
    BY <1>4 DEF Surjection
  <1>. HIDE DEF m
  <1>6. names \in Seq(S) /\ Len(names) = m
    BY <1>1 DEF m
  <1>. QED  BY <1>5, <1>6 DEF m

-----------------------------------------------------------------------------
(* Questions: the metadata stores.                                         *)

\* Tables of styles and of groups: alike but for when a row was created.
SameRows(l, p) ==
  /\ DOMAIN l = DOMAIN p
  /\ \A k \in DOMAIN l :
       /\ DOMAIN l[k] = DOMAIN p[k]
       /\ \A c \in DOMAIN l[k] \ {"created"} : l[k][c] = p[k][c]

\* Tables whose rows have columns that came later.
WithColumns(l, p, columns) == l = p /\ \A k \in DOMAIN l : DOMAIN columns \subseteq DOMAIN l[k]

\* Permissions.
Copies(t, rule) == {i \in DOMAIN t.rows : t.rows[i] = rule}

Numbered(t) ==
  /\ t = [rows |-> t.rows, last |-> t.last]
  /\ t.last \in Nat /\ DOMAIN t.rows \subseteq 1 .. t.last

SameRules(l, p) ==
  /\ Numbered(l) /\ Numbered(p)
  /\ \A i \in DOMAIN p.rows : Pg!LikeDefault(p.rows[i]) => p.rows[i] = Pg!DefaultRule
  /\ \A rule \in Range(l.rows) \cup Range(p.rows) :
       rule # Pg!DefaultRule => Cardinality(Copies(l, rule)) = Cardinality(Copies(p, rule))
  /\ Copies(l, Pg!DefaultRule) = {} <=> Copies(p, Pg!DefaultRule) = {}
  /\ Cardinality(Copies(p, Pg!DefaultRule)) <= Cardinality(Copies(l, Pg!DefaultRule))

SameTable(table, l, p) ==
  /\ table \in {"styles", "layer_groups"} => SameRows(l, p)
  /\ table = "data_sources" => WithColumns(l, p, Lite!LaterInSources)
  /\ table = "layers" => WithColumns(l, p, Lite!LaterInLayers)
  /\ table = "permissions" => SameRules(l, p)
  /\ table \notin {"styles", "layer_groups", "permissions"} => l = p

IsDatabase(db) == db = [t \in TableNames |-> db[t]]

StoresState ==
  /\ question = [about |-> "stores", table |-> question.table, calls |-> question.calls,
                 alike |-> TRUE, lite |-> question.lite, pg |-> question.pg]
  /\ question.table \in TableNames /\ question.calls \in Nat
  /\ IsDatabase(question.lite) /\ IsDatabase(question.pg)
  /\ \A t \in TableNames : SameTable(t, question.lite[t], question.pg[t])

StoresInv == question.about = "stores" => StoresState

-----------------------------------------------------------------------------
LEMMA TheTables ==
  TableNames = {"workspaces", "namespaces", "data_sources", "layers", "sql_views", "users", "audit_log",
                "permissions", "styles", "layer_groups", "sessions", "service_settings"}
  BY DEF TableNames, Lite!NoTables

\* A table of rules is finite, and so are the copies in it.
LEMMA FewCopies ==
  ASSUME NEW t, Numbered(t), NEW rule
  PROVE  IsFiniteSet(Copies(t, rule)) /\ Cardinality(Copies(t, rule)) \in Nat
  <1>1. IsFiniteSet(1 .. t.last)
    <2>1. 1 \in Int /\ t.last \in Int
      BY DEF Numbered
    <2>. QED  BY <2>1, FS_Interval
  <1>2. Copies(t, rule) \subseteq 1 .. t.last
    BY DEF Copies, Numbered
  <1>. QED  BY <1>1, <1>2, FS_Subset, FS_CardinalityType

\* A new rule has a number of its own.
NewRule(t, rule) == [rows |-> Lite!Put(t.rows, t.last + 1, rule), last |-> t.last + 1]

LEMMA OneCopyMore ==
  ASSUME NEW t, Numbered(t), NEW rule
  PROVE  /\ Numbered(NewRule(t, rule))
         /\ Range(NewRule(t, rule).rows) = Range(t.rows) \cup {rule}
         /\ Copies(NewRule(t, rule), rule) # {}
         /\ Cardinality(Copies(NewRule(t, rule), rule)) = Cardinality(Copies(t, rule)) + 1
         /\ \A v : v # rule => Copies(NewRule(t, rule), v) = Copies(t, v)
  <1> DEFINE new == NewRule(t, rule)
             id == t.last + 1
  <1>1. /\ id \in Nat /\ id \notin DOMAIN t.rows
        /\ new = [rows |-> new.rows, last |-> id] /\ DOMAIN new.rows = DOMAIN t.rows \cup {id}
        /\ \A i \in DOMAIN t.rows : new.rows[i] = t.rows[i]
        /\ new.rows[id] = rule
    BY DEF Numbered, NewRule, Lite!Put
  <1>2. Numbered(new)
    <2>1. DOMAIN t.rows \cup {id} \subseteq 1 .. id
      BY DEF Numbered
    <2>. QED  BY <1>1, <2>1 DEF Numbered
  <1> HIDE DEF new, id
  <1>3. /\ Copies(new, rule) = Copies(t, rule) \cup {id} /\ id \notin Copies(t, rule)
        /\ \A v : v # rule => Copies(new, v) = Copies(t, v)
    BY <1>1 DEF Copies
  <1>4. Cardinality(Copies(new, rule)) = Cardinality(Copies(t, rule)) + 1
    BY <1>3, FewCopies, FS_AddElement
  <1>5. Range(new.rows) = Range(t.rows) \cup {rule}
    BY <1>1 DEF Range
  <1>. QED  BY <1>2, <1>3, <1>4, <1>5 DEF new

WithoutRule(t, id) == [t EXCEPT !.rows = Restrict(@, DOMAIN @ \ {id})]

LEMMA OneCopyLess ==
  ASSUME NEW t, Numbered(t), NEW id \in DOMAIN t.rows
  PROVE  /\ Numbered(WithoutRule(t, id))
         /\ Range(WithoutRule(t, id).rows) \subseteq Range(t.rows)
         /\ Copies(WithoutRule(t, id), t.rows[id]) = Copies(t, t.rows[id]) \ {id}
         /\ Cardinality(Copies(WithoutRule(t, id), t.rows[id])) = Cardinality(Copies(t, t.rows[id])) - 1
         /\ \A v : v # t.rows[id] => Copies(WithoutRule(t, id), v) = Copies(t, v)
  <1> DEFINE new == WithoutRule(t, id)
  <1>1. /\ new = [rows |-> new.rows, last |-> t.last] /\ DOMAIN new.rows = DOMAIN t.rows \ {id}
        /\ \A i \in DOMAIN t.rows \ {id} : new.rows[i] = t.rows[i]
    BY DEF Numbered, WithoutRule, Restrict
  <1>2. Numbered(new)
    BY <1>1 DEF Numbered
  <1> HIDE DEF new
  <1>3. /\ Copies(new, t.rows[id]) = Copies(t, t.rows[id]) \ {id} /\ id \in Copies(t, t.rows[id])
        /\ \A v : v # t.rows[id] => Copies(new, v) = Copies(t, v)
    BY <1>1 DEF Copies
  <1>4. Cardinality(Copies(new, t.rows[id])) = Cardinality(Copies(t, t.rows[id])) - 1
    <2>1. IsFiniteSet(Copies(t, t.rows[id]))
      BY FewCopies
    <2>2. Cardinality(Copies(t, t.rows[id]) \ {id}) = Cardinality(Copies(t, t.rows[id])) - 1
      BY <1>3, <2>1, FS_RemoveElement
    <2>. QED  BY <1>3, <2>2
  <1>5. Range(new.rows) \subseteq Range(t.rows)
    BY <1>1 DEF Range
  <1>. QED  BY <1>2, <1>3, <1>4, <1>5, Zenon DEF new

\* A rule is in the table if there is a copy of it.
LEMMA InRange == ASSUME NEW t, NEW rule PROVE rule \in Range(t.rows) <=> Copies(t, rule) # {}
  BY DEF Range, Copies

LEMMA SameRange == ASSUME NEW l, NEW p, SameRules(l, p) PROVE Range(l.rows) = Range(p.rows)
  <1>1. ASSUME NEW rule \in Range(l.rows) \cup Range(p.rows)
        PROVE  Copies(l, rule) = {} <=> Copies(p, rule) = {}
    <2>1. CASE rule = Pg!DefaultRule
      BY <2>1 DEF SameRules
    <2>2. CASE rule # Pg!DefaultRule
      BY <2>2, FewCopies, FS_EmptySet DEF SameRules
    <2>. QED  BY <2>1, <2>2
  <1>. QED  BY <1>1, InRange

\* What a check comes to depends on which rules there are, not on their numbers.
LEMMA SameChecks ==
  ASSUME NEW l, NEW p, Range(l.rows) = Range(p.rows),
         NEW username, NEW role, NEW type, NEW asked, NEW mode
  PROVE  Lite!check_permission(l, username, role, type, asked, mode)
           = Pg!check_permission(p, username, role, type, asked, mode)
  <1> DEFINE Matches(rule) ==
               /\ rule.username \in {username, "*"} /\ rule.role \in {role, "*"}
               /\ rule.type \in {type, "*"} /\ rule.name \in {asked, "*"}
               /\ rule.mode \in {mode, "admin"}
             Matching(t) == {i \in DOMAIN t.rows : Matches(t.rows[i])}
             First(t) == {i \in Matching(t) : \A j \in Matching(t) : t.rows[j].priority <= t.rows[i].priority}
             Best(t) == {t.rows[i].effect = "allow" : i \in First(t)}
  <1>1. /\ Lite!check_permission(l, username, role, type, asked, mode)
             = IF Matching(l) = {} THEN {role = "admin"} ELSE Best(l)
        /\ Pg!check_permission(p, username, role, type, asked, mode)
             = IF Matching(p) = {} THEN {role = "admin"} ELSE Best(p)
    BY DEF Lite!check_permission, Pg!check_permission
  <1> HIDE DEF Matches
  <1>2. /\ \A i \in DOMAIN l.rows : \E j \in DOMAIN p.rows : l.rows[i] = p.rows[j]
        /\ \A j \in DOMAIN p.rows : \E i \in DOMAIN l.rows : l.rows[i] = p.rows[j]
    BY DEF Range
  <1>3. Matching(l) = {} <=> Matching(p) = {}
    BY <1>2
  <1>4. /\ \A i \in First(l) : \E j \in First(p) : l.rows[i] = p.rows[j]
        /\ \A j \in First(p) : \E i \in First(l) : l.rows[i] = p.rows[j]
    BY <1>2
  <1>5. Best(l) = Best(p)
    <2> HIDE DEF First
    <2>. QED  BY <1>4
  <1>. QED  BY <1>1, <1>3, <1>5

\* The same rule is made in both.
LEMMA SameRulesMade ==
  ASSUME NEW l, NEW p, SameRules(l, p), NEW rule, Pg!LikeDefault(rule) => rule = Pg!DefaultRule
  PROVE  SameRules(NewRule(l, rule), NewRule(p, rule))
  <1> DEFINE l2 == NewRule(l, rule)
             p2 == NewRule(p, rule)
  <1>1. Numbered(l) /\ Numbered(p)
    BY DEF SameRules
  <1>2. /\ Numbered(l2) /\ Numbered(p2)
        /\ Range(l2.rows) = Range(l.rows) \cup {rule} /\ Range(p2.rows) = Range(p.rows) \cup {rule}
        /\ Copies(l2, rule) # {} /\ Copies(p2, rule) # {}
        /\ Cardinality(Copies(l2, rule)) = Cardinality(Copies(l, rule)) + 1
        /\ Cardinality(Copies(p2, rule)) = Cardinality(Copies(p, rule)) + 1
        /\ \A v : v # rule => Copies(l2, v) = Copies(l, v) /\ Copies(p2, v) = Copies(p, v)
    <2>1. ASSUME NEW t, Numbered(t)
          PROVE  LET new == NewRule(t, rule)
                 IN  /\ Numbered(new) /\ Range(new.rows) = Range(t.rows) \cup {rule}
                     /\ Copies(new, rule) # {}
                     /\ Cardinality(Copies(new, rule)) = Cardinality(Copies(t, rule)) + 1
                     /\ \A v : v # rule => Copies(new, v) = Copies(t, v)
      BY <2>1, OneCopyMore, Zenon
    <2>. QED  BY <1>1, <2>1, Zenon
  <1> HIDE DEF l2, p2
  <1>3. \A i \in DOMAIN p2.rows : Pg!LikeDefault(p2.rows[i]) => p2.rows[i] = Pg!DefaultRule
    <2>1. \A v \in Range(p.rows) : Pg!LikeDefault(v) => v = Pg!DefaultRule
      BY DEF SameRules, Range
    <2>2. \A i \in DOMAIN p2.rows : p2.rows[i] \in Range(p2.rows)
      BY DEF Range
    <2>. QED  BY <1>2, <2>1, <2>2
  <1>4. ASSUME NEW v \in Range(l2.rows) \cup Range(p2.rows), v # Pg!DefaultRule
        PROVE  Cardinality(Copies(l2, v)) = Cardinality(Copies(p2, v))
    <2>1. CASE v # rule
      BY <1>2, <1>4, <2>1 DEF SameRules
    <2>2. CASE v = rule /\ v \in Range(l.rows) \cup Range(p.rows)
      BY <1>2, <1>4, <2>2 DEF SameRules
    <2>3. CASE v = rule /\ v \notin Range(l.rows) \cup Range(p.rows)
      BY <1>2, <2>3, InRange, FS_EmptySet
    <2>. QED  BY <2>1, <2>2, <2>3
  <1>5. /\ Copies(l2, Pg!DefaultRule) = {} <=> Copies(p2, Pg!DefaultRule) = {}
        /\ Cardinality(Copies(p2, Pg!DefaultRule)) <= Cardinality(Copies(l2, Pg!DefaultRule))
    <2>1. CASE rule = Pg!DefaultRule
      <3>1. /\ Cardinality(Copies(l, rule)) \in Nat /\ Cardinality(Copies(p, rule)) \in Nat
            /\ Cardinality(Copies(p, rule)) <= Cardinality(Copies(l, rule))
        BY <1>1, <2>1, FewCopies DEF SameRules
      <3>. QED  BY <1>2, <2>1, <3>1
    <2>2. CASE rule # Pg!DefaultRule
      BY <1>2, <2>2 DEF SameRules
    <2>. QED  BY <2>1, <2>2
  <1>. QED  BY <1>2, <1>3, <1>4, <1>5 DEF SameRules, l2, p2

\* The same rule is deleted from both, the default one only as the last copy.
LEMMA SameRulesDeleted ==
  ASSUME NEW l, NEW p, SameRules(l, p), NEW i \in DOMAIN l.rows, NEW j \in DOMAIN p.rows,
         l.rows[i] = p.rows[j],
         l.rows[i] = Pg!DefaultRule => \A k \in DOMAIN l.rows : l.rows[k] = Pg!DefaultRule => k = i
  PROVE  SameRules(WithoutRule(l, i), WithoutRule(p, j))
  <1> DEFINE l2 == WithoutRule(l, i)
             p2 == WithoutRule(p, j)
             rule == l.rows[i]
  <1>1. Numbered(l) /\ Numbered(p)
    BY DEF SameRules
  <1>2. /\ Numbered(l2) /\ Range(l2.rows) \subseteq Range(l.rows)
        /\ Copies(l2, rule) = Copies(l, rule) \ {i}
        /\ Cardinality(Copies(l2, rule)) = Cardinality(Copies(l, rule)) - 1
        /\ \A v : v # rule => Copies(l2, v) = Copies(l, v)
    BY <1>1, OneCopyLess, Zenon
  <1>3. /\ Numbered(p2) /\ Range(p2.rows) \subseteq Range(p.rows)
        /\ Cardinality(Copies(p2, rule)) = Cardinality(Copies(p, rule)) - 1
        /\ \A v : v # rule => Copies(p2, v) = Copies(p, v)
    <2>1. /\ Numbered(p2) /\ Range(p2.rows) \subseteq Range(p.rows)
          /\ Cardinality(Copies(p2, p.rows[j])) = Cardinality(Copies(p, p.rows[j])) - 1
          /\ \A v : v # p.rows[j] => Copies(p2, v) = Copies(p, v)
      BY <1>1, OneCopyLess, Zenon
    <2>. QED  BY <2>1, Zenon
  <1>4. rule \in Range(l.rows) /\ j \in Copies(p, rule) /\ i \in Copies(l, rule)
    BY DEF Range, Copies
  <1> HIDE DEF l2, p2, rule
  <1>5. \A k \in DOMAIN p2.rows : Pg!LikeDefault(p2.rows[k]) => p2.rows[k] = Pg!DefaultRule
    <2>1. \A v \in Range(p.rows) : Pg!LikeDefault(v) => v = Pg!DefaultRule
      BY DEF SameRules, Range
    <2>2. \A k \in DOMAIN p2.rows : p2.rows[k] \in Range(p2.rows)
      BY DEF Range
    <2>. QED  BY <1>3, <2>1, <2>2
  <1>6. ASSUME NEW v \in Range(l2.rows) \cup Range(p2.rows), v # Pg!DefaultRule
        PROVE  Cardinality(Copies(l2, v)) = Cardinality(Copies(p2, v))
    <2>1. Cardinality(Copies(l, v)) = Cardinality(Copies(p, v))
      BY <1>2, <1>3, <1>6 DEF SameRules
    <2>2. CASE v = rule
      BY <1>2, <1>3, <2>1, <2>2
    <2>3. CASE v # rule
      BY <1>2, <1>3, <2>1, <2>3
    <2>. QED  BY <2>2, <2>3
  <1>7. /\ Copies(l2, Pg!DefaultRule) = {} <=> Copies(p2, Pg!DefaultRule) = {}
        /\ Cardinality(Copies(p2, Pg!DefaultRule)) <= Cardinality(Copies(l2, Pg!DefaultRule))
    <2>1. CASE rule = Pg!DefaultRule
      <3>1. Copies(l2, rule) = {}
        BY <1>2, <2>1 DEF Copies, rule
      <3>2. Cardinality(Copies(l2, rule)) = 0
        BY <3>1, FS_EmptySet
      <3>3. /\ Cardinality(Copies(p, rule)) \in Nat /\ Cardinality(Copies(l, rule)) \in Nat
            /\ Cardinality(Copies(p, rule)) <= Cardinality(Copies(l, rule))
        BY <1>1, <2>1, FewCopies DEF SameRules
      <3>4. Cardinality(Copies(p, rule)) # 0
        BY <1>1, <1>4, FewCopies, FS_EmptySet
      <3>5. Cardinality(Copies(p2, rule)) = 0
        BY <1>2, <1>3, <3>2, <3>3, <3>4
      <3>6. Copies(p2, rule) = {}
        BY <1>3, <3>5, FewCopies, FS_EmptySet
      <3>. QED  BY <2>1, <3>1, <3>2, <3>5, <3>6
    <2>2. CASE rule # Pg!DefaultRule
      BY <1>2, <1>3, <2>2 DEF SameRules
    <2>. QED  BY <2>1, <2>2
  <1>. QED  BY <1>2, <1>3, <1>5, <1>6, <1>7 DEF SameRules, l2, p2

-----------------------------------------------------------------------------
\* What a start does to the tables of a database.
LEMMA LiteStart ==
  ASSUME NEW db, IsDatabase(db)
  PROVE  LET new == Lite!init_db(db)
         IN  /\ IsDatabase(new)
             /\ new["data_sources"] = Lite!AddColumns(db["data_sources"], Lite!LaterInSources)
             /\ new["layers"] = Lite!AddColumns(db["layers"], Lite!LaterInLayers)
             /\ new["permissions"] = NewRule(db["permissions"], Pg!DefaultRule)
             /\ \A t \in TableNames \ {"data_sources", "layers", "permissions"} : new[t] = db[t]
  <1>1. Lite!DefaultRule = Pg!DefaultRule
    BY DEF Lite!DefaultRule, Pg!DefaultRule
  <1>2. DOMAIN db = TableNames
    BY DEF IsDatabase
  <1>3. {"data_sources", "layers", "permissions"} \subseteq TableNames
    BY TheTables
  <1>. QED  BY <1>1, <1>2, <1>3 DEF IsDatabase, Lite!init_db, Lite!Migrated, NewRule

HasDefault(t) == \E i \in DOMAIN t.rows : Pg!LikeDefault(t.rows[i])

LEMMA PgStart ==
  ASSUME NEW db, IsDatabase(db)
  PROVE  LET new == Pg!init_db(db)
         IN  /\ IsDatabase(new)
             /\ new["data_sources"] = Lite!AddColumns(db["data_sources"], Pg!LaterInSources)
             /\ new["layers"] = Lite!AddColumns(db["layers"], Pg!LaterInLayers)
             /\ new["permissions"] = IF HasDefault(db["permissions"]) THEN db["permissions"]
                                     ELSE NewRule(db["permissions"], Pg!DefaultRule)
             /\ \A t \in TableNames \ {"data_sources", "layers", "permissions"} : new[t] = db[t]
  <1>1. \A t, c : Pg!AddColumns(t, c) = Lite!AddColumns(t, c)
    BY DEF Lite!AddColumns, Pg!AddColumns, Lite!Over, Pg!Over
  <1>2. DOMAIN db = TableNames
    BY DEF IsDatabase
  <1>3. {"data_sources", "layers", "permissions"} \subseteq TableNames
    BY TheTables
  <1>4. \A t, k, r : Pg!Put(t, k, r) = Lite!Put(t, k, r)
    BY DEF Lite!Put, Pg!Put
  <1> DEFINE new == Pg!Migrated(db)
  <1>5. /\ IsDatabase(new)
        /\ new["data_sources"] = Lite!AddColumns(db["data_sources"], Pg!LaterInSources)
        /\ new["layers"] = Lite!AddColumns(db["layers"], Pg!LaterInLayers)
        /\ \A t \in TableNames \ {"data_sources", "layers"} : new[t] = db[t]
    BY <1>1, <1>2, <1>3 DEF IsDatabase, Pg!Migrated
  <1> HIDE DEF new
  <1>6. Pg!init_db(db) = IF HasDefault(new["permissions"]) THEN new
                         ELSE [new EXCEPT !.permissions = NewRule(new["permissions"], Pg!DefaultRule)]
    BY <1>4 DEF Pg!init_db, HasDefault, NewRule, new
  <1>7. new["permissions"] = db["permissions"]
    BY <1>3, <1>5
  <1>8. CASE HasDefault(new["permissions"])
    BY <1>5, <1>6, <1>7, <1>8
  <1>9. CASE ~HasDefault(new["permissions"])
    <2>1. DOMAIN new = TableNames
      BY <1>5 DEF IsDatabase
    <2>. QED  BY <1>3, <1>5, <1>6, <1>7, <1>9, <2>1 DEF IsDatabase
  <1>. QED  BY <1>8, <1>9

\* A start adds the default rule in one store, and in the other if there is none.
LEMMA SameRulesStarted ==
  ASSUME NEW l, NEW p, SameRules(l, p)
  PROVE  SameRules(NewRule(l, Pg!DefaultRule),
                   IF HasDefault(p) THEN p ELSE NewRule(p, Pg!DefaultRule))
  <1>1. CASE ~HasDefault(p)
    BY <1>1, SameRulesMade
  <1>2. CASE HasDefault(p)
    <2> DEFINE l2 == NewRule(l, Pg!DefaultRule)
    <2>1. /\ Numbered(l2) /\ Range(l2.rows) = Range(l.rows) \cup {Pg!DefaultRule}
          /\ Copies(l2, Pg!DefaultRule) # {}
          /\ Cardinality(Copies(l2, Pg!DefaultRule)) = Cardinality(Copies(l, Pg!DefaultRule)) + 1
          /\ \A v : v # Pg!DefaultRule => Copies(l2, v) = Copies(l, v)
      BY OneCopyMore, Zenon DEF SameRules
    <2>2. Copies(p, Pg!DefaultRule) # {}
      BY <1>2 DEF HasDefault, SameRules, Copies
    <2>3. /\ Cardinality(Copies(p, Pg!DefaultRule)) \in Nat /\ Cardinality(Copies(l, Pg!DefaultRule)) \in Nat
      BY FewCopies DEF SameRules
    <2> HIDE DEF l2
    <2>4. SameRules(l2, p)
      BY <2>1, <2>2, <2>3 DEF SameRules
    <2>. QED  BY <1>2, <2>4 DEF l2
  <1>. QED  BY <1>1, <1>2

\* Where the columns are there already nothing is added.
LEMMA SameColumnsStarted ==
  ASSUME NEW t, NEW columns, NEW fewer, DOMAIN fewer \subseteq DOMAIN columns,
         WithColumns(t, t, columns)
  PROVE  WithColumns(Lite!AddColumns(t, columns), Lite!AddColumns(t, fewer), columns)
  BY DEF WithColumns, Lite!AddColumns, Lite!Over

LEMMA Fewer ==
  /\ DOMAIN Pg!LaterInSources \subseteq DOMAIN Lite!LaterInSources
  /\ DOMAIN Pg!LaterInLayers \subseteq DOMAIN Lite!LaterInLayers
  BY DEF Pg!LaterInSources, Lite!LaterInSources, Pg!LaterInLayers, Lite!LaterInLayers

LEMMA StartKeeps ==
  ASSUME NEW l, NEW p, IsDatabase(l), IsDatabase(p), \A t \in TableNames : SameTable(t, l[t], p[t])
  PROVE  \A t \in TableNames : SameTable(t, Lite!init_db(l)[t], Pg!init_db(p)[t])
  <1> DEFINE l2 == Lite!init_db(l)
             p2 == Pg!init_db(p)
  <1>0. {"data_sources", "layers", "permissions"} \subseteq TableNames
    BY TheTables
  <1>1. /\ l2["data_sources"] = Lite!AddColumns(l["data_sources"], Lite!LaterInSources)
        /\ l2["layers"] = Lite!AddColumns(l["layers"], Lite!LaterInLayers)
        /\ l2["permissions"] = NewRule(l["permissions"], Pg!DefaultRule)
        /\ \A t \in TableNames \ {"data_sources", "layers", "permissions"} : l2[t] = l[t]
    BY LiteStart, Zenon
  <1>2. /\ p2["data_sources"] = Lite!AddColumns(p["data_sources"], Pg!LaterInSources)
        /\ p2["layers"] = Lite!AddColumns(p["layers"], Pg!LaterInLayers)
        /\ p2["permissions"] = IF HasDefault(p["permissions"]) THEN p["permissions"]
                                     ELSE NewRule(p["permissions"], Pg!DefaultRule)
        /\ \A t \in TableNames \ {"data_sources", "layers", "permissions"} : p2[t] = p[t]
    BY PgStart, Zenon
  <1> HIDE DEF l2, p2
  <1>3. WithColumns(l["data_sources"], p["data_sources"], Lite!LaterInSources)
    BY <1>0 DEF SameTable
  <1>4. WithColumns(l["layers"], p["layers"], Lite!LaterInLayers)
    BY <1>0 DEF SameTable
  <1>5. SameRules(l["permissions"], p["permissions"])
    BY <1>0 DEF SameTable
  <1>6. SameTable("data_sources", l2["data_sources"], p2["data_sources"])
    <2>1. l["data_sources"] = p["data_sources"]
      BY <1>3 DEF WithColumns
    <2>2. WithColumns(l2["data_sources"], p2["data_sources"], Lite!LaterInSources)
      BY <1>1, <1>2, <1>3, <2>1, SameColumnsStarted, Fewer, Zenon
    <2>. QED  BY <2>2 DEF SameTable, WithColumns
  <1>7. SameTable("layers", l2["layers"], p2["layers"])
    <2>1. l["layers"] = p["layers"]
      BY <1>4 DEF WithColumns
    <2>2. WithColumns(l2["layers"], p2["layers"], Lite!LaterInLayers)
      BY <1>1, <1>2, <1>4, <2>1, SameColumnsStarted, Fewer, Zenon
    <2>. QED  BY <2>2 DEF SameTable, WithColumns
  <1>8. SameTable("permissions", l2["permissions"], p2["permissions"])
    BY <1>1, <1>2, <1>5, SameRulesStarted DEF SameTable
  <1>9. ASSUME NEW t \in TableNames \ {"data_sources", "layers", "permissions"}
        PROVE  SameTable(t, l2[t], p2[t])
    BY <1>1, <1>2
  <1>. QED  BY <1>6, <1>7, <1>8, <1>9 DEF l2, p2

\* Columns are added at once in one store, in two steps in the other.
LEMMA AddedTwice ==
  ASSUME NEW t, NEW columns, NEW first, NEW later,
         columns = Lite!Over(first, later)
  PROVE  /\ Lite!AddColumns(t, columns) = Lite!AddColumns(Lite!AddColumns(t, first), later)
         /\ \A k \in DOMAIN t : DOMAIN columns \subseteq DOMAIN Lite!AddColumns(t, columns)[k]
         /\ DOMAIN Lite!AddColumns(t, columns) = DOMAIN t
  <1>1. ASSUME NEW f PROVE Lite!Over(f, columns) = Lite!Over(Lite!Over(f, first), later)
    BY DEF Lite!Over
  <1>2. ASSUME NEW f PROVE DOMAIN columns \subseteq DOMAIN Lite!Over(f, columns)
    BY DEF Lite!Over
  <1>. QED  BY <1>1, <1>2 DEF Lite!AddColumns

FirstSourceColumns == [schema_name |-> <<"public">>, file_path |-> <<>>, file_storage_type |-> <<"local">>]
FirstLayerColumns == [native_name |-> <<>>]

LEMMA TheColumns ==
  /\ Lite!LaterInSources = Lite!Over(FirstSourceColumns, Pg!LaterInSources)
  /\ Lite!LaterInLayers = Lite!Over(FirstLayerColumns, Pg!LaterInLayers)
  BY DEF Lite!LaterInSources, Pg!LaterInSources, Lite!LaterInLayers, Pg!LaterInLayers, Lite!Over,
         FirstSourceColumns, FirstLayerColumns

LEMMA NoTablesAlike ==
  /\ IsDatabase(Lite!NoTables) /\ Lite!NoTables = Pg!NoTables
  /\ \A t \in TableNames : SameTable(t, Lite!NoTables[t], Pg!NoTables[t])
  <1>1. IsDatabase(Lite!NoTables) /\ Lite!NoTables = Pg!NoTables
    BY DEF IsDatabase, TableNames, Lite!NoTables, Pg!NoTables
  <1> DEFINE none == Lite!NoTables["permissions"]
  <1>2. SameRules(none, none)
    <2>1. none = [rows |-> <<>>, last |-> 0] /\ DOMAIN none.rows = {}
      BY DEF Lite!NoTables
    <2>2. Range(none.rows) = {} /\ \A v : Copies(none, v) = {}
      BY <2>1 DEF Range, Copies
    <2> HIDE DEF none
    <2>3. Numbered(none)
      BY <2>1 DEF Numbered
    <2>4. Cardinality({}) <= Cardinality({})
      BY FS_EmptySet
    <2>. QED  BY <2>1, <2>2, <2>3, <2>4 DEF SameRules
  <1>3. \A t \in TableNames \ {"permissions"} : Lite!NoTables[t] = <<>>
    BY TheTables DEF Lite!NoTables
  <1>4. DOMAIN (<<>>) = {}
    OBVIOUS
  <1>. QED  BY <1>1, <1>2, <1>3, <1>4 DEF SameTable, SameRows, WithColumns

\* The first start, from nothing or from a database of the first version.
LEMMA FirstStart ==
  /\ IsDatabase(FirstLite) /\ IsDatabase(FirstPg)
  /\ \A t \in TableNames : SameTable(t, Lite!init_db(FirstLite)[t], Pg!init_db(FirstPg)[t])
  <1>0. {"data_sources", "layers", "permissions"} \subseteq TableNames /\ DOMAIN Lite!NoTables = TableNames
    BY TheTables DEF TableNames
  <1>a. \A t, c : Pg!AddColumns(t, c) = Lite!AddColumns(t, c)
    BY DEF Lite!AddColumns, Pg!AddColumns, Lite!Over, Pg!Over
  <1>1. IsDatabase(FirstLite) /\ IsDatabase(FirstPg)
    BY <1>0, NoTablesAlike DEF IsDatabase, FirstLite, FirstPg
  <1>2. /\ FirstLite["data_sources"] = OldSources
        /\ FirstLite["layers"] = OldLayers
        /\ FirstPg["data_sources"] = Lite!AddColumns(OldSources, FirstSourceColumns)
        /\ FirstPg["layers"] = Lite!AddColumns(OldLayers, FirstLayerColumns)
        /\ \A t \in TableNames \ {"data_sources", "layers"} :
              FirstLite[t] = Lite!NoTables[t] /\ FirstPg[t] = Pg!NoTables[t]
    BY <1>0, <1>a, NoTablesAlike DEF FirstLite, FirstPg, FirstSourceColumns, FirstLayerColumns
  <1> DEFINE l2 == Lite!init_db(FirstLite)
             p2 == Pg!init_db(FirstPg)
  <1>3. /\ l2["data_sources"] = Lite!AddColumns(OldSources, Lite!LaterInSources)
        /\ l2["layers"] = Lite!AddColumns(OldLayers, Lite!LaterInLayers)
        /\ l2["permissions"] = NewRule(FirstLite["permissions"], Pg!DefaultRule)
        /\ \A t \in TableNames \ {"data_sources", "layers", "permissions"} : l2[t] = FirstLite[t]
    BY <1>1, <1>2, LiteStart, Zenon
  <1>4. /\ p2["data_sources"] = Lite!AddColumns(FirstPg["data_sources"], Pg!LaterInSources)
        /\ p2["layers"] = Lite!AddColumns(FirstPg["layers"], Pg!LaterInLayers)
        /\ p2["permissions"] = IF HasDefault(FirstPg["permissions"]) THEN FirstPg["permissions"]
                                     ELSE NewRule(FirstPg["permissions"], Pg!DefaultRule)
        /\ \A t \in TableNames \ {"data_sources", "layers", "permissions"} : p2[t] = FirstPg[t]
    BY <1>1, PgStart, Zenon
  <1> HIDE DEF l2, p2
  <1>5. WithColumns(l2["data_sources"], p2["data_sources"], Lite!LaterInSources)
    BY <1>2, <1>3, <1>4, AddedTwice, TheColumns DEF WithColumns
  <1>6. WithColumns(l2["layers"], p2["layers"], Lite!LaterInLayers)
    BY <1>2, <1>3, <1>4, AddedTwice, TheColumns DEF WithColumns
  <1>7. SameRules(l2["permissions"], p2["permissions"])
    <2>1. SameRules(FirstLite["permissions"], FirstPg["permissions"])
      BY <1>0, <1>2, NoTablesAlike DEF SameTable
    <2>. QED  BY <1>3, <1>4, <2>1, SameRulesStarted
  <1>8. ASSUME NEW t \in TableNames \ {"data_sources", "layers", "permissions"}
        PROVE  SameTable(t, l2[t], p2[t])
    BY <1>2, <1>3, <1>4, <1>8, NoTablesAlike
  <1>9. SameTable("data_sources", l2["data_sources"], p2["data_sources"])
    BY <1>5 DEF SameTable, WithColumns
  <1>10. SameTable("layers", l2["layers"], p2["layers"])
    BY <1>6 DEF SameTable, WithColumns
  <1>11. SameTable("permissions", l2["permissions"], p2["permissions"])
    BY <1>7 DEF SameTable
  <1>. QED  BY <1>1, <1>8, <1>9, <1>10, <1>11 DEF l2, p2

-----------------------------------------------------------------------------
\* A call to the table in question keeps what the stores have in common if it is
\* refused by both or by none and leaves the tables as alike as they were.
AlikeNow(lite, pg) == (lite.refused <=> pg.refused) /\ SameTable(question.table, lite.table, pg.table)

LEMMA CallKeeps ==
  ASSUME NEW lite, NEW pg, StoresState, Call(lite, pg), AlikeNow(lite, pg),
         lite.refused \in BOOLEAN, pg.refused \in BOOLEAN
  PROVE  StoresState'
  <1>1. question' = [about |-> "stores", table |-> question.table, calls |-> question.calls + 1,
                     alike |-> lite.refused = pg.refused,
                     lite |-> [question.lite EXCEPT ![question.table] = lite.table],
                     pg |-> [question.pg EXCEPT ![question.table] = pg.table]]
    BY DEF Call, Goes
  <1>2. (lite.refused = pg.refused) = TRUE
    BY DEF AlikeNow
  <1>3. \A t \in TableNames : SameTable(t, question.lite[t], question.pg[t])'
    BY <1>1 DEF StoresState, AlikeNow, IsDatabase
  <1>4. IsDatabase(question.lite)' /\ IsDatabase(question.pg)'
    <2>1. DOMAIN question.lite = TableNames /\ DOMAIN question.pg = TableNames
      BY DEF StoresState, IsDatabase
    <2>. QED  BY <1>1, <2>1 DEF IsDatabase, TableNames
  <1>5. (question = [about |-> "stores", table |-> question.table, calls |-> question.calls,
                     alike |-> TRUE, lite |-> question.lite, pg |-> question.pg])'
    BY <1>1, <1>2
  <1>6. (question.table \in TableNames /\ question.calls \in Nat)'
    BY <1>1 DEF StoresState
  <1>. QED  BY <1>3, <1>4, <1>5, <1>6 DEF StoresState

\* Most operations are written twice and come to the same.
Answer(r) == r.refused \in BOOLEAN

LEMMA SameStatements ==
  /\ \A t, k, r : Lite!Insert(t, k, r) = Pg!Insert(t, k, r) /\ Answer(Lite!Insert(t, k, r))
  /\ \A t, k, g : Lite!Update(t, k, g) = Pg!Update(t, k, g) /\ Answer(Lite!Update(t, k, g))
  /\ \A t, K : Lite!DeleteAll(t, K) = Pg!DeleteAll(t, K) /\ Answer(Lite!DeleteAll(t, K))
  /\ \A t, k : Lite!Delete(t, k) = Pg!Delete(t, k) /\ Answer(Lite!Delete(t, k))
  /\ \A f, g : Lite!Over(f, g) = Pg!Over(f, g)
  /\ \A v : Lite!Nullable(v) = Pg!Nullable(v)
  /\ \A v, o : Lite!Or(v, o) = Pg!Or(v, o)
  <1>1. ASSUME NEW t, NEW k, NEW r
        PROVE  Lite!Insert(t, k, r) = Pg!Insert(t, k, r) /\ Answer(Lite!Insert(t, k, r))
    BY DEF Lite!Insert, Pg!Insert, Lite!Put, Pg!Put, Lite!Done, Pg!Done, Lite!Refused, Pg!Refused, Answer
  <1>2. ASSUME NEW t, NEW k, NEW g
        PROVE  Lite!Update(t, k, g) = Pg!Update(t, k, g) /\ Answer(Lite!Update(t, k, g))
    BY DEF Lite!Update, Pg!Update, Lite!Done, Pg!Done, Answer
  <1>3. ASSUME NEW t, NEW K
        PROVE  Lite!DeleteAll(t, K) = Pg!DeleteAll(t, K) /\ Answer(Lite!DeleteAll(t, K))
    BY DEF Lite!DeleteAll, Pg!DeleteAll, Lite!Restrict, Pg!Restrict, Lite!Done, Pg!Done, Answer
  <1>4. ASSUME NEW t, NEW k
        PROVE  Lite!Delete(t, k) = Pg!Delete(t, k) /\ Answer(Lite!Delete(t, k))
    BY <1>3 DEF Lite!Delete, Pg!Delete
  <1>5. /\ \A f, g : Lite!Over(f, g) = Pg!Over(f, g)
        /\ \A v : Lite!Nullable(v) = Pg!Nullable(v)
        /\ \A v, o : Lite!Or(v, o) = Pg!Or(v, o)
    BY DEF Lite!Over, Pg!Over, Lite!Nullable, Pg!Nullable, Lite!Or, Pg!Or
  <1>. QED  BY <1>1, <1>2, <1>3, <1>4, <1>5, Zenon

LEMMA SameWorkspaces ==
  \A t, n, g, time :
    /\ Lite!create_workspace(t, n, g, time) = Pg!create_workspace(t, n, g, time)
    /\ Answer(Lite!create_workspace(t, n, g, time))
    /\ Lite!update_workspace(t, n, g, time) = Pg!update_workspace(t, n, g, time)
    /\ Answer(Lite!update_workspace(t, n, g, time))
    /\ Lite!delete_workspace(t, n) = Pg!delete_workspace(t, n)
    /\ Answer(Lite!delete_workspace(t, n))
  <1>. SUFFICES ASSUME NEW t, NEW n, NEW g, NEW time
                PROVE  /\ Lite!create_workspace(t, n, g, time) = Pg!create_workspace(t, n, g, time)
                       /\ Answer(Lite!create_workspace(t, n, g, time))
                       /\ Lite!update_workspace(t, n, g, time) = Pg!update_workspace(t, n, g, time)
                       /\ Answer(Lite!update_workspace(t, n, g, time))
                       /\ Lite!delete_workspace(t, n) = Pg!delete_workspace(t, n)
                       /\ Answer(Lite!delete_workspace(t, n))
    OBVIOUS
  <1>1. Lite!create_workspace(t, n, g, time) = Pg!create_workspace(t, n, g, time) /\ Answer(Lite!create_workspace(t, n, g, time))
    BY SameStatements DEF Lite!create_workspace, Pg!create_workspace
  <1>2. Lite!update_workspace(t, n, g, time) = Pg!update_workspace(t, n, g, time) /\ Answer(Lite!update_workspace(t, n, g, time))
    BY SameStatements DEF Lite!update_workspace, Pg!update_workspace
  <1>3. Lite!delete_workspace(t, n) = Pg!delete_workspace(t, n) /\ Answer(Lite!delete_workspace(t, n))
    BY SameStatements DEF Lite!delete_workspace, Pg!delete_workspace
  <1>. QED  BY <1>1, <1>2, <1>3

LEMMA SameNamespaces ==
  \A t, n, g, time :
    /\ Lite!create_namespace(t, n, g, time) = Pg!create_namespace(t, n, g, time)
    /\ Answer(Lite!create_namespace(t, n, g, time))
    /\ Lite!update_namespace(t, n, g, time) = Pg!update_namespace(t, n, g, time)
    /\ Answer(Lite!update_namespace(t, n, g, time))
    /\ Lite!delete_namespace(t, n) = Pg!delete_namespace(t, n)
    /\ Answer(Lite!delete_namespace(t, n))
  <1>. SUFFICES ASSUME NEW t, NEW n, NEW g, NEW time
                PROVE  /\ Lite!create_namespace(t, n, g, time) = Pg!create_namespace(t, n, g, time)
                       /\ Answer(Lite!create_namespace(t, n, g, time))
                       /\ Lite!update_namespace(t, n, g, time) = Pg!update_namespace(t, n, g, time)
                       /\ Answer(Lite!update_namespace(t, n, g, time))
                       /\ Lite!delete_namespace(t, n) = Pg!delete_namespace(t, n)
                       /\ Answer(Lite!delete_namespace(t, n))
    OBVIOUS
  <1>1. Lite!create_namespace(t, n, g, time) = Pg!create_namespace(t, n, g, time) /\ Answer(Lite!create_namespace(t, n, g, time))
    BY SameStatements DEF Lite!create_namespace, Pg!create_namespace
  <1>2. Lite!update_namespace(t, n, g, time) = Pg!update_namespace(t, n, g, time) /\ Answer(Lite!update_namespace(t, n, g, time))
    BY SameStatements DEF Lite!update_namespace, Pg!update_namespace
  <1>3. Lite!delete_namespace(t, n) = Pg!delete_namespace(t, n) /\ Answer(Lite!delete_namespace(t, n))
    BY SameStatements DEF Lite!delete_namespace, Pg!delete_namespace
  <1>. QED  BY <1>1, <1>2, <1>3

LEMMA SameDataSources ==
  \A t, n, g, time :
    /\ Lite!create_data_source(t, n, g, time) = Pg!create_data_source(t, n, g, time)
    /\ Answer(Lite!create_data_source(t, n, g, time))
    /\ Lite!update_data_source(t, n, g, time) = Pg!update_data_source(t, n, g, time)
    /\ Answer(Lite!update_data_source(t, n, g, time))
    /\ Lite!delete_data_source(t, n) = Pg!delete_data_source(t, n)
    /\ Answer(Lite!delete_data_source(t, n))
  <1>. SUFFICES ASSUME NEW t, NEW n, NEW g, NEW time
                PROVE  /\ Lite!create_data_source(t, n, g, time) = Pg!create_data_source(t, n, g, time)
                       /\ Answer(Lite!create_data_source(t, n, g, time))
                       /\ Lite!update_data_source(t, n, g, time) = Pg!update_data_source(t, n, g, time)
                       /\ Answer(Lite!update_data_source(t, n, g, time))
                       /\ Lite!delete_data_source(t, n) = Pg!delete_data_source(t, n)
                       /\ Answer(Lite!delete_data_source(t, n))
    OBVIOUS
  <1>1. Lite!create_data_source(t, n, g, time) = Pg!create_data_source(t, n, g, time) /\ Answer(Lite!create_data_source(t, n, g, time))
    BY SameStatements DEF Lite!create_data_source, Pg!create_data_source
  <1>2. Lite!update_data_source(t, n, g, time) = Pg!update_data_source(t, n, g, time) /\ Answer(Lite!update_data_source(t, n, g, time))
    BY SameStatements DEF Lite!update_data_source, Pg!update_data_source
  <1>3. Lite!delete_data_source(t, n) = Pg!delete_data_source(t, n) /\ Answer(Lite!delete_data_source(t, n))
    BY SameStatements DEF Lite!delete_data_source, Pg!delete_data_source
  <1>. QED  BY <1>1, <1>2, <1>3

LEMMA SameLayers ==
  \A t, n, g, time :
    /\ Lite!create_layer(t, n, g, time) = Pg!create_layer(t, n, g, time)
    /\ Answer(Lite!create_layer(t, n, g, time))
    /\ Lite!update_layer(t, n, g, time) = Pg!update_layer(t, n, g, time)
    /\ Answer(Lite!update_layer(t, n, g, time))
    /\ Lite!delete_layer(t, n) = Pg!delete_layer(t, n)
    /\ Answer(Lite!delete_layer(t, n))
  <1>. SUFFICES ASSUME NEW t, NEW n, NEW g, NEW time
                PROVE  /\ Lite!create_layer(t, n, g, time) = Pg!create_layer(t, n, g, time)
                       /\ Answer(Lite!create_layer(t, n, g, time))
                       /\ Lite!update_layer(t, n, g, time) = Pg!update_layer(t, n, g, time)
                       /\ Answer(Lite!update_layer(t, n, g, time))
                       /\ Lite!delete_layer(t, n) = Pg!delete_layer(t, n)
                       /\ Answer(Lite!delete_layer(t, n))
    OBVIOUS
  <1>1. Lite!create_layer(t, n, g, time) = Pg!create_layer(t, n, g, time) /\ Answer(Lite!create_layer(t, n, g, time))
    BY SameStatements DEF Lite!create_layer, Pg!create_layer
  <1>2. Lite!update_layer(t, n, g, time) = Pg!update_layer(t, n, g, time) /\ Answer(Lite!update_layer(t, n, g, time))
    BY SameStatements DEF Lite!update_layer, Pg!update_layer
  <1>3. Lite!delete_layer(t, n) = Pg!delete_layer(t, n) /\ Answer(Lite!delete_layer(t, n))
    BY SameStatements DEF Lite!delete_layer, Pg!delete_layer
  <1>. QED  BY <1>1, <1>2, <1>3

LEMMA SameSqlViews ==
  \A t, n, g, time :
    /\ Lite!create_sql_view(t, n, g, time) = Pg!create_sql_view(t, n, g, time)
    /\ Answer(Lite!create_sql_view(t, n, g, time))
    /\ Lite!update_sql_view(t, n, g, time) = Pg!update_sql_view(t, n, g, time)
    /\ Answer(Lite!update_sql_view(t, n, g, time))
    /\ Lite!delete_sql_view(t, n) = Pg!delete_sql_view(t, n)
    /\ Answer(Lite!delete_sql_view(t, n))
  <1>. SUFFICES ASSUME NEW t, NEW n, NEW g, NEW time
                PROVE  /\ Lite!create_sql_view(t, n, g, time) = Pg!create_sql_view(t, n, g, time)
                       /\ Answer(Lite!create_sql_view(t, n, g, time))
                       /\ Lite!update_sql_view(t, n, g, time) = Pg!update_sql_view(t, n, g, time)
                       /\ Answer(Lite!update_sql_view(t, n, g, time))
                       /\ Lite!delete_sql_view(t, n) = Pg!delete_sql_view(t, n)
                       /\ Answer(Lite!delete_sql_view(t, n))
    OBVIOUS
  <1>1. Lite!create_sql_view(t, n, g, time) = Pg!create_sql_view(t, n, g, time) /\ Answer(Lite!create_sql_view(t, n, g, time))
    BY SameStatements DEF Lite!create_sql_view, Pg!create_sql_view
  <1>2. Lite!update_sql_view(t, n, g, time) = Pg!update_sql_view(t, n, g, time) /\ Answer(Lite!update_sql_view(t, n, g, time))
    BY SameStatements DEF Lite!update_sql_view, Pg!update_sql_view
  <1>3. Lite!delete_sql_view(t, n) = Pg!delete_sql_view(t, n) /\ Answer(Lite!delete_sql_view(t, n))
    BY SameStatements DEF Lite!delete_sql_view, Pg!delete_sql_view
  <1>. QED  BY <1>1, <1>2, <1>3

LEMMA SameUsers ==
  \A t, n, g, time :
    /\ Lite!create_user(t, n, g, time) = Pg!create_user(t, n, g, time)
    /\ Answer(Lite!create_user(t, n, g, time))
    /\ Lite!update_user(t, n, g, time) = Pg!update_user(t, n, g, time)
    /\ Answer(Lite!update_user(t, n, g, time))
    /\ Lite!delete_user(t, n) = Pg!delete_user(t, n)
    /\ Answer(Lite!delete_user(t, n))
  <1>. SUFFICES ASSUME NEW t, NEW n, NEW g, NEW time
                PROVE  /\ Lite!create_user(t, n, g, time) = Pg!create_user(t, n, g, time)
                       /\ Answer(Lite!create_user(t, n, g, time))
                       /\ Lite!update_user(t, n, g, time) = Pg!update_user(t, n, g, time)
                       /\ Answer(Lite!update_user(t, n, g, time))
                       /\ Lite!delete_user(t, n) = Pg!delete_user(t, n)
                       /\ Answer(Lite!delete_user(t, n))
    OBVIOUS
  <1>1. Lite!create_user(t, n, g, time) = Pg!create_user(t, n, g, time) /\ Answer(Lite!create_user(t, n, g, time))
    BY SameStatements DEF Lite!create_user, Pg!create_user
  <1>2. Lite!update_user(t, n, g, time) = Pg!update_user(t, n, g, time) /\ Answer(Lite!update_user(t, n, g, time))
    BY SameStatements DEF Lite!update_user, Pg!update_user
  <1>3. Lite!delete_user(t, n) = Pg!delete_user(t, n) /\ Answer(Lite!delete_user(t, n))
    BY SameStatements DEF Lite!delete_user, Pg!delete_user
  <1>. QED  BY <1>1, <1>2, <1>3

LEMMA SameAuditLogs ==
  \A t, entry :
    /\ Lite!audit_log(t, entry) = Pg!audit_log(t, entry)
    /\ Answer(Lite!audit_log(t, entry))
  BY DEF Lite!audit_log, Pg!audit_log, Lite!Done, Pg!Done, Answer

\* A row that replaces another, and one that updates all of its columns.
LEMMA SameSessions ==
  /\ \A t, n, g, time :
       /\ Lite!create_session(t, n, g, time) = Pg!create_session(t, n, g, time)
       /\ Answer(Lite!create_session(t, n, g, time))
  /\ \A t, x :
       /\ Lite!delete_session(t, x) = Pg!delete_session(t, x)
       /\ Answer(Lite!delete_session(t, x))
       /\ Lite!delete_user_sessions(t, x) = Pg!delete_user_sessions(t, x)
       /\ Answer(Lite!delete_user_sessions(t, x))
       /\ Lite!cleanup_expired_sessions(t, x) = Pg!cleanup_expired_sessions(t, x)
       /\ Answer(Lite!cleanup_expired_sessions(t, x))
  <1>1. ASSUME NEW t, NEW n, NEW g, NEW time
        PROVE  /\ Lite!create_session(t, n, g, time) = Pg!create_session(t, n, g, time)
               /\ Answer(Lite!create_session(t, n, g, time))
    BY DEF Lite!create_session, Pg!create_session, Lite!InsertOrReplace, Pg!Upsert,
           Lite!Put, Pg!Put, Lite!Done, Pg!Done, Answer
  <1>2. ASSUME NEW t, NEW x
        PROVE  /\ Lite!delete_session(t, x) = Pg!delete_session(t, x)
               /\ Answer(Lite!delete_session(t, x))
               /\ Lite!delete_user_sessions(t, x) = Pg!delete_user_sessions(t, x)
               /\ Answer(Lite!delete_user_sessions(t, x))
               /\ Lite!cleanup_expired_sessions(t, x) = Pg!cleanup_expired_sessions(t, x)
               /\ Answer(Lite!cleanup_expired_sessions(t, x))
    BY SameStatements, Zenon
       DEF Lite!delete_session, Pg!delete_session, Lite!delete_user_sessions, Pg!delete_user_sessions,
           Lite!cleanup_expired_sessions, Pg!cleanup_expired_sessions
  <1>. QED  BY <1>1, <1>2, Zenon

LEMMA SameSettings ==
  \A t, n, g :
    /\ Lite!save_service_settings(t, n, g) = Pg!save_service_settings(t, n, g)
    /\ Answer(Lite!save_service_settings(t, n, g))
  <1>. SUFFICES ASSUME NEW t, NEW n, NEW g
                PROVE  /\ Lite!save_service_settings(t, n, g) = Pg!save_service_settings(t, n, g)
                       /\ Answer(Lite!save_service_settings(t, n, g))
    OBVIOUS
  <1>. QED  BY DEF Lite!save_service_settings, Pg!save_service_settings, Lite!InsertOrReplace, Pg!Upsert,
         Lite!Put, Pg!Put, Lite!Done, Pg!Done, Answer

-----------------------------------------------------------------------------
\* Where the tables are the same they stay so.
Plain == {"workspaces", "namespaces", "sql_views", "users", "audit_log", "sessions", "service_settings"}

LEMMA SameCallKeeps ==
  ASSUME NEW r, StoresState, question.table \in Plain, Call(r, r), Answer(r)
  PROVE  StoresState'
  BY CallKeeps DEF AlikeNow, SameTable, Plain, Answer

LEMMA PlainTables ==
  ASSUME StoresState, question.table \in Plain
  PROVE  question.lite[question.table] = question.pg[question.table]
  BY DEF StoresState, SameTable, Plain

LEMMA WorkspacesKeep ==
  ASSUME StoresState, question.table = "workspaces", NEW t, NEW time, CallWorkspaces(t, t, time)
  PROVE  StoresState'
  BY SameWorkspaces, SameCallKeeps, Zenon DEF CallWorkspaces, Plain

LEMMA NamespacesKeep ==
  ASSUME StoresState, question.table = "namespaces", NEW t, NEW time, CallNamespaces(t, t, time)
  PROVE  StoresState'
  BY SameNamespaces, SameCallKeeps, Zenon DEF CallNamespaces, Plain

LEMMA SqlViewsKeep ==
  ASSUME StoresState, question.table = "sql_views", NEW t, NEW time, CallSqlViews(t, t, time)
  PROVE  StoresState'
  BY SameSqlViews, SameCallKeeps, Zenon DEF CallSqlViews, Plain

LEMMA UsersKeep ==
  ASSUME StoresState, question.table = "users", NEW t, NEW time, CallUsers(t, t, time)
  PROVE  StoresState'
  BY SameUsers, SameCallKeeps, Zenon DEF CallUsers, Plain

LEMMA AuditLogKeeps ==
  ASSUME StoresState, question.table = "audit_log", NEW t, NEW time,
         Call(Lite!audit_log(t, time), Pg!audit_log(t, time))
  PROVE  StoresState'
  BY SameAuditLogs, SameCallKeeps, Zenon DEF Plain

LEMMA SessionsKeep ==
  ASSUME StoresState, question.table = "sessions", NEW t, NEW time, CallSessions(t, t, time)
  PROVE  StoresState'
  BY SameSessions, SameCallKeeps, Zenon DEF CallSessions, Plain

LEMMA SettingsKeep ==
  ASSUME StoresState, question.table = "service_settings", NEW t, CallSettings(t, t)
  PROVE  StoresState'
  BY SameSettings, SameCallKeeps, Zenon DEF CallSettings, Plain

\* Columns are not lost.
HasColumns(t, columns) == \A k \in DOMAIN t : DOMAIN columns \subseteq DOMAIN t[k]

LEMMA ColumnsKeep ==
  ASSUME NEW t, NEW columns, HasColumns(t, columns), NEW k
  PROVE  /\ \A fresh : DOMAIN columns \subseteq DOMAIN fresh => HasColumns(Lite!Insert(t, k, fresh).table, columns)
         /\ \A g : HasColumns(Lite!Update(t, k, g).table, columns)
         /\ HasColumns(Lite!Delete(t, k).table, columns)
  <1>1. ASSUME NEW fresh, DOMAIN columns \subseteq DOMAIN fresh
        PROVE  HasColumns(Lite!Insert(t, k, fresh).table, columns)
    BY <1>1 DEF HasColumns, Lite!Insert, Lite!Put, Lite!Done, Lite!Refused
  <1>2. ASSUME NEW g
        PROVE  HasColumns(Lite!Update(t, k, g).table, columns)
    BY DEF HasColumns, Lite!Update, Lite!Done
  <1>3. HasColumns(Lite!Delete(t, k).table, columns)
    BY DEF HasColumns, Lite!Delete, Lite!DeleteAll, Lite!Restrict, Lite!Done
  <1>. QED  BY <1>1, <1>2, <1>3

LEMMA ColumnsCallKeeps ==
  ASSUME NEW r, NEW columns, StoresState, Call(r, r), Answer(r), HasColumns(r.table, columns),
         \/ question.table = "data_sources" /\ columns = Lite!LaterInSources
         \/ question.table = "layers" /\ columns = Lite!LaterInLayers
  PROVE  StoresState'
  BY CallKeeps DEF AlikeNow, SameTable, WithColumns, HasColumns, Answer

LEMMA DataSourcesKeep ==
  ASSUME StoresState, question.table = "data_sources",
         NEW t, HasColumns(t, Lite!LaterInSources), NEW time, CallDataSources(t, t, time)
  PROVE  StoresState'
  <1> DEFINE Fine(r) == Answer(r) /\ HasColumns(r.table, Lite!LaterInSources)
  <1>1. ASSUME NEW r, Fine(r), Call(r, r) PROVE StoresState'
    BY <1>1, ColumnsCallKeeps
  <1>2. ASSUME NEW n, NEW g \in Bodies.create_data_source
        PROVE  Fine(Lite!create_data_source(t, n, g, time))
    <2> DEFINE fresh == Lite!Over([type |-> g.type, workspace |-> g.workspace, enabled |-> g.enabled,
                                 created |-> time, modified |-> time], g.connection)
    <2>1. DOMAIN Lite!LaterInSources \subseteq DOMAIN fresh
      BY StoresAssumption DEF Lite!Over
    <2> HIDE DEF fresh
    <2>2. HasColumns(Lite!Insert(t, n, fresh).table, Lite!LaterInSources)
      BY <2>1, ColumnsKeep
    <2>. QED  BY <2>2, SameDataSources, Zenon DEF Lite!create_data_source, fresh
  <1>3. ASSUME NEW n, NEW g
        PROVE  Fine(Lite!update_data_source(t, n, g, time))
    <2>1. \E v : Lite!update_data_source(t, n, g, time) = Lite!Update(t, n, v)
      BY DEF Lite!update_data_source
    <2>. QED  BY <2>1, ColumnsKeep, SameDataSources
  <1>4. ASSUME NEW n
        PROVE  Fine(Lite!delete_data_source(t, n))
    BY ColumnsKeep, SameDataSources DEF Lite!delete_data_source
  <1> HIDE DEF Fine
  <1>. QED  BY <1>1, <1>2, <1>3, <1>4, SameDataSources, Zenon DEF CallDataSources

LEMMA LayersKeep ==
  ASSUME StoresState, question.table = "layers",
         NEW t, HasColumns(t, Lite!LaterInLayers), NEW time, CallLayers(t, t, time)
  PROVE  StoresState'
  <1> DEFINE Fine(r) == Answer(r) /\ HasColumns(r.table, Lite!LaterInLayers)
  <1>1. ASSUME NEW r, Fine(r), Call(r, r) PROVE StoresState'
    BY <1>1, ColumnsCallKeeps
  <1>2. ASSUME NEW n, NEW g
        PROVE  Fine(Lite!create_layer(t, n, g, time))
    <2> DEFINE fresh == [title |-> g.title, native_name |-> g.native_name,
                       enabled |-> g.enabled, cache_store |-> g.cache_store,
                       created |-> time, modified |-> time]
    <2>1. DOMAIN Lite!LaterInLayers \subseteq DOMAIN fresh
      BY DEF Lite!LaterInLayers
    <2> HIDE DEF fresh
    <2>2. HasColumns(Lite!Insert(t, n, fresh).table, Lite!LaterInLayers)
      BY <2>1, ColumnsKeep
    <2>. QED  BY <2>2, SameLayers, Zenon DEF Lite!create_layer, fresh
  <1>3. ASSUME NEW n, NEW g
        PROVE  Fine(Lite!update_layer(t, n, g, time))
    <2>1. \E v : Lite!update_layer(t, n, g, time) = Lite!Update(t, n, v)
      BY DEF Lite!update_layer
    <2>. QED  BY <2>1, ColumnsKeep, SameLayers
  <1>4. ASSUME NEW n
        PROVE  Fine(Lite!delete_layer(t, n))
    BY ColumnsKeep, SameLayers DEF Lite!delete_layer
  <1> HIDE DEF Fine
  <1>. QED  BY <1>1, <1>2, <1>3, <1>4, SameLayers, Zenon DEF CallLayers

-----------------------------------------------------------------------------
\* Where a row is replaced in one store and updated in the other, all but the time
\* of its creation is the same.
LEMMA ReplacedAlike ==
  ASSUME NEW l, NEW p, SameRows(l, p), NEW k, NEW fresh, NEW listed,
         DOMAIN fresh \subseteq listed \cup {"created"}
  PROVE  SameRows(Lite!InsertOrReplace(l, k, fresh).table, Pg!Upsert(p, k, fresh, listed).table)
  BY DEF SameRows, Lite!InsertOrReplace, Lite!Put, Lite!Done, Pg!Upsert, Pg!Put, Pg!Done

LEMMA UpdatedAlike ==
  ASSUME NEW l, NEW p, SameRows(l, p), NEW k, NEW g
  PROVE  SameRows(Lite!Update(l, k, g).table, Pg!Update(p, k, g).table)
  BY DEF SameRows, Lite!Update, Lite!Done, Pg!Update, Pg!Done

LEMMA DeletedAlike ==
  ASSUME NEW l, NEW p, SameRows(l, p), NEW k
  PROVE  SameRows(Lite!Delete(l, k).table, Pg!Delete(p, k).table)
  BY DEF SameRows, Lite!Delete, Lite!DeleteAll, Lite!Restrict, Lite!Done,
         Pg!Delete, Pg!DeleteAll, Pg!Restrict, Pg!Done

LEMMA NeverRefused ==
  /\ \A t, k, fresh : Lite!InsertOrReplace(t, k, fresh).refused = FALSE
  /\ \A t, k, fresh, listed : Pg!Upsert(t, k, fresh, listed).refused = FALSE
  /\ \A t, k, g : Lite!Update(t, k, g).refused = FALSE /\ Pg!Update(t, k, g).refused = FALSE
  /\ \A t, k : Lite!Delete(t, k).refused = FALSE /\ Pg!Delete(t, k).refused = FALSE
  <1>1. \A t, k, fresh : Lite!InsertOrReplace(t, k, fresh).refused = FALSE
    BY DEF Lite!InsertOrReplace, Lite!Done
  <1>2. \A t, k, fresh, listed : Pg!Upsert(t, k, fresh, listed).refused = FALSE
    BY DEF Pg!Upsert, Pg!Done
  <1>3. \A t, k, g : Lite!Update(t, k, g).refused = FALSE /\ Pg!Update(t, k, g).refused = FALSE
    BY DEF Lite!Update, Lite!Done, Pg!Update, Pg!Done
  <1>4. \A t, k : Lite!Delete(t, k).refused = FALSE /\ Pg!Delete(t, k).refused = FALSE
    BY DEF Lite!Delete, Lite!DeleteAll, Lite!Done, Pg!Delete, Pg!DeleteAll, Pg!Done
  <1>. QED  BY <1>1, <1>2, <1>3, <1>4, Zenon

LEMMA RowsCallKeeps ==
  ASSUME NEW lite, NEW pg, StoresState, question.table \in {"styles", "layer_groups"},
         Call(lite, pg), lite.refused = FALSE, pg.refused = FALSE, SameRows(lite.table, pg.table)
  PROVE  StoresState'
  BY CallKeeps DEF AlikeNow, SameTable

LEMMA StylesKeep ==
  ASSUME StoresState, question.table = "styles",
         NEW l, NEW p, SameRows(l, p), NEW time, CallStyles(l, p, time)
  PROVE  StoresState'
  <1>1. ASSUME NEW n, NEW g, Call(Lite!create_style(l, n, g, time), Pg!create_style(p, n, g, time))
        PROVE  StoresState'
    <2> DEFINE fresh == [title |-> g.title, format |-> g.format, is_builtin |-> g.is_builtin,
                       content |-> g.content, created |-> time, modified |-> time]
               listed == {"title", "format", "is_builtin", "content", "modified"}
    <2>1. DOMAIN fresh \subseteq listed \cup {"created"}
      OBVIOUS
    <2> HIDE DEF fresh, listed
    <2>2. /\ Lite!create_style(l, n, g, time) = Lite!InsertOrReplace(l, n, fresh)
          /\ Pg!create_style(p, n, g, time) = Pg!Upsert(p, n, fresh, listed)
      BY DEF Lite!create_style, Pg!create_style, fresh, listed
    <2>. QED  BY <1>1, <2>1, <2>2, ReplacedAlike, NeverRefused, RowsCallKeeps, Zenon
  <1>2. ASSUME NEW n, NEW g, Call(Lite!update_style(l, n, g, time), Pg!update_style(p, n, g, time))
        PROVE  StoresState'
    <2>1. \E v : /\ Lite!update_style(l, n, g, time) = Lite!Update(l, n, v)
                 /\ Pg!update_style(p, n, g, time) = Pg!Update(p, n, v)
      BY DEF Lite!update_style, Pg!update_style
    <2>. QED  BY <1>2, <2>1, UpdatedAlike, NeverRefused, RowsCallKeeps, Zenon
  <1>3. ASSUME NEW n, Call(Lite!delete_style(l, n), Pg!delete_style(p, n))
        PROVE  StoresState'
    BY <1>3, DeletedAlike, NeverRefused, RowsCallKeeps, Zenon DEF Lite!delete_style, Pg!delete_style
  <1>. QED  BY <1>1, <1>2, <1>3, Zenon DEF CallStyles

LEMMA LayerGroupsKeep ==
  ASSUME StoresState, question.table = "layer_groups",
         NEW l, NEW p, SameRows(l, p), NEW time, CallLayerGroups(l, p, time)
  PROVE  StoresState'
  <1>1. ASSUME NEW n, NEW g, Call(Lite!create_layer_group(l, n, g, time), Pg!create_layer_group(p, n, g, time))
        PROVE  StoresState'
    <2> DEFINE fresh == [title |-> g.title, layers |-> g.layers, created |-> time, modified |-> time]
               listed == {"title", "layers", "modified"}
    <2>1. DOMAIN fresh \subseteq listed \cup {"created"}
      OBVIOUS
    <2> HIDE DEF fresh, listed
    <2>2. /\ Lite!create_layer_group(l, n, g, time) = Lite!InsertOrReplace(l, n, fresh)
          /\ Pg!create_layer_group(p, n, g, time) = Pg!Upsert(p, n, fresh, listed)
      BY DEF Lite!create_layer_group, Pg!create_layer_group, fresh, listed
    <2>. QED  BY <1>1, <2>1, <2>2, ReplacedAlike, NeverRefused, RowsCallKeeps, Zenon
  <1>2. ASSUME NEW n, Call(Lite!delete_layer_group(l, n), Pg!delete_layer_group(p, n))
        PROVE  StoresState'
    BY <1>2, DeletedAlike, NeverRefused, RowsCallKeeps, Zenon DEF Lite!delete_layer_group, Pg!delete_layer_group
  <1>. QED  BY <1>1, <1>2, Zenon DEF CallLayerGroups

LEMMA RulesCallKeeps ==
  ASSUME NEW lite, NEW pg, StoresState, question.table = "permissions",
         Call(lite, pg), lite.refused = FALSE, pg.refused = FALSE, SameRules(lite.table, pg.table)
  PROVE  StoresState'
  BY CallKeeps DEF AlikeNow, SameTable

LEMMA PermissionsKeep ==
  ASSUME StoresState, question.table = "permissions",
         NEW l, NEW p, SameRules(l, p), CallPermissions(l, p)
  PROVE  StoresState'
  <1>1. ASSUME NEW rule, Pg!LikeDefault(rule) => rule = Pg!DefaultRule,
               Call(Lite!create_permission(l, rule), Pg!create_permission(p, rule))
        PROVE  StoresState'
    <2> DEFINE lite == Lite!create_permission(l, rule)
               pg == Pg!create_permission(p, rule)
    <2>1. /\ lite.table = NewRule(l, rule) /\ lite.refused = FALSE
          /\ pg.table = NewRule(p, rule) /\ pg.refused = FALSE
      BY DEF Lite!create_permission, Pg!create_permission, NewRule, Lite!Put, Pg!Put, Lite!Done, Pg!Done
    <2>2. SameRules(NewRule(l, rule), NewRule(p, rule))
      BY <1>1, SameRulesMade
    <2>3. Call(lite, pg)
      BY <1>1
    <2> HIDE DEF lite, pg
    <2>. QED  BY <2>1, <2>2, <2>3, RulesCallKeeps
  <1>2. ASSUME NEW i \in DOMAIN l.rows, NEW j \in DOMAIN p.rows, l.rows[i] = p.rows[j],
               l.rows[i] = Pg!DefaultRule => \A k \in DOMAIN l.rows : l.rows[k] = Pg!DefaultRule => k = i,
               Call(Lite!delete_permission(l, i), Pg!delete_permission(p, j))
        PROVE  StoresState'
    <2> DEFINE lite == Lite!delete_permission(l, i)
               pg == Pg!delete_permission(p, j)
    <2>1. /\ lite.table = WithoutRule(l, i) /\ lite.refused = FALSE
          /\ pg.table = WithoutRule(p, j) /\ pg.refused = FALSE
      BY DEF Lite!delete_permission, Pg!delete_permission, WithoutRule,
             Lite!Restrict, Pg!Restrict, Restrict, Lite!Done, Pg!Done
    <2>2. SameRules(WithoutRule(l, i), WithoutRule(p, j))
      BY <1>2, SameRulesDeleted
    <2>3. Call(lite, pg)
      BY <1>2
    <2> HIDE DEF lite, pg
    <2>. QED  BY <2>1, <2>2, <2>3, RulesCallKeeps
  <1>. QED  BY <1>1, <1>2, Zenon DEF CallPermissions

-----------------------------------------------------------------------------
LEMMA RestartKeeps ==
  ASSUME StoresState, StartAgain
  PROVE  StoresState'
  <1> DEFINE l2 == Lite!init_db(question.lite)
             p2 == Pg!init_db(question.pg)
  <1>1. question' = [about |-> "stores", table |-> question.table, calls |-> question.calls + 1,
                     alike |-> TRUE, lite |-> l2, pg |-> p2]
    BY DEF StartAgain, Goes
  <1>2. IsDatabase(l2) /\ IsDatabase(p2) /\ \A t \in TableNames : SameTable(t, l2[t], p2[t])
    BY StartKeeps, LiteStart, PgStart, Zenon DEF StoresState
  <1> HIDE DEF l2, p2
  <1>3. question.table \in TableNames /\ question.calls \in Nat
    BY DEF StoresState
  <1>4. IsDatabase(question.lite)' /\ IsDatabase(question.pg)'
    BY <1>1, <1>2 DEF IsDatabase, TableNames
  <1>5. \A t \in TableNames : SameTable(t, question.lite[t], question.pg[t])'
    BY <1>1, <1>2
  <1>6. (question.table \in TableNames /\ question.calls \in Nat)'
    BY <1>1, <1>3
  <1>7. (question = [about |-> "stores", table |-> question.table, calls |-> question.calls,
                     alike |-> TRUE, lite |-> question.lite, pg |-> question.pg])'
    BY <1>1
  <1>. QED  BY <1>4, <1>5, <1>6, <1>7 DEF StoresState

LEMMA CallStoresKeeps ==
  ASSUME StoresState, CallStores
  PROVE  StoresState'
  <1> DEFINE table == question.table
             l == question.lite[table]
             p == question.pg[table]
             time == question.calls
  <1>1. SameTable(table, l, p)
    BY DEF StoresState
  <1>2. table \in Plain => l = p
    BY PlainTables
  <1>3. CASE StartAgain
    BY <1>3, RestartKeeps
  <1>4. CASE table = "workspaces" /\ CallWorkspaces(l, p, time)
    BY <1>2, <1>4, WorkspacesKeep DEF Plain
  <1>5. CASE table = "namespaces" /\ CallNamespaces(l, p, time)
    BY <1>2, <1>5, NamespacesKeep DEF Plain
  <1>6. CASE table = "data_sources" /\ CallDataSources(l, p, time)
    BY <1>1, <1>6, DataSourcesKeep DEF SameTable, WithColumns, HasColumns
  <1>7. CASE table = "layers" /\ CallLayers(l, p, time)
    BY <1>1, <1>7, LayersKeep DEF SameTable, WithColumns, HasColumns
  <1>8. CASE table = "sql_views" /\ CallSqlViews(l, p, time)
    BY <1>2, <1>8, SqlViewsKeep DEF Plain
  <1>9. CASE table = "users" /\ CallUsers(l, p, time)
    BY <1>2, <1>9, UsersKeep DEF Plain
  <1>10. CASE table = "audit_log" /\ Call(Lite!audit_log(l, time), Pg!audit_log(p, time))
    BY <1>2, <1>10, AuditLogKeeps DEF Plain
  <1>11. CASE table = "permissions" /\ CallPermissions(l, p)
    BY <1>1, <1>11, PermissionsKeep DEF SameTable
  <1>12. CASE table = "styles" /\ CallStyles(l, p, time)
    BY <1>1, <1>12, StylesKeep DEF SameTable
  <1>13. CASE table = "layer_groups" /\ CallLayerGroups(l, p, time)
    BY <1>1, <1>13, LayerGroupsKeep DEF SameTable
  <1>14. CASE table = "sessions" /\ CallSessions(l, p, time)
    BY <1>2, <1>14, SessionsKeep DEF Plain
  <1>15. CASE table = "service_settings" /\ CallSettings(l, p)
    BY <1>2, <1>15, SettingsKeep DEF Plain
  <1>. QED  BY <1>3, <1>4, <1>5, <1>6, <1>7, <1>8, <1>9, <1>10, <1>11, <1>12, <1>13, <1>14, <1>15,
               Zenon DEF CallStores

LEMMA AskStoresStarts ==
  ASSUME AskStores
  PROVE  StoresState'
  <1>1. PICK table \in TableNames, old \in BOOLEAN :
          question' = [about |-> "stores", table |-> table, calls |-> 1, alike |-> TRUE,
                       lite |-> Lite!init_db(IF old THEN FirstLite ELSE Lite!NoTables),
                       pg |-> Pg!init_db(IF old THEN FirstPg ELSE Pg!NoTables)]
    BY DEF AskStores
  <1> DEFINE l == IF old THEN FirstLite ELSE Lite!NoTables
             p == IF old THEN FirstPg ELSE Pg!NoTables
             l2 == Lite!init_db(l)
             p2 == Pg!init_db(p)
  <1>2. IsDatabase(l) /\ IsDatabase(p)
    BY FirstStart, NoTablesAlike
  <1>3. \A t \in TableNames : SameTable(t, l2[t], p2[t])
    <2>1. \A t \in TableNames : SameTable(t, Lite!init_db(Lite!NoTables)[t], Pg!init_db(Pg!NoTables)[t])
      BY NoTablesAlike, StartKeeps
    <2>2. CASE old
      BY <2>2, FirstStart
    <2>3. CASE ~old
      BY <2>1, <2>3
    <2>. QED  BY <2>2, <2>3
  <1>4. IsDatabase(l2) /\ IsDatabase(p2)
    <2> HIDE DEF l, p
    <2>. QED  BY <1>2, LiteStart, PgStart, Zenon
  <1>5. question' = [about |-> "stores", table |-> table, calls |-> 1, alike |-> TRUE, lite |-> l2, pg |-> p2]
    BY <1>1
  <1> HIDE DEF l2, p2
  <1>6. IsDatabase(question.lite)' /\ IsDatabase(question.pg)'
    BY <1>4, <1>5 DEF IsDatabase, TableNames
  <1>7. \A t \in TableNames : SameTable(t, question.lite[t], question.pg[t])'
    BY <1>3, <1>5
  <1>8. (question.table \in TableNames /\ question.calls \in Nat)'
    BY <1>5
  <1>9. (question = [about |-> "stores", table |-> question.table, calls |-> question.calls,
                     alike |-> TRUE, lite |-> question.lite, pg |-> question.pg])'
    BY <1>5
  <1>. QED  BY <1>6, <1>7, <1>8, <1>9 DEF StoresState

-----------------------------------------------------------------------------
\* What is read of tables that are alike.
LEMMA SameReads ==
  /\ \A t : Lite!read_workspaces(t) = Pg!read_workspaces(t) /\ Lite!read_namespaces(t) = Pg!read_namespaces(t)
  /\ \A t : Lite!read_data_sources(t) = Pg!read_data_sources(t) /\ Lite!read_layers(t) = Pg!read_layers(t)
  /\ \A t : Lite!read_sql_views(t) = Pg!read_sql_views(t) /\ Lite!read_users(t) = Pg!read_users(t)
  /\ \A t, limit, offset : Lite!get_audit_logs(t, limit, offset) = Pg!get_audit_logs(t, limit, offset)
  /\ \A t : Lite!get_permissions(t) = t.rows /\ Pg!get_permissions(t) = t.rows
  /\ \A t : Lite!read_styles(t) = t /\ Pg!read_styles(t) = t
  /\ \A t : Lite!read_layer_groups(t) = t /\ Pg!read_layer_groups(t) = t
  /\ \A t, jti : Lite!get_session(t, jti) = Pg!get_session(t, jti)
  /\ \A t : Lite!get_service_settings(t) = Pg!get_service_settings(t)
  <1>1. \A t : Lite!read_workspaces(t) = Pg!read_workspaces(t) /\ Lite!read_namespaces(t) = Pg!read_namespaces(t)
    BY DEF Lite!read_workspaces, Pg!read_workspaces, Lite!read_namespaces, Pg!read_namespaces
  <1>2. ASSUME NEW t
        PROVE  Lite!read_data_sources(t) = Pg!read_data_sources(t) /\ Lite!read_layers(t) = Pg!read_layers(t)
    BY DEF Lite!read_data_sources, Pg!read_data_sources, Lite!read_layers, Pg!read_layers,
           Lite!parse_ds_type, Pg!parse_ds_type, Lite!Types, Pg!Types, Lite!Or, Pg!Or
  <1>3. ASSUME NEW t
        PROVE  Lite!read_sql_views(t) = Pg!read_sql_views(t) /\ Lite!read_users(t) = Pg!read_users(t)
    BY DEF Lite!read_sql_views, Pg!read_sql_views, Lite!read_users, Pg!read_users
  <1>4. ASSUME NEW t, NEW limit, NEW offset
        PROVE  Lite!get_audit_logs(t, limit, offset) = Pg!get_audit_logs(t, limit, offset)
    BY DEF Lite!get_audit_logs, Pg!get_audit_logs, Lite!Reverse, Pg!Reverse
  <1>5. /\ \A t : Lite!get_permissions(t) = t.rows /\ Pg!get_permissions(t) = t.rows
        /\ \A t : Lite!read_styles(t) = t /\ Pg!read_styles(t) = t
        /\ \A t : Lite!read_layer_groups(t) = t /\ Pg!read_layer_groups(t) = t
    BY DEF Lite!get_permissions, Pg!get_permissions, Lite!read_styles, Pg!read_styles,
           Lite!read_layer_groups, Pg!read_layer_groups
  <1>6. /\ \A t, jti : Lite!get_session(t, jti) = Pg!get_session(t, jti)
        /\ \A t : Lite!get_service_settings(t) = Pg!get_service_settings(t)
    BY DEF Lite!get_session, Pg!get_session, Lite!get_service_settings, Pg!get_service_settings
  <1>. QED  BY <1>1, <1>2, <1>3, <1>4, <1>5, <1>6, Zenon

LEMMA SameButCreated ==
  ASSUME NEW l, NEW p, SameRows(l, p)
  PROVE  Uncreated(l) = Uncreated(p)
  BY DEF SameRows, Uncreated

LEMMA StatesAgree ==
  ASSUME StoresState
  PROVE  StoresAgree
  <1> DEFINE l == question.lite
             p == question.pg
  <1>1. question.alike = TRUE /\ \A t \in TableNames : SameTable(t, l[t], p[t])
    BY DEF StoresState
  <1> HIDE DEF l, p
  <1>2. /\ l["workspaces"] = p["workspaces"] /\ l["namespaces"] = p["namespaces"]
        /\ l["sql_views"] = p["sql_views"] /\ l["users"] = p["users"] /\ l["audit_log"] = p["audit_log"]
        /\ l["sessions"] = p["sessions"] /\ l["service_settings"] = p["service_settings"]
        /\ l["data_sources"] = p["data_sources"] /\ l["layers"] = p["layers"]
    BY <1>1, TheTables DEF SameTable
  <1>3. /\ SameRules(l["permissions"], p["permissions"])
        /\ SameRows(l["styles"], p["styles"]) /\ SameRows(l["layer_groups"], p["layer_groups"])
    BY <1>1, TheTables DEF SameTable
  <1>4. Range(l["permissions"].rows) = Range(p["permissions"].rows)
    BY <1>3, SameRange
  <1>5. /\ Uncreated(l["styles"]) = Uncreated(p["styles"])
        /\ Uncreated(l["layer_groups"]) = Uncreated(p["layer_groups"])
    BY <1>3, SameButCreated
  <1>6. \A g \in Bodies.check_permission :
          Lite!check_permission(l["permissions"], g.username, g.role, g.type, g.name, g.mode)
            = Pg!check_permission(p["permissions"], g.username, g.role, g.type, g.name, g.mode)
    BY <1>4, SameChecks
  <1>. QED  BY <1>1, <1>2, <1>4, <1>5, <1>6, SameReads, Zenon DEF StoresAgree, l, p

\* The two stores agree, for every number of calls, names, bodies and old rows.
THEOREM ProvedSpecStoresAgree == ProvedSpec => []StoresAgree
  <1>1. Unasked => StoresInv
    BY DEF Unasked, StoresInv
  <1>2. StoresInv /\ [ProvedNext]_question => StoresInv'
    <2>. SUFFICES ASSUME StoresInv, [ProvedNext]_question PROVE StoresInv'
      OBVIOUS
    <2>1. CASE AskStores
      BY <2>1, AskStoresStarts DEF StoresInv
    <2>2. CASE CallStores
      BY <2>2, CallStoresKeeps DEF StoresInv, CallStores
    <2>3. CASE question' = question
      BY <2>3 DEF StoresInv, StoresState, IsDatabase, TableNames
    <2>4. CASE question'.about # "stores"
      BY <2>4 DEF StoresInv
    <2>. QED  BY <2>1, <2>2, <2>3, <2>4, WhatIsCalled
  <1>3. StoresInv => StoresAgree
    BY StatesAgree DEF StoresInv, StoresAgree
  <1>. QED  BY <1>1, <1>2, <1>3, PTL DEF ProvedSpec

-----------------------------------------------------------------------------
(* Questions: the routes of the administration. The account that is kept   *)
(* of the answers is that of the tables and of memory (Known), for every   *)
(* answer of a route is truthful, whether it does or refuses.              *)

RouteFields ==
  {"db", "builtin", "workspaces", "namespaces", "sources", "views", "permissions", "layers", "memory"}

Refusals == {"conflict", "failed", "not found", "bad request"}

\* The tables hold what the account says.
PlacesKnown(srv, told) ==
  DOMAIN srv["workspaces"] = told["workspaces"] /\ DOMAIN srv["namespaces"] = told["namespaces"]

StoreKnown(fresh, entry) ==
  /\ entry = [type |-> entry["type"], workspace |-> entry["workspace"]] /\ entry["type"] \in SourceTypes
  /\ {"type", "workspace"} \subseteq DOMAIN fresh
  /\ fresh["type"] = entry["type"] /\ fresh["workspace"] = entry["workspace"]

StoresKnown(srv, told) ==
  /\ DOMAIN srv["sources"] = DOMAIN told["sources"] /\ IsFiniteSet(DOMAIN told["sources"])
  /\ DOMAIN told["sources"] \subseteq SourceNames \ {"metadata"}
  /\ \A n \in DOMAIN told["sources"] : StoreKnown(srv["sources"][n], told["sources"][n])

ViewsKnown(srv, told) ==
  /\ DOMAIN srv["views"] = told["views"]
  /\ \A n \in told["published"] : \E l \in srv["memory"] : l.name = n
  /\ \A l \in srv["memory"] : l.name \in told["views"] \cup DOMAIN LayersThere
  /\ srv["db"] \/ \A n \in DOMAIN LayersThere : \E l \in srv["memory"] : l.name = n

RulesKnown(srv, told) ==
  /\ DOMAIN srv["permissions"] = {"rows", "last"}
  /\ DOMAIN srv["permissions"]["rows"] = DOMAIN told["rules"]
  /\ \A i \in DOMAIN told["rules"] :
        told["rules"][i] \in AdminRules /\ srv["permissions"]["rows"][i] = Admin!RuleOf(told["rules"][i])

ServerKnown(srv, told) ==
  /\ DOMAIN srv = RouteFields /\ srv["db"] \in BOOLEAN /\ srv["builtin"] = "metadata" /\ srv["layers"] = LayersThere
  /\ DOMAIN told = {"workspaces", "namespaces", "sources", "views", "published", "rules"}
  /\ ~srv["db"] => told["workspaces"] = {} /\ told["namespaces"] = {} /\ DOMAIN told["sources"] = {}
                   /\ told["views"] = {} /\ DOMAIN told["rules"] = {}

Known(srv, told) ==
  /\ ServerKnown(srv, told) /\ PlacesKnown(srv, told) /\ StoresKnown(srv, told)
  /\ ViewsKnown(srv, told) /\ RulesKnown(srv, told)

\* Statements that come to anything.
LEMMA WhatIsDone ==
  /\ \A t, k, r : LET done == Admin!Table!Insert(t, k, r)
                  IN  done.refused \/ /\ k \notin DOMAIN t /\ DOMAIN done.table = DOMAIN t \cup {k}
                                      /\ \A i \in DOMAIN done.table : done.table[i] = IF i = k THEN r ELSE t[i]
  /\ \A t, k, g : LET done == Admin!Table!Update(t, k, g)
                  IN  /\ DOMAIN done.table = DOMAIN t
                      /\ \A i \in DOMAIN t \ {k} : done.table[i] = t[i]
  /\ \A t, k : LET done == Admin!Table!Delete(t, k)
               IN  /\ DOMAIN done.table = DOMAIN t \ {k}
                   /\ \A i \in DOMAIN done.table : done.table[i] = t[i]
  <1>1. ASSUME NEW t, NEW k, NEW r
        PROVE  LET done == Admin!Table!Insert(t, k, r)
               IN  done.refused \/ /\ k \notin DOMAIN t /\ DOMAIN done.table = DOMAIN t \cup {k}
                                   /\ \A i \in DOMAIN done.table : done.table[i] = IF i = k THEN r ELSE t[i]
    BY DEF Admin!Table!Insert, Admin!Table!Put, Admin!Table!Done, Admin!Table!Refused
  <1>2. ASSUME NEW t, NEW k, NEW g
        PROVE  LET done == Admin!Table!Update(t, k, g)
               IN  DOMAIN done.table = DOMAIN t /\ \A i \in DOMAIN t \ {k} : done.table[i] = t[i]
    BY DEF Admin!Table!Update, Admin!Table!Done
  <1>3. ASSUME NEW t, NEW k
        PROVE  LET done == Admin!Table!Delete(t, k)
               IN  DOMAIN done.table = DOMAIN t \ {k} /\ \A i \in DOMAIN done.table : done.table[i] = t[i]
    BY DEF Admin!Table!Delete, Admin!Table!DeleteAll, Admin!Table!Restrict, Admin!Table!Done
  <1>. QED  BY <1>1, <1>2, <1>3

\* An answer of this status tells told2, and one that refuses nothing new.
Truthful(answer, status, told, told2) ==
  /\ answer.status = status => Known(answer.srv, told2)
  /\ answer.status \in Refusals => Known(answer.srv, told)

\* What it takes for an answer that comes of one statement.
LEMMA StoredTruthful ==
  ASSUME NEW srv, NEW told, NEW told2, NEW table, NEW done, NEW status, status \in {"created", "ok"}, Known(srv, told),
         srv["db"] /\ ~done.refused => Known([srv EXCEPT ![table] = done.table], told2)
  PROVE  Truthful(Admin!Stored(srv, table, done, status), status, told, told2)
  <1>. DEFINE answer == Admin!Stored(srv, table, done, status)
  <1>1. \/ answer.status = "failed" /\ answer.srv = srv
        \/ /\ srv["db"] /\ ~done.refused
           /\ answer.status = status /\ answer.srv = [srv EXCEPT ![table] = done.table]
    BY DEF Admin!Stored, Admin!Answer
  <1>. HIDE DEF answer
  <1>2. Truthful(answer, status, told, told2)
    BY <1>1 DEF Truthful, Refusals
  <1>. QED  BY <1>2 DEF answer

LEMMA WorkspacesKnown ==
  ASSUME NEW srv, NEW told, Known(srv, told), NEW w
  PROVE  /\ Truthful(Admin!create_workspace(srv, w), "created", told,
                     [told EXCEPT !.workspaces = @ \cup {w}, !.namespaces = @ \cup {w}])
         /\ Truthful(Admin!update_workspace(srv, w, [title |-> <<"t">>, enabled |-> <<>>]), "ok", told, told)
         /\ Truthful(Admin!delete_workspace(srv, w), "ok", told, [told EXCEPT !.workspaces = @ \ {w}])
  <1>1. Truthful(Admin!update_workspace(srv, w, [title |-> <<"t">>, enabled |-> <<>>]), "ok", told, told)
    <2>. DEFINE done == Admin!Table!update_workspace(srv["workspaces"], w, [title |-> <<"t">>, enabled |-> <<>>], 0)
    <2>1. DOMAIN done.table = DOMAIN srv["workspaces"]
      BY WhatIsDone DEF Admin!Table!update_workspace
    <2>. HIDE DEF done
    <2>2. Known([srv EXCEPT !["workspaces"] = done.table], told)
      BY <2>1 DEF Known, ServerKnown, PlacesKnown, StoresKnown, ViewsKnown, RulesKnown, RouteFields
    <2>3. Truthful(Admin!Stored(srv, "workspaces", done, "ok"), "ok", told, told)
      BY <2>2, StoredTruthful
    <2>. QED  BY <2>3 DEF Admin!update_workspace, done
  <1>2. Truthful(Admin!delete_workspace(srv, w), "ok", told, [told EXCEPT !.workspaces = @ \ {w}])
    <2>. DEFINE done == Admin!Table!delete_workspace(srv["workspaces"], w)
    <2>1. DOMAIN done.table = DOMAIN srv["workspaces"] \ {w}
      BY WhatIsDone DEF Admin!Table!delete_workspace
    <2>. HIDE DEF done
    <2>2. srv["db"] => Known([srv EXCEPT !["workspaces"] = done.table], [told EXCEPT !["workspaces"] = @ \ {w}])
      BY <2>1 DEF Known, ServerKnown, PlacesKnown, StoresKnown, ViewsKnown, RulesKnown, RouteFields
    <2>3. Truthful(Admin!Stored(srv, "workspaces", done, "ok"), "ok", told, [told EXCEPT !["workspaces"] = @ \ {w}])
      BY <2>2, StoredTruthful
    <2>. QED  BY <2>3 DEF Admin!delete_workspace, done
  <1>3. Truthful(Admin!create_workspace(srv, w), "created", told,
                 [told EXCEPT !.workspaces = @ \cup {w}, !.namespaces = @ \cup {w}])
    <2>. DEFINE done == Admin!Table!create_workspace(srv["workspaces"], w, [title |-> <<>>], 0)
                given == [uri |-> w, isolated |-> FALSE, workspace |-> <<w>>]
                spaces == Admin!Table!create_namespace(srv["namespaces"], w, given, 0)
                kept == Admin!Stored(srv, "workspaces", done, "created")
                answer == Admin!create_workspace(srv, w)
    <2>1. done.refused \/ DOMAIN done.table = DOMAIN srv["workspaces"] \cup {w}
      BY DEF Admin!Table!create_workspace, Admin!Table!Insert, Admin!Table!Put, Admin!Table!Done, Admin!Table!Refused
    <2>2. DOMAIN spaces.table = DOMAIN srv["namespaces"] \cup {w}
      BY DEF Admin!Table!create_namespace, Admin!Table!Insert, Admin!Table!Put, Admin!Table!Done, Admin!Table!Refused
    <2>3. answer = IF kept.status = "failed" THEN kept
                   ELSE [kept EXCEPT !["srv"] = [@ EXCEPT !["namespaces"] = spaces.table]]
      BY DEF Admin!create_workspace
    <2>. HIDE DEF done, spaces, answer
    <2>4. \/ answer.status = "failed" /\ answer.srv = srv
          \/ /\ srv["db"] /\ ~done.refused /\ answer.status = "created"
             /\ answer.srv = [srv EXCEPT !["workspaces"] = done.table, !["namespaces"] = spaces.table]
      BY <2>3 DEF Admin!Stored, Admin!Answer
    <2>5. srv["db"] /\ ~done.refused =>
            Known([srv EXCEPT !["workspaces"] = done.table, !["namespaces"] = spaces.table],
                  [told EXCEPT !["workspaces"] = @ \cup {w}, !["namespaces"] = @ \cup {w}])
      BY <2>1, <2>2 DEF Known, ServerKnown, PlacesKnown, StoresKnown, ViewsKnown, RulesKnown, RouteFields
    <2>6. Truthful(answer, "created", told, [told EXCEPT !["workspaces"] = @ \cup {w}, !["namespaces"] = @ \cup {w}])
      BY <2>4, <2>5 DEF Truthful, Refusals
    <2>. QED  BY <2>6 DEF answer
  <1>. QED  BY <1>1, <1>2, <1>3

\* Nor one that refuses at once.
LEMMA RefusalTruthful ==
  ASSUME NEW srv, NEW told, NEW told2, NEW status, status \in {"created", "ok"}, Known(srv, told), NEW refusal \in Refusals
  PROVE  Truthful(Admin!Answer(srv, refusal), status, told, told2)
  BY DEF Truthful, Refusals, Admin!Answer

LEMMA NamespacesKnown ==
  ASSUME NEW srv, NEW told, Known(srv, told), NEW w
  PROVE  /\ Truthful(Admin!create_namespace(srv, w, [uri |-> "u", isolated |-> FALSE, workspace |-> <<>>]), "created", told,
                     [told EXCEPT !.namespaces = @ \cup {w}])
         /\ Truthful(Admin!update_namespace(srv, w, [uri |-> <<"v">>, isolated |-> <<TRUE>>, workspace |-> <<>>]), "ok", told, told)
         /\ Truthful(Admin!delete_namespace(srv, w), "ok", told, [told EXCEPT !.namespaces = @ \ {w}])
  <1>1. Truthful(Admin!update_namespace(srv, w, [uri |-> <<"v">>, isolated |-> <<TRUE>>, workspace |-> <<>>]), "ok", told, told)
    <2>. DEFINE done == Admin!Table!update_namespace(srv["namespaces"], w, [uri |-> <<"v">>, isolated |-> <<TRUE>>, workspace |-> <<>>], 0)
    <2>1. DOMAIN done.table = DOMAIN srv["namespaces"]
      BY WhatIsDone DEF Admin!Table!update_namespace
    <2>. HIDE DEF done
    <2>2. Known([srv EXCEPT !["namespaces"] = done.table], told)
      BY <2>1 DEF Known, ServerKnown, PlacesKnown, StoresKnown, ViewsKnown, RulesKnown, RouteFields
    <2>3. Truthful(Admin!Stored(srv, "namespaces", done, "ok"), "ok", told, told)
      BY <2>2, StoredTruthful
    <2>. QED  BY <2>3 DEF Admin!update_namespace, done
  <1>2. Truthful(Admin!delete_namespace(srv, w), "ok", told, [told EXCEPT !.namespaces = @ \ {w}])
    <2>. DEFINE done == Admin!Table!delete_namespace(srv["namespaces"], w)
    <2>1. DOMAIN done.table = DOMAIN srv["namespaces"] \ {w}
      BY WhatIsDone DEF Admin!Table!delete_namespace
    <2>. HIDE DEF done
    <2>2. srv["db"] => Known([srv EXCEPT !["namespaces"] = done.table], [told EXCEPT !["namespaces"] = @ \ {w}])
      BY <2>1 DEF Known, ServerKnown, PlacesKnown, StoresKnown, ViewsKnown, RulesKnown, RouteFields
    <2>3. Truthful(Admin!Stored(srv, "namespaces", done, "ok"), "ok", told, [told EXCEPT !["namespaces"] = @ \ {w}])
      BY <2>2, StoredTruthful
    <2>. QED  BY <2>3 DEF Admin!delete_namespace, done
  <1>3. Truthful(Admin!create_namespace(srv, w, [uri |-> "u", isolated |-> FALSE, workspace |-> <<>>]), "created", told,
                 [told EXCEPT !.namespaces = @ \cup {w}])
    <2>. DEFINE given == [uri |-> "u", isolated |-> FALSE, workspace |-> <<>>]
                done == Admin!Table!create_namespace(srv["namespaces"], w, given, 0)
    <2>1. done.refused \/ DOMAIN done.table = DOMAIN srv["namespaces"] \cup {w}
      BY DEF Admin!Table!create_namespace, Admin!Table!Insert, Admin!Table!Put, Admin!Table!Done, Admin!Table!Refused
    <2>. HIDE DEF done
    <2>2. srv["db"] /\ ~done.refused =>
            Known([srv EXCEPT !["namespaces"] = done.table], [told EXCEPT !["namespaces"] = @ \cup {w}])
      BY <2>1 DEF Known, ServerKnown, PlacesKnown, StoresKnown, ViewsKnown, RulesKnown, RouteFields
    <2>3. Truthful(Admin!Stored(srv, "namespaces", done, "created"), "created", told, [told EXCEPT !["namespaces"] = @ \cup {w}])
      BY <2>2, StoredTruthful
    <2>4. Truthful(Admin!Answer(srv, "conflict"), "created", told, [told EXCEPT !["namespaces"] = @ \cup {w}])
      BY RefusalTruthful DEF Refusals
    <2>. QED  BY <2>3, <2>4 DEF Admin!create_namespace, done
  <1>. QED  BY <1>1, <1>2, <1>3

\* A table of the sources that the account goes with.
LEMMA SourcesChange ==
  ASSUME NEW srv, NEW told, NEW told2, NEW table, Known(srv, told),
         DOMAIN told2 = DOMAIN told, \A f \in DOMAIN told \ {"sources"} : told2[f] = told[f],
         DOMAIN table = DOMAIN told2["sources"], IsFiniteSet(DOMAIN told2["sources"]),
         DOMAIN told2["sources"] \subseteq SourceNames \ {"metadata"},
         \A i \in DOMAIN told2["sources"] : StoreKnown(table[i], told2["sources"][i]),
         srv["db"]
  PROVE  Known([srv EXCEPT !["sources"] = table], told2)
  <1>. DEFINE new == [srv EXCEPT !["sources"] = table]
  <1>1. DOMAIN told = {"workspaces", "namespaces", "sources", "views", "published", "rules"}
    BY DEF Known, ServerKnown
  <1>2. /\ new["sources"] = table /\ DOMAIN new = RouteFields
        /\ \A f \in RouteFields \ {"sources"} : new[f] = srv[f]
    BY DEF Known, ServerKnown, RouteFields
  <1>. HIDE DEF new
  <1>3. ServerKnown(new, told2)
    BY <1>1, <1>2 DEF Known, ServerKnown, RouteFields
  <1>4. PlacesKnown(new, told2) /\ RulesKnown(new, told2)
    BY <1>1, <1>2 DEF Known, PlacesKnown, RulesKnown, RouteFields
  <1>5. ViewsKnown(new, told2)
    BY <1>1, <1>2 DEF Known, ViewsKnown, RouteFields
  <1>6. StoresKnown(new, told2)
    BY <1>2 DEF StoresKnown
  <1>7. Known(new, told2)
    BY <1>3, <1>4, <1>5, <1>6 DEF Known
  <1>. QED  BY <1>7 DEF new

\* The account of a store that is made.
LEMMA StoreMade ==
  ASSUME NEW srv, NEW told, Known(srv, told), NEW n \in SourceNames, NEW type \in SourceTypes, NEW ws, NEW w
  PROVE  Truthful(Admin!InsertStore(srv, [name |-> n, type |-> type, workspace |-> ws, enabled |-> TRUE,
                                          connection |-> [schema_name |-> <<"public">>]], w),
                  "created", told, Believe(told, n, type, w))
  <1>. DEFINE body == [name |-> n, type |-> type, workspace |-> ws, enabled |-> TRUE, connection |-> [schema_name |-> <<"public">>]]
              given == [body EXCEPT !.workspace = w]
              done == Admin!Table!create_data_source(srv["sources"], n, given, 0)
              fresh == Admin!Table!Over([type |-> given.type, workspace |-> given.workspace, enabled |-> given.enabled,
                                       created |-> 0, modified |-> 0], given.connection)
              told2 == Believe(told, n, type, w)
              entry == [type |-> type, workspace |-> w]
  <1>1. /\ {"type", "workspace"} \subseteq DOMAIN fresh
        /\ fresh["type"] = type /\ fresh["workspace"] = w
    BY DEF Admin!Table!Over
  <1>2. done.refused \/ /\ n \notin DOMAIN srv["sources"] /\ DOMAIN done.table = DOMAIN srv["sources"] \cup {n}
                        /\ \A i \in DOMAIN done.table : done.table[i] = IF i = n THEN fresh ELSE srv["sources"][i]
    BY DEF Admin!Table!create_data_source, Admin!Table!Insert, Admin!Table!Put, Admin!Table!Done, Admin!Table!Refused
  <1>4. /\ DOMAIN told2["sources"] = DOMAIN told["sources"] \cup {n}
        /\ \A i \in DOMAIN told2["sources"] : told2["sources"][i] = IF i = n THEN entry ELSE told["sources"][i]
        /\ DOMAIN told2 = DOMAIN told
        /\ \A f \in DOMAIN told \ {"sources"} : told2[f] = told[f]
    BY DEF Believe, Admin!Put, Known, ServerKnown
  <1>5. StoreKnown(fresh, entry)
    <2>. HIDE DEF fresh
    <2>. QED  BY <1>1 DEF StoreKnown
  <1>. HIDE DEF fresh, told2, entry, done
  <1>6. ASSUME srv["db"] /\ ~done.refused, n # "metadata"
        PROVE  Known([srv EXCEPT !["sources"] = done.table], told2)
    <2>1. IsFiniteSet(DOMAIN told2["sources"])
      BY <1>4, FS_AddElement DEF Known, StoresKnown
    <2>2. DOMAIN done.table = DOMAIN told2["sources"] /\ DOMAIN told2["sources"] \subseteq SourceNames \ {"metadata"}
      BY <1>2, <1>4, <1>6 DEF Known, StoresKnown
    <2>3. ASSUME NEW i \in DOMAIN told2["sources"] PROVE StoreKnown(done.table[i], told2["sources"][i])
      <3>1. CASE i = n
        BY <3>1, <1>2, <1>4, <1>5, <1>6, <2>2
      <3>2. CASE i # n
        <4>1. done.table[i] = srv["sources"][i] /\ told2["sources"][i] = told["sources"][i] /\ i \in DOMAIN told["sources"]
          BY <3>2, <1>2, <1>4, <1>6, <2>2
        <4>. QED  BY <4>1 DEF Known, StoresKnown
      <3>. QED  BY <3>1, <3>2
    <2>. QED  BY <2>1, <2>2, <2>3, <1>4, <1>6, SourcesChange
  <1>7. n # "metadata" => Truthful(Admin!Stored(srv, "sources", done, "created"), "created", told, told2)
    BY <1>6, StoredTruthful
  <1>8. Truthful(Admin!Answer(srv, "conflict"), "created", told, told2)
    BY RefusalTruthful DEF Refusals
  <1>. QED  BY <1>7, <1>8 DEF Admin!InsertStore, Admin!is_builtin_metadata, Admin!METADATA_DATA_SOURCE, done, told2

\* The account of a store that is removed.
LEMMA StoreRemoved ==
  ASSUME NEW srv, NEW told, Known(srv, told), NEW n
  PROVE  Truthful(Admin!delete_store(srv, n), "ok", told, [told EXCEPT !.sources = Restrict(@, DOMAIN @ \ {n})])
  <1>. DEFINE done == Admin!Table!delete_data_source(srv["sources"], n)
              told2 == [told EXCEPT !["sources"] = Restrict(told["sources"], DOMAIN told["sources"] \ {n})]
  <1>1. DOMAIN done.table = DOMAIN srv["sources"] \ {n} /\ \A i \in DOMAIN done.table : done.table[i] = srv["sources"][i]
    BY WhatIsDone DEF Admin!Table!delete_data_source
  <1>2. /\ DOMAIN told2["sources"] = DOMAIN told["sources"] \ {n}
        /\ \A i \in DOMAIN told2["sources"] : told2["sources"][i] = told["sources"][i]
        /\ DOMAIN told2 = DOMAIN told
        /\ \A f \in DOMAIN told \ {"sources"} : told2[f] = told[f]
    BY DEF Restrict, Known, ServerKnown
  <1>. HIDE DEF done, told2
  <1>3. srv["db"] => Known([srv EXCEPT !["sources"] = done.table], told2)
    <2>1. IsFiniteSet(DOMAIN told2["sources"])
      BY <1>2, FS_Subset DEF Known, StoresKnown
    <2>2. DOMAIN done.table = DOMAIN told2["sources"] /\ DOMAIN told2["sources"] \subseteq SourceNames \ {"metadata"}
      BY <1>1, <1>2 DEF Known, StoresKnown
    <2>3. \A i \in DOMAIN told2["sources"] : StoreKnown(done.table[i], told2["sources"][i])
      BY <1>1, <1>2 DEF Known, StoresKnown
    <2>. QED  BY <2>1, <2>2, <2>3, <1>2, SourcesChange
  <1>4. Truthful(Admin!Stored(srv, "sources", done, "ok"), "ok", told, told2)
    BY <1>3, StoredTruthful
  <1>5. Truthful(Admin!Answer(srv, "bad request"), "ok", told, told2)
    BY RefusalTruthful DEF Refusals
  <1>. QED  BY <1>4, <1>5 DEF Admin!delete_store, done, told2

\* The account of a store that is changed, as far as there is one.
LEMMA StoreChanged ==
  ASSUME NEW srv, NEW told, Known(srv, told), NEW n, NEW type \in Opt(SourceTypes), NEW ws
  PROVE  Truthful(Admin!update_store(srv, n, [type |-> type, workspace |-> ws, enabled |-> <<>>, connection |-> <<>>]),
                  "ok", told,
                  IF n \notin DOMAIN told.sources THEN told
                  ELSE Believe(told, n, IF type = <<>> THEN told.sources[n].type ELSE type[1],
                               IF ws = <<>> THEN told.sources[n].workspace ELSE ws))
  <1>. DEFINE given == [type |-> type, workspace |-> ws, enabled |-> <<>>, connection |-> <<>>]
              set == Admin!Table!Over([type |-> type, enabled |-> <<>>, workspace |-> Admin!Table!Nullable(ws), modified |-> <<0>>], <<>>)
              done == Admin!Table!update_data_source(srv["sources"], n, given, 0)
              old == srv["sources"][n]
              entry == [type |-> IF type = <<>> THEN told["sources"][n]["type"] ELSE type[1],
                        workspace |-> IF ws = <<>> THEN told["sources"][n]["workspace"] ELSE ws]
              told2 == IF n \notin DOMAIN told["sources"] THEN told
                       ELSE Believe(told, n, IF type = <<>> THEN told["sources"][n]["type"] ELSE type[1],
                                    IF ws = <<>> THEN told["sources"][n]["workspace"] ELSE ws)
  <1>1. /\ {"type", "workspace"} \subseteq DOMAIN set
        /\ set["type"] = type /\ set["workspace"] = IF ws = <<>> THEN <<>> ELSE <<ws>>
    BY DEF Admin!Table!Over, Admin!Table!Nullable
  <1>2. done = Admin!Table!Update(srv["sources"], n, set)
    BY DEF Admin!Table!update_data_source
  <1>. HIDE DEF set, done
  <1>3. /\ DOMAIN done.table = DOMAIN srv["sources"]
        /\ \A i \in DOMAIN srv["sources"] \ {n} : done.table[i] = srv["sources"][i]
        /\ n \in DOMAIN srv["sources"] =>
             done.table[n] = [c \in DOMAIN old |-> IF c \in DOMAIN set /\ set[c] # <<>> THEN set[c][1] ELSE old[c]]
    BY <1>2 DEF Admin!Table!Update, Admin!Table!Done
  <1>4. n \in DOMAIN told["sources"] => StoreKnown(done.table[n], entry)
    <2>1. ASSUME n \in DOMAIN told["sources"] PROVE StoreKnown(done.table[n], entry)
      <3>1. StoreKnown(old, told["sources"][n]) /\ n \in DOMAIN srv["sources"]
        BY <2>1 DEF Known, StoresKnown
      <3>2. {"type", "workspace"} \subseteq DOMAIN done.table[n]
        BY <1>3, <3>1 DEF StoreKnown
      <3>3. done.table[n]["type"] = entry["type"] /\ entry["type"] \in SourceTypes
        BY <1>1, <1>3, <3>1 DEF StoreKnown, Opt
      <3>4. done.table[n]["workspace"] = entry["workspace"]
        <4>1. CASE ws = <<>>
          BY <4>1, <1>1, <1>3, <3>1 DEF StoreKnown
        <4>2. CASE ws # <<>>
          <5>1. <<ws>> # <<>>
            OBVIOUS
          <5>. QED  BY <5>1, <4>2, <1>1, <1>3, <3>1 DEF StoreKnown
        <4>. QED  BY <4>1, <4>2
      <3>. QED  BY <3>2, <3>3, <3>4 DEF StoreKnown
    <2>. QED  BY <2>1
  <1>5. /\ DOMAIN told2["sources"] = DOMAIN told["sources"] /\ DOMAIN told2 = DOMAIN told
        /\ \A f \in DOMAIN told \ {"sources"} : told2[f] = told[f]
        /\ n \in DOMAIN told["sources"] => told2["sources"][n] = entry
        /\ \A i \in DOMAIN told["sources"] \ {n} : told2["sources"][i] = told["sources"][i]
    BY DEF Believe, Admin!Put, Known, ServerKnown
  <1>. HIDE DEF entry, told2
  <1>6. srv["db"] => Known([srv EXCEPT !["sources"] = done.table], told2)
    <2>1. IsFiniteSet(DOMAIN told2["sources"])
      BY <1>5 DEF Known, StoresKnown
    <2>2. DOMAIN done.table = DOMAIN told2["sources"] /\ DOMAIN told2["sources"] \subseteq SourceNames \ {"metadata"}
      BY <1>3, <1>5 DEF Known, StoresKnown
    <2>3. ASSUME NEW i \in DOMAIN told2["sources"] PROVE StoreKnown(done.table[i], told2["sources"][i])
      <3>1. CASE i = n
        BY <3>1, <1>4, <1>5
      <3>2. CASE i # n
        BY <3>2, <1>3, <1>5 DEF Known, StoresKnown
      <3>. QED  BY <3>1, <3>2
    <2>. QED  BY <2>1, <2>2, <2>3, <1>5, SourcesChange
  <1>7. Truthful(Admin!Stored(srv, "sources", done, "ok"), "ok", told, told2)
    BY <1>6, StoredTruthful
  <1>8. Truthful(Admin!Answer(srv, "bad request"), "ok", told, told2)
    BY RefusalTruthful DEF Refusals
  <1>. QED  BY <1>7, <1>8 DEF Admin!update_store, done, told2

\* Stores, by all their routes.
LEMMA StoreRoutesKnown ==
  ASSUME NEW srv, NEW told, Known(srv, told), NEW n \in SourceNames, NEW ws
  PROVE  /\ \A type \in SourceTypes :
              LET body == [name |-> n, type |-> type, workspace |-> ws, enabled |-> TRUE,
                           connection |-> [schema_name |-> <<"public">>]]
              IN  /\ Truthful(Admin!create_store(srv, body), "created", told, Believe(told, n, type, ws))
                  /\ \A w : Truthful(Admin!create_workspace_store(srv, w, body), "created", told, Believe(told, n, type, <<w>>))
         /\ \A type \in Opt(SourceTypes) :
              Truthful(Admin!update_store(srv, n, [type |-> type, workspace |-> ws, enabled |-> <<>>, connection |-> <<>>]),
                       "ok", told,
                       IF n \notin DOMAIN told.sources THEN told
                       ELSE Believe(told, n, IF type = <<>> THEN told.sources[n].type ELSE type[1],
                                    IF ws = <<>> THEN told.sources[n].workspace ELSE ws))
         /\ Truthful(Admin!delete_store(srv, n), "ok", told, [told EXCEPT !.sources = Restrict(@, DOMAIN @ \ {n})])
  <1>1. ASSUME NEW type \in SourceTypes
        PROVE  LET body == [name |-> n, type |-> type, workspace |-> ws, enabled |-> TRUE,
                            connection |-> [schema_name |-> <<"public">>]]
               IN  /\ Truthful(Admin!create_store(srv, body), "created", told, Believe(told, n, type, ws))
                   /\ \A w : Truthful(Admin!create_workspace_store(srv, w, body), "created", told, Believe(told, n, type, <<w>>))
    <2>. DEFINE body == [name |-> n, type |-> type, workspace |-> ws, enabled |-> TRUE,
                         connection |-> [schema_name |-> <<"public">>]]
    <2>1. \A w : Truthful(Admin!InsertStore(srv, body, w), "created", told, Believe(told, n, type, w))
      BY StoreMade
    <2>2. body.workspace = ws
      OBVIOUS
    <2>. HIDE DEF body
    <2>3. Truthful(Admin!create_store(srv, body), "created", told, Believe(told, n, type, ws))
      BY <2>1, <2>2 DEF Admin!create_store
    <2>4. ASSUME NEW w PROVE Truthful(Admin!create_workspace_store(srv, w, body), "created", told, Believe(told, n, type, <<w>>))
      <3>1. Truthful(Admin!Answer(srv, "not found"), "created", told, Believe(told, n, type, <<w>>))
        BY RefusalTruthful DEF Refusals
      <3>. QED  BY <3>1, <2>1 DEF Admin!create_workspace_store
    <2>. QED  BY <2>3, <2>4 DEF body
  <1>2. ASSUME NEW type \in Opt(SourceTypes)
        PROVE  Truthful(Admin!update_store(srv, n, [type |-> type, workspace |-> ws, enabled |-> <<>>, connection |-> <<>>]),
                        "ok", told,
                        IF n \notin DOMAIN told.sources THEN told
                        ELSE Believe(told, n, IF type = <<>> THEN told.sources[n].type ELSE type[1],
                                     IF ws = <<>> THEN told.sources[n].workspace ELSE ws))
    BY StoreChanged
  <1>3. Truthful(Admin!delete_store(srv, n), "ok", told, [told EXCEPT !.sources = Restrict(@, DOMAIN @ \ {n})])
    BY StoreRemoved
  <1>. QED  BY <1>1, <1>2, <1>3

\* A table of the views and a memory that the account goes with.
LEMMA ViewsChange ==
  ASSUME NEW srv, NEW told, NEW told2, NEW table, NEW shown, Known(srv, told),
         DOMAIN told2 = DOMAIN told, \A f \in DOMAIN told \ {"views", "published"} : told2[f] = told[f],
         srv["db"],
         DOMAIN table = told2["views"],
         \A n \in told2["published"] : \E l \in shown : l.name = n,
         \A l \in shown : l.name \in told2["views"] \cup DOMAIN LayersThere
  PROVE  Known([srv EXCEPT !["views"] = table, !["memory"] = shown], told2)
  <1>. DEFINE new == [srv EXCEPT !["views"] = table, !["memory"] = shown]
  <1>1. DOMAIN told = {"workspaces", "namespaces", "sources", "views", "published", "rules"}
    BY DEF Known, ServerKnown
  <1>2. /\ new["views"] = table /\ new["memory"] = shown /\ DOMAIN new = RouteFields
        /\ \A f \in RouteFields \ {"views", "memory"} : new[f] = srv[f]
    BY DEF Known, ServerKnown, RouteFields
  <1>. HIDE DEF new
  <1>3. ServerKnown(new, told2)
    BY <1>1, <1>2 DEF Known, ServerKnown, RouteFields
  <1>4. PlacesKnown(new, told2) /\ RulesKnown(new, told2)
    BY <1>1, <1>2 DEF Known, PlacesKnown, RulesKnown, RouteFields
  <1>5. StoresKnown(new, told2)
    BY <1>1, <1>2 DEF Known, StoresKnown, RouteFields
  <1>6. ViewsKnown(new, told2)
    BY <1>2 DEF ViewsKnown, RouteFields
  <1>7. Known(new, told2)
    BY <1>3, <1>4, <1>5, <1>6 DEF Known
  <1>. QED  BY <1>7 DEF new

LEMMA ViewsRoutesKnown ==
  ASSUME NEW srv, NEW told, Known(srv, told), NEW n, NEW w
  PROVE  /\ Truthful(Admin!create_sql_view(srv, n, [sql |-> "q", parameters |-> <<>>, description |-> <<>>, workspace |-> w]),
                     "created", told, [told EXCEPT !.views = @ \cup {n}, !.published = @ \cup {n}])
         /\ Truthful(Admin!update_sql_view(srv, n, [sql |-> <<"r">>, parameters |-> <<>>, description |-> <<>>]), "ok", told, told)
         /\ Truthful(Admin!delete_sql_view(srv, n), "ok", told, [told EXCEPT !.views = @ \ {n}, !.published = @ \ {n}])
         /\ Known(Admin!Restarted(srv), [told EXCEPT !.published = {}])
  <1>. USE DEF RouteFields
  <1>0. DOMAIN told = {"workspaces", "namespaces", "sources", "views", "published", "rules"} /\ DOMAIN srv = RouteFields
        /\ srv["layers"] = LayersThere
    BY DEF Known, ServerKnown
  <1>1. Truthful(Admin!create_sql_view(srv, n, [sql |-> "q", parameters |-> <<>>, description |-> <<>>, workspace |-> w]),
                 "created", told, [told EXCEPT !.views = @ \cup {n}, !.published = @ \cup {n}])
    <2>. DEFINE body == [sql |-> "q", parameters |-> <<>>, description |-> <<>>, workspace |-> w]
                done == Admin!Table!create_sql_view(srv["views"], n, body, 0)
                layer == Admin!Named(body, n)
                shown == srv["memory"] \cup {layer}
                told2 == [told EXCEPT !["views"] = told["views"] \cup {n}, !["published"] = told["published"] \cup {n}]
                answer == Admin!create_sql_view(srv, n, body)
    <2>1. done.refused \/ DOMAIN done.table = DOMAIN srv["views"] \cup {n}
      BY DEF Admin!Table!create_sql_view, Admin!Table!Insert, Admin!Table!Put, Admin!Table!Done, Admin!Table!Refused
    <2>2. layer.name = n
      BY DEF Admin!Named
    <2>3. /\ told2["views"] = told["views"] \cup {n} /\ told2["published"] = told["published"] \cup {n}
          /\ DOMAIN told2 = DOMAIN told /\ \A f \in DOMAIN told \ {"views", "published"} : told2[f] = told[f]
      BY <1>0
    <2>4. \/ answer.status \in {"conflict", "failed"} /\ answer.srv = srv
          \/ /\ srv["db"] /\ ~done.refused /\ answer.status = "created"
             /\ answer.srv = [srv EXCEPT !["views"] = done.table, !["memory"] = shown]
      <3>. HIDE DEF body
      <3>. QED  BY <1>0 DEF Admin!create_sql_view, Admin!Stored, Admin!Answer
    <2>. HIDE DEF body, done, layer, told2, answer
    <2>5. srv["db"] /\ ~done.refused => Known([srv EXCEPT !["views"] = done.table, !["memory"] = shown], told2)
      <3>1. ASSUME srv["db"] /\ ~done.refused
            PROVE  Known([srv EXCEPT !["views"] = done.table, !["memory"] = shown], told2)
        <4>1. DOMAIN done.table = told2["views"]
          BY <3>1, <2>1, <2>3 DEF Known, ViewsKnown
        <4>2. \A m \in told2["published"] : \E l \in shown : l.name = m
          BY <2>2, <2>3 DEF Known, ViewsKnown
        <4>3. \A l \in shown : l.name \in told2["views"] \cup DOMAIN LayersThere
          BY <2>2, <2>3 DEF Known, ViewsKnown
        <4>. HIDE DEF shown
        <4>. QED  BY <3>1, <4>1, <4>2, <4>3, <2>3, ViewsChange
      <3>. QED  BY <3>1
    <2>. HIDE DEF shown
    <2>6. Truthful(answer, "created", told, told2)
      BY <2>4, <2>5 DEF Truthful, Refusals
    <2>. QED  BY <2>6 DEF body, told2, answer
  <1>2. Truthful(Admin!update_sql_view(srv, n, [sql |-> <<"r">>, parameters |-> <<>>, description |-> <<>>]), "ok", told, told)
    <2>. DEFINE done == Admin!Table!update_sql_view(srv["views"], n, [sql |-> <<"r">>, parameters |-> <<>>, description |-> <<>>], 0)
    <2>1. DOMAIN done.table = DOMAIN srv["views"]
      BY WhatIsDone DEF Admin!Table!update_sql_view
    <2>. HIDE DEF done
    <2>2. Known([srv EXCEPT !["views"] = done.table], told)
      BY <2>1 DEF Known, ServerKnown, PlacesKnown, StoresKnown, ViewsKnown, RulesKnown
    <2>3. Truthful(Admin!Stored(srv, "views", done, "ok"), "ok", told, told)
      BY <2>2, StoredTruthful
    <2>. QED  BY <2>3 DEF Admin!update_sql_view, done
  <1>3. Truthful(Admin!delete_sql_view(srv, n), "ok", told, [told EXCEPT !.views = @ \ {n}, !.published = @ \ {n}])
    <2>. DEFINE done == Admin!Table!delete_sql_view(srv["views"], n)
                shown == {l \in srv["memory"] : l.name # n}
                told2 == [told EXCEPT !["views"] = told["views"] \ {n}, !["published"] = told["published"] \ {n}]
                answer == Admin!delete_sql_view(srv, n)
    <2>1. DOMAIN done.table = DOMAIN srv["views"] \ {n}
      BY WhatIsDone DEF Admin!Table!delete_sql_view
    <2>2. /\ told2["views"] = told["views"] \ {n} /\ told2["published"] = told["published"] \ {n}
          /\ DOMAIN told2 = DOMAIN told /\ \A f \in DOMAIN told \ {"views", "published"} : told2[f] = told[f]
      BY <1>0
    <2>3. \/ answer.status = "failed" /\ answer.srv = srv
          \/ /\ srv["db"] /\ answer.status = "ok"
             /\ answer.srv = [srv EXCEPT !["views"] = done.table, !["memory"] = shown]
      BY <1>0 DEF Admin!delete_sql_view, Admin!Stored, Admin!Answer
    <2>. HIDE DEF done, told2, answer
    <2>4. srv["db"] => Known([srv EXCEPT !["views"] = done.table, !["memory"] = shown], told2)
      <3>1. DOMAIN done.table = told2["views"]
        BY <2>1, <2>2 DEF Known, ViewsKnown
      <3>2. \A m \in told2["published"] : \E l \in shown : l.name = m
        BY <2>2 DEF Known, ViewsKnown
      <3>3. \A l \in shown : l.name \in told2["views"] \cup DOMAIN LayersThere
        BY <2>2 DEF Known, ViewsKnown
      <3>. HIDE DEF shown
      <3>. QED  BY <3>1, <3>2, <3>3, <2>2, ViewsChange
    <2>. HIDE DEF shown
    <2>5. Truthful(answer, "ok", told, told2)
      BY <2>3, <2>4 DEF Truthful, Refusals
    <2>. QED  BY <2>5 DEF answer, told2
  <1>4. Known(Admin!Restarted(srv), [told EXCEPT !.published = {}])
    <2>. DEFINE shown == {Admin!Named(srv["layers"][i], i) : i \in DOMAIN srv["layers"]}
                told2 == [told EXCEPT !["published"] = {}]
    <2>1. /\ \A l \in shown : l.name \in DOMAIN LayersThere
          /\ \A m \in DOMAIN LayersThere : \E l \in shown : l.name = m
      <3>1. ASSUME NEW m \in DOMAIN LayersThere PROVE \E l \in shown : l.name = m
        <4>1. Admin!Named(srv["layers"][m], m) \in shown
          BY <1>0
        <4>. QED  BY <4>1 DEF Admin!Named
      <3>. QED  BY <1>0, <3>1 DEF Admin!Named
    <2>2. /\ told2["views"] = told["views"] /\ told2["published"] = {}
          /\ DOMAIN told2 = DOMAIN told /\ \A f \in DOMAIN told \ {"views", "published"} : told2[f] = told[f]
      BY <1>0
    <2>3. Admin!Restarted(srv) = [srv EXCEPT !["memory"] = shown]
      BY DEF Admin!Restarted
    <2>. HIDE DEF shown, told2
    <2>4. Known([srv EXCEPT !["memory"] = shown], told2)
      BY <1>0, <2>1, <2>2 DEF Known, ServerKnown, PlacesKnown, StoresKnown, ViewsKnown, RulesKnown
    <2>. QED  BY <2>3, <2>4 DEF told2
  <1>. QED  BY <1>1, <1>2, <1>3, <1>4

\* Rules that the account goes with.
LEMMA RulesChange ==
  ASSUME NEW srv, NEW told, NEW told2, NEW table, Known(srv, told), srv["db"],
         DOMAIN told2 = DOMAIN told, \A f \in DOMAIN told \ {"rules"} : told2[f] = told[f],
         DOMAIN table = {"rows", "last"}, DOMAIN table["rows"] = DOMAIN told2["rules"],
         \A i \in DOMAIN told2["rules"] :
            told2["rules"][i] \in AdminRules /\ table["rows"][i] = Admin!RuleOf(told2["rules"][i])
  PROVE  Known([srv EXCEPT !["permissions"] = table], told2)
  <1>. DEFINE new == [srv EXCEPT !["permissions"] = table]
  <1>1. DOMAIN told = {"workspaces", "namespaces", "sources", "views", "published", "rules"}
    BY DEF Known, ServerKnown
  <1>2. /\ new["permissions"] = table /\ DOMAIN new = RouteFields
        /\ \A f \in RouteFields \ {"permissions"} : new[f] = srv[f]
    BY DEF Known, ServerKnown, RouteFields
  <1>. HIDE DEF new
  <1>3. ServerKnown(new, told2)
    BY <1>1, <1>2 DEF Known, ServerKnown, RouteFields
  <1>4. PlacesKnown(new, told2) /\ ViewsKnown(new, told2)
    BY <1>1, <1>2 DEF Known, PlacesKnown, ViewsKnown, RouteFields
  <1>5. StoresKnown(new, told2)
    BY <1>1, <1>2 DEF Known, StoresKnown, RouteFields
  <1>6. RulesKnown(new, told2)
    BY <1>2 DEF RulesKnown
  <1>7. Known(new, told2)
    BY <1>3, <1>4, <1>5, <1>6 DEF Known
  <1>. QED  BY <1>7 DEF new

LEMMA RulesRoutesKnown ==
  ASSUME NEW srv, NEW told, Known(srv, told)
  PROVE  /\ \A body \in AdminRules :
              Truthful(Admin!create_permission(srv, body), "created", told,
                       [told EXCEPT !.rules = Admin!Put(@, srv.permissions.last + 1, body)])
         /\ \A id : Truthful(Admin!delete_permission(srv, id), "ok", told,
                             [told EXCEPT !.rules = Restrict(@, DOMAIN @ \ {id})])
  <1>. DEFINE table == srv["permissions"]
  <1>0. DOMAIN told = {"workspaces", "namespaces", "sources", "views", "published", "rules"}
    BY DEF Known, ServerKnown
  <1>1. ASSUME NEW body \in AdminRules
        PROVE  Truthful(Admin!create_permission(srv, body), "created", told,
                        [told EXCEPT !.rules = Admin!Put(@, srv.permissions.last + 1, body)])
    <2>. DEFINE id == table["last"] + 1
                rule == Admin!RuleOf(body)
                done == Admin!Table!create_permission(table, rule)
                told2 == [told EXCEPT !["rules"] = Admin!Put(told["rules"], id, body)]
    <2>. HIDE DEF id, rule
    <2>1. /\ DOMAIN told2["rules"] = DOMAIN told["rules"] \cup {id}
          /\ \A i \in DOMAIN told2["rules"] : told2["rules"][i] = IF i = id THEN body ELSE told["rules"][i]
          /\ DOMAIN told2 = DOMAIN told /\ \A f \in DOMAIN told \ {"rules"} : told2[f] = told[f]
      BY <1>0 DEF Admin!Put
    <2>2. /\ DOMAIN done.table = {"rows", "last"} /\ DOMAIN done.table["rows"] = DOMAIN table["rows"] \cup {id}
          /\ \A i \in DOMAIN done.table["rows"] : done.table["rows"][i] = IF i = id THEN rule ELSE table["rows"][i]
      BY DEF Admin!Table!create_permission, Admin!Table!Put, Admin!Table!Done, id
    <2>. HIDE DEF done, told2
    <2>3. srv["db"] => Known([srv EXCEPT !["permissions"] = done.table], told2)
      <3>1. DOMAIN done.table["rows"] = DOMAIN told2["rules"]
        BY <2>1, <2>2 DEF Known, RulesKnown
      <3>2. ASSUME NEW i \in DOMAIN told2["rules"]
            PROVE  told2["rules"][i] \in AdminRules /\ done.table["rows"][i] = Admin!RuleOf(told2["rules"][i])
        <4>1. CASE i = id
          BY <4>1, <3>1, <2>1, <2>2 DEF rule
        <4>2. CASE i # id
          BY <4>2, <3>1, <2>1, <2>2 DEF Known, RulesKnown
        <4>. QED  BY <4>1, <4>2
      <3>. QED  BY <3>1, <3>2, <2>1, <2>2, RulesChange
    <2>4. Truthful(Admin!Stored(srv, "permissions", done, "created"), "created", told, told2)
      BY <2>3, StoredTruthful
    <2>. QED  BY <2>4 DEF Admin!create_permission, done, told2, id, rule
  <1>2. ASSUME NEW id
        PROVE  Truthful(Admin!delete_permission(srv, id), "ok", told,
                        [told EXCEPT !.rules = Restrict(@, DOMAIN @ \ {id})])
    <2>. DEFINE done == Admin!Table!delete_permission(table, id)
                told2 == [told EXCEPT !["rules"] = Restrict(told["rules"], DOMAIN told["rules"] \ {id})]
    <2>1. /\ DOMAIN told2["rules"] = DOMAIN told["rules"] \ {id}
          /\ \A i \in DOMAIN told2["rules"] : told2["rules"][i] = told["rules"][i]
          /\ DOMAIN told2 = DOMAIN told /\ \A f \in DOMAIN told \ {"rules"} : told2[f] = told[f]
      BY <1>0 DEF Restrict
    <2>2. /\ DOMAIN done.table = {"rows", "last"} /\ DOMAIN done.table["rows"] = DOMAIN table["rows"] \ {id}
          /\ \A i \in DOMAIN done.table["rows"] : done.table["rows"][i] = table["rows"][i]
      BY DEF Admin!Table!delete_permission, Admin!Table!Restrict, Admin!Table!Done, Known, RulesKnown
    <2>. HIDE DEF done, told2
    <2>3. srv["db"] => Known([srv EXCEPT !["permissions"] = done.table], told2)
      <3>1. DOMAIN done.table["rows"] = DOMAIN told2["rules"]
        BY <2>1, <2>2 DEF Known, RulesKnown
      <3>2. ASSUME NEW i \in DOMAIN told2["rules"]
            PROVE  told2["rules"][i] \in AdminRules /\ done.table["rows"][i] = Admin!RuleOf(told2["rules"][i])
        BY <3>1, <2>1, <2>2 DEF Known, RulesKnown
      <3>. QED  BY <3>1, <3>2, <2>1, <2>2, RulesChange
    <2>4. Truthful(Admin!Stored(srv, "permissions", done, "ok"), "ok", told, told2)
      BY <2>3, StoredTruthful
    <2>. QED  BY <2>4 DEF Admin!delete_permission, done, told2
  <1>. QED  BY <1>1, <1>2

AccountInv == question.about = "routes" => Known(question.srv, question.told)

LEMMA StartKnown ==
  ASSUME NEW db \in BOOLEAN
  PROVE  /\ Known(StartedRoutes(db), NoneTold)
         /\ \A w : Known(Admin!create_workspace(StartedRoutes(db), w).srv,
                         IF db THEN [NoneTold EXCEPT !.workspaces = {w}, !.namespaces = {w}] ELSE NoneTold)
  <1>1. Known(StartedRoutes(db), NoneTold)
    <2>. DEFINE srv == StartedRoutes(db)
                told == NoneTold
    <2>1. /\ srv["workspaces"] = <<>> /\ srv["namespaces"] = <<>> /\ srv["sources"] = <<>> /\ srv["views"] = <<>>
          /\ srv["permissions"] = [rows |-> <<>>, last |-> 0]
          /\ srv["layers"] = LayersThere /\ srv["db"] = db /\ srv["builtin"] = "metadata" /\ DOMAIN srv = RouteFields
      BY DEF StartedRoutes, RouteFields
    <2>2. /\ \A l \in srv["memory"] : l.name \in DOMAIN LayersThere
          /\ \A n \in DOMAIN LayersThere : \E l \in srv["memory"] : l.name = n
      <3>1. srv["memory"] = {Admin!Named(LayersThere[n], n) : n \in DOMAIN LayersThere}
        BY DEF StartedRoutes
      <3>2. ASSUME NEW n \in DOMAIN LayersThere PROVE \E l \in srv["memory"] : l.name = n
        <4>1. Admin!Named(LayersThere[n], n) \in srv["memory"]
          BY <3>1
        <4>. QED  BY <4>1 DEF Admin!Named
      <3>. QED  BY <3>1, <3>2 DEF Admin!Named
    <2>3. /\ told["workspaces"] = {} /\ told["namespaces"] = {} /\ told["sources"] = <<>> /\ told["views"] = {}
          /\ told["published"] = {} /\ told["rules"] = <<>>
          /\ DOMAIN told = {"workspaces", "namespaces", "sources", "views", "published", "rules"}
      BY DEF NoneTold
    <2>. HIDE DEF srv, told
    <2>4. DOMAIN <<>> = {} /\ IsFiniteSet({})
      BY FS_EmptySet
    <2>5. ServerKnown(srv, told) /\ PlacesKnown(srv, told) /\ ViewsKnown(srv, told)
      BY <2>1, <2>2, <2>3, <2>4 DEF ServerKnown, PlacesKnown, ViewsKnown
    <2>6. StoresKnown(srv, told)
      BY <2>1, <2>3, <2>4 DEF StoresKnown
    <2>7. RulesKnown(srv, told)
      <3>1. DOMAIN srv["permissions"] = {"rows", "last"} /\ srv["permissions"]["rows"] = <<>>
        BY <2>1
      <3>. QED  BY <3>1, <2>3, <2>4 DEF RulesKnown
    <2>8. Known(srv, told)
      BY <2>5, <2>6, <2>7 DEF Known
    <2>. QED  BY <2>8 DEF srv, told
  <1>2. ASSUME NEW w
        PROVE  Known(Admin!create_workspace(StartedRoutes(db), w).srv,
                     IF db THEN [NoneTold EXCEPT !.workspaces = {w}, !.namespaces = {w}] ELSE NoneTold)
    <2>. DEFINE srv == StartedRoutes(db)
                told2 == [NoneTold EXCEPT !["workspaces"] = NoneTold["workspaces"] \cup {w},
                                          !["namespaces"] = NoneTold["namespaces"] \cup {w}]
                answer == Admin!create_workspace(srv, w)
    <2>1. told2 = [NoneTold EXCEPT !["workspaces"] = {w}, !["namespaces"] = {w}]
      BY DEF NoneTold
    <2>2. srv["db"] = db /\ w \notin DOMAIN srv["workspaces"]
      BY DEF StartedRoutes
    <2>3. answer.status = IF db THEN "created" ELSE "failed"
      <3>. HIDE DEF srv
      <3>. QED  BY <2>2 DEF Admin!create_workspace, Admin!Stored, Admin!Answer, Admin!Table!create_workspace, Admin!Table!Insert,
                            Admin!Table!Done, Admin!Table!Refused
    <2>4. Truthful(answer, "created", NoneTold, told2)
      BY <1>1, WorkspacesKnown
    <2>. HIDE DEF answer, told2
    <2>5. Known(answer.srv, IF db THEN told2 ELSE NoneTold)
      BY <2>3, <2>4 DEF Truthful, Refusals
    <2>. QED  BY <2>1, <2>5 DEF answer
  <1>. QED  BY <1>1, <1>2

LEMMA AccountStarts == ASSUME AskRoutes PROVE AccountInv'
  <1>1. PICK db \in BOOLEAN, subject \in {"places", "views", "rules"} :
          \/ RoutesGo(subject, 0, StartedRoutes(db), NoneTold)
          \/ \E w \in Workspaces :
              RoutesGo(subject, 0, Admin!create_workspace(StartedRoutes(db), w).srv,
                       IF db THEN [NoneTold EXCEPT !.workspaces = {w}, !.namespaces = {w}] ELSE NoneTold)
    BY DEF AskRoutes
  <1>2. ASSUME NEW srv, NEW told, RoutesGo(subject, 0, srv, told), Known(srv, told)
        PROVE  AccountInv'
    BY <1>2 DEF RoutesGo, AccountInv
  <1>. QED  BY <1>1, <1>2, StartKnown

LEMMA ToldKnown ==
  ASSUME question.about = "routes", NEW answer, NEW status, NEW told2,
         Told(answer, status, told2), Truthful(answer, status, question.told, told2)
  PROVE  AccountInv'
  <1>1. CASE Routed(answer, {status}, told2)
    <2>1. question'.srv = answer.srv /\ question'.told = told2
      BY <1>1 DEF Routed, RoutesGo
    <2>2. Known(answer.srv, told2)
      BY <1>1 DEF Routed, Truthful
    <2>. QED  BY <2>1, <2>2 DEF AccountInv
  <1>2. CASE Routed(answer, Refusals, question.told)
    <2>1. question'.srv = answer.srv /\ question'.told = question.told
      BY <1>2 DEF Routed, RoutesGo
    <2>2. Known(answer.srv, question.told)
      BY <1>2 DEF Routed, Truthful
    <2>. QED  BY <2>1, <2>2 DEF AccountInv
  <1>. QED  BY <1>1, <1>2 DEF Told, Refusals

LEMMA AccountKept ==
  ASSUME AccountInv, CallRoutes
  PROVE  AccountInv'
  <1>. DEFINE srv == question.srv
              told == question.told
  <1>1. question.about = "routes" /\ Known(srv, told)
    BY DEF AccountInv, CallRoutes
  <1>. HIDE DEF srv, told
  <1>2. CASE RouteWorkspaces(srv, told)
    <2>1. PICK w \in Workspaces :
            \/ Told(Admin!create_workspace(srv, w), "created",
                    [told EXCEPT !.workspaces = @ \cup {w}, !.namespaces = @ \cup {w}])
            \/ Told(Admin!update_workspace(srv, w, [title |-> <<"t">>, enabled |-> <<>>]), "ok", told)
            \/ Told(Admin!delete_workspace(srv, w), "ok", [told EXCEPT !.workspaces = @ \ {w}])
      BY <1>2 DEF RouteWorkspaces
    <2>. QED  BY <1>1, <2>1, WorkspacesKnown, ToldKnown DEF told
  <1>3. CASE RouteNamespaces(srv, told)
    <2>1. PICK w \in Workspaces :
            \/ Told(Admin!create_namespace(srv, w, [uri |-> "u", isolated |-> FALSE, workspace |-> <<>>]), "created",
                    [told EXCEPT !.namespaces = @ \cup {w}])
            \/ Told(Admin!update_namespace(srv, w, [uri |-> <<"v">>, isolated |-> <<TRUE>>, workspace |-> <<>>]), "ok", told)
            \/ Told(Admin!delete_namespace(srv, w), "ok", [told EXCEPT !.namespaces = @ \ {w}])
      BY <1>3 DEF RouteNamespaces
    <2>. QED  BY <1>1, <2>1, NamespacesKnown, ToldKnown DEF told
  <1>4. CASE RouteStores(srv, told)
    <2>1. PICK n \in SourceNames :
            \/ \E type \in SourceTypes, ws \in Opt(Hearsay) :
                 LET body == [name |-> n, type |-> type, workspace |-> ws, enabled |-> TRUE,
                              connection |-> [schema_name |-> <<"public">>]]
                 IN  \/ Told(Admin!create_store(srv, body), "created", Believe(told, n, type, ws))
                     \/ \E w \in Workspaces :
                          Told(Admin!create_workspace_store(srv, w, body), "created", Believe(told, n, type, <<w>>))
            \/ \E type \in Opt(SourceTypes), ws \in Opt(Hearsay) :
                 Told(Admin!update_store(srv, n, [type |-> type, workspace |-> ws, enabled |-> <<>>, connection |-> <<>>]), "ok",
                      IF n \notin DOMAIN told.sources THEN told
                      ELSE Believe(told, n, IF type = <<>> THEN told.sources[n].type ELSE type[1],
                                   IF ws = <<>> THEN told.sources[n].workspace ELSE ws))
            \/ Told(Admin!delete_store(srv, n), "ok", [told EXCEPT !.sources = Restrict(@, DOMAIN @ \ {n})])
      BY <1>4 DEF RouteStores
    <2>2. CASE \E type \in SourceTypes, ws \in Opt(Hearsay) :
                 LET body == [name |-> n, type |-> type, workspace |-> ws, enabled |-> TRUE,
                              connection |-> [schema_name |-> <<"public">>]]
                 IN  \/ Told(Admin!create_store(srv, body), "created", Believe(told, n, type, ws))
                     \/ \E w \in Workspaces :
                          Told(Admin!create_workspace_store(srv, w, body), "created", Believe(told, n, type, <<w>>))
      <3>1. PICK type \in SourceTypes, ws \in Opt(Hearsay) :
                 LET body == [name |-> n, type |-> type, workspace |-> ws, enabled |-> TRUE,
                              connection |-> [schema_name |-> <<"public">>]]
                 IN  \/ Told(Admin!create_store(srv, body), "created", Believe(told, n, type, ws))
                     \/ \E w \in Workspaces :
                          Told(Admin!create_workspace_store(srv, w, body), "created", Believe(told, n, type, <<w>>))
        BY <2>2
      <3>. DEFINE body == [name |-> n, type |-> type, workspace |-> ws, enabled |-> TRUE,
                           connection |-> [schema_name |-> <<"public">>]]
      <3>2. /\ Truthful(Admin!create_store(srv, body), "created", told, Believe(told, n, type, ws))
            /\ \A w : Truthful(Admin!create_workspace_store(srv, w, body), "created", told, Believe(told, n, type, <<w>>))
        BY <1>1, StoreRoutesKnown
      <3>3. \/ Told(Admin!create_store(srv, body), "created", Believe(told, n, type, ws))
            \/ \E w \in Workspaces : Told(Admin!create_workspace_store(srv, w, body), "created", Believe(told, n, type, <<w>>))
        BY <3>1
      <3>. HIDE DEF body
      <3>. QED  BY <1>1, <3>2, <3>3, ToldKnown DEF told
    <2>3. CASE \E type \in Opt(SourceTypes), ws \in Opt(Hearsay) :
                 Told(Admin!update_store(srv, n, [type |-> type, workspace |-> ws, enabled |-> <<>>, connection |-> <<>>]), "ok",
                      IF n \notin DOMAIN told.sources THEN told
                      ELSE Believe(told, n, IF type = <<>> THEN told.sources[n].type ELSE type[1],
                                   IF ws = <<>> THEN told.sources[n].workspace ELSE ws))
      <3>1. PICK type \in Opt(SourceTypes), ws \in Opt(Hearsay) :
                 Told(Admin!update_store(srv, n, [type |-> type, workspace |-> ws, enabled |-> <<>>, connection |-> <<>>]), "ok",
                      IF n \notin DOMAIN told.sources THEN told
                      ELSE Believe(told, n, IF type = <<>> THEN told.sources[n].type ELSE type[1],
                                   IF ws = <<>> THEN told.sources[n].workspace ELSE ws))
        BY <2>3
      <3>. QED  BY <1>1, <3>1, StoreRoutesKnown, ToldKnown DEF told
    <2>4. CASE Told(Admin!delete_store(srv, n), "ok", [told EXCEPT !.sources = Restrict(@, DOMAIN @ \ {n})])
      BY <1>1, <2>4, StoreRoutesKnown, ToldKnown DEF told
    <2>. QED  BY <2>1, <2>2, <2>3, <2>4
  <1>5. CASE RouteViews(srv, told)
    <2>1. CASE Routed(Admin!Answer(Admin!Restarted(srv), "ok"), {"ok"}, [told EXCEPT !.published = {}])
      <3>1. Known(Admin!Restarted(srv), [told EXCEPT !.published = {}])
        BY <1>1, ViewsRoutesKnown
      <3>2. question'.srv = Admin!Restarted(srv) /\ question'.told = [told EXCEPT !.published = {}]
        BY <2>1 DEF Routed, RoutesGo, Admin!Answer
      <3>. QED  BY <3>1, <3>2 DEF AccountInv
    <2>2. CASE ~Routed(Admin!Answer(Admin!Restarted(srv), "ok"), {"ok"}, [told EXCEPT !.published = {}])
      <3>1. PICK n \in ViewNames, w \in Hearsay :
              \/ Told(Admin!create_sql_view(srv, n, [sql |-> "q", parameters |-> <<>>, description |-> <<>>, workspace |-> w]), "created",
                      [told EXCEPT !.views = @ \cup {n}, !.published = @ \cup {n}])
              \/ Told(Admin!update_sql_view(srv, n, [sql |-> <<"r">>, parameters |-> <<>>, description |-> <<>>]), "ok", told)
              \/ Told(Admin!delete_sql_view(srv, n), "ok", [told EXCEPT !.views = @ \ {n}, !.published = @ \ {n}])
        BY <1>5, <2>2 DEF RouteViews
      <3>. QED  BY <1>1, <3>1, ViewsRoutesKnown, ToldKnown DEF told
    <2>. QED  BY <2>1, <2>2
  <1>6. CASE RoutePermissions(srv, told)
    <2>1. CASE \E body \in AdminRules :
                 Told(Admin!create_permission(srv, body), "created", [told EXCEPT !.rules = Admin!Put(@, srv.permissions.last + 1, body)])
      BY <1>1, <2>1, RulesRoutesKnown, ToldKnown DEF told
    <2>2. CASE \E id \in DOMAIN told.rules :
                 Told(Admin!delete_permission(srv, id), "ok", [told EXCEPT !.rules = Restrict(@, DOMAIN @ \ {id})])
      BY <1>1, <2>2, RulesRoutesKnown, ToldKnown DEF told
    <2>. QED  BY <1>6, <2>1, <2>2 DEF RoutePermissions
  <1>. QED  BY <1>2, <1>3, <1>4, <1>5, <1>6 DEF CallRoutes, srv, told

\* The stores as the routes read them.
LEMMA SourcesRead ==
  ASSUME NEW srv, NEW told, Known(srv, told)
  PROVE  /\ DOMAIN Admin!Sources(srv) = DOMAIN told["sources"]
         /\ \A n \in DOMAIN told["sources"] :
              /\ Admin!Sources(srv)[n]["type"] = told["sources"][n]["type"]
              /\ Admin!Sources(srv)[n]["workspace"] = told["sources"][n]["workspace"]
              /\ told["sources"][n]["type"] \in SourceTypes
              /\ told["sources"][n] = [type |-> told["sources"][n]["type"], workspace |-> told["sources"][n]["workspace"]]
  <1>1. DOMAIN Admin!Sources(srv) = DOMAIN told["sources"]
    <2>1. CASE srv["db"]
      BY <2>1 DEF Admin!Sources, Admin!Table!read_data_sources, Known, StoresKnown
    <2>2. CASE ~srv["db"]
      <3>1. DOMAIN <<>> = {}
        OBVIOUS
      <3>. QED  BY <3>1, <2>2 DEF Admin!Sources, Known, ServerKnown
    <2>. QED  BY <2>1, <2>2
  <1>2. ASSUME NEW n \in DOMAIN told["sources"]
        PROVE  /\ Admin!Sources(srv)[n]["type"] = told["sources"][n]["type"]
               /\ Admin!Sources(srv)[n]["workspace"] = told["sources"][n]["workspace"]
               /\ told["sources"][n]["type"] \in SourceTypes
               /\ told["sources"][n] = [type |-> told["sources"][n]["type"], workspace |-> told["sources"][n]["workspace"]]
    <2>. DEFINE fresh == srv["sources"][n]
                entry == told["sources"][n]
    <2>1. StoreKnown(fresh, entry) /\ srv["db"]
      BY DEF Known, ServerKnown, StoresKnown
    <2>2. Admin!Sources(srv)[n] = [fresh EXCEPT !["type"] = Admin!Table!parse_ds_type(@),
                                            !["schema_name"] = <<Admin!Table!Or(@, "public")>>]
      BY <2>1 DEF Admin!Sources, Admin!Table!read_data_sources, Known, StoresKnown
    <2>3. entry["type"] \in Admin!Table!Types
      BY <2>1, RoutesAssumption DEF StoreKnown, VectorTypes, RasterTypes, Admin!Table!Types
    <2>. HIDE DEF fresh, entry
    <2>4. Admin!Sources(srv)[n]["type"] = entry["type"] /\ Admin!Sources(srv)[n]["workspace"] = entry["workspace"]
      BY <2>1, <2>2, <2>3 DEF StoreKnown, Admin!Table!parse_ds_type
    <2>. QED  BY <2>1, <2>4 DEF StoreKnown, entry
  <1>. QED  BY <1>1, <1>2

LEMMA StoresListed ==
  ASSUME NEW srv, NEW told, Known(srv, told)
  PROVE  LET stores == told.sources
             In(w) == {n \in DOMAIN stores : stores[n].workspace = <<w>>}
         IN  /\ Admin!list_stores(srv) = DOMAIN stores
             /\ \A n \in SourceNames \ {"metadata"} :
                   Admin!get_data_source(srv, n) = IF n \in DOMAIN stores THEN <<stores[n]>> ELSE <<>>
             /\ Admin!get_data_source(srv, "metadata") = <<[type |-> "metadata", workspace |-> <<>>]>>
             /\ Admin!get_store(srv, "metadata") = <<>>
             /\ \A w : /\ Admin!list_workspace_stores(srv, w) = In(w)
                       /\ {n \in SourceNames : Admin!get_workspace_store(srv, w, n) # <<>>} = In(w)
  <1>. DEFINE stores == told["sources"]
              In(w) == {n \in DOMAIN stores : stores[n]["workspace"] = <<w>>}
  <1>1. Admin!list_stores(srv) = DOMAIN stores
    BY SourcesRead DEF Admin!list_stores
  <1>2. ASSUME NEW n \in SourceNames \ {"metadata"}
        PROVE  Admin!get_data_source(srv, n) = IF n \in DOMAIN stores THEN <<stores[n]>> ELSE <<>>
    <2>1. CASE n \in DOMAIN stores
      <3>1. [c \in {"type", "workspace"} |-> Admin!Sources(srv)[n][c]]
               = [type |-> Admin!Sources(srv)[n]["type"], workspace |-> Admin!Sources(srv)[n]["workspace"]]
        OBVIOUS
      <3>2. [type |-> Admin!Sources(srv)[n]["type"], workspace |-> Admin!Sources(srv)[n]["workspace"]] = stores[n]
        <4>1. /\ Admin!Sources(srv)[n]["type"] = stores[n]["type"] /\ Admin!Sources(srv)[n]["workspace"] = stores[n]["workspace"]
              /\ stores[n] = [type |-> stores[n]["type"], workspace |-> stores[n]["workspace"]]
          BY <2>1, SourcesRead
        <4>. DEFINE entry == stores[n]
                    fresh == Admin!Sources(srv)[n]
        <4>. HIDE DEF entry, fresh
        <4>2. fresh["type"] = entry["type"] /\ fresh["workspace"] = entry["workspace"]
              /\ entry = [type |-> entry["type"], workspace |-> entry["workspace"]]
          BY <4>1 DEF entry, fresh
        <4>3. [type |-> fresh["type"], workspace |-> fresh["workspace"]] = entry
          BY <4>2, Zenon
        <4>. QED  BY <4>3 DEF entry, fresh
      <3>. QED  BY <2>1, <3>1, <3>2, SourcesRead DEF Admin!get_data_source, Admin!is_builtin_metadata, Admin!METADATA_DATA_SOURCE
    <2>2. CASE n \notin DOMAIN stores
      BY <2>2, SourcesRead DEF Admin!get_data_source, Admin!is_builtin_metadata, Admin!METADATA_DATA_SOURCE
    <2>. QED  BY <2>1, <2>2
  <1>3. Admin!get_data_source(srv, "metadata") = <<[type |-> "metadata", workspace |-> <<>>]>>
    BY DEF Admin!get_data_source, Admin!is_builtin_metadata, Admin!METADATA_DATA_SOURCE, Admin!builtin_metadata_data_source,
           Known, ServerKnown
  <1>4. Admin!get_store(srv, "metadata") = <<>>
    BY <1>1 DEF Admin!get_store, Known, StoresKnown
  <1>5. ASSUME NEW w
        PROVE  /\ Admin!list_workspace_stores(srv, w) = In(w)
               /\ {n \in SourceNames : Admin!get_workspace_store(srv, w, n) # <<>>} = In(w)
    <2>1. Admin!list_workspace_stores(srv, w) = In(w)
      <3>1. DOMAIN Admin!Sources(srv) = DOMAIN stores
            /\ \A n \in DOMAIN stores : Admin!Sources(srv)[n]["workspace"] = stores[n]["workspace"]
        BY SourcesRead
      <3>. DEFINE sources == Admin!Sources(srv)
      <3>2. Admin!list_workspace_stores(srv, w) = {n \in DOMAIN sources : sources[n]["workspace"] = <<w>>}
        BY DEF Admin!list_workspace_stores
      <3>. HIDE DEF sources
      <3>3. {n \in DOMAIN sources : sources[n]["workspace"] = <<w>>} = In(w)
        BY <3>1 DEF sources
      <3>. QED  BY <3>2, <3>3
    <2>2. ASSUME NEW n PROVE (Admin!get_workspace_store(srv, w, n) # <<>>) <=> n \in In(w)
      <3>1. Admin!get_store(srv, n) = IF n \in DOMAIN stores THEN <<Admin!StoreOf(Admin!Sources(srv)[n])>> ELSE <<>>
        BY <1>1 DEF Admin!get_store
      <3>2. \A x : <<x>> # <<>>
        OBVIOUS
      <3>. QED  BY <2>1, <3>1, <3>2 DEF Admin!get_workspace_store
    <2>3. In(w) \subseteq SourceNames
      BY DEF Known, StoresKnown
    <2>. QED  BY <2>1, <2>2, <2>3
  <1>. QED  BY <1>1, <1>2, <1>3, <1>4, <1>5

\* The stores of a workspace, by their kind, and its layers.
LEMMA KindsShown ==
  ASSUME NEW srv, NEW told, Known(srv, told), NEW w
  PROVE  LET In == {n \in DOMAIN told.sources : told.sources[n].workspace = <<w>>}
         IN  /\ Admin!list_workspace_datastores(srv, w)
                   = IF w \in told.workspaces THEN {n \in In : told.sources[n].type \in VectorTypes} ELSE {}
             /\ Admin!list_workspace_coveragestores(srv, w)
                   = IF w \in told.workspaces THEN {n \in In : told.sources[n].type \in RasterTypes} ELSE {}
             /\ Admin!list_workspace_layers(srv, w)
                   = IF w \in told.workspaces THEN {l \in Admin!list_layers(srv) : l.workspace = w} ELSE {}
  <1>. DEFINE stores == told["sources"]
              In == {n \in DOMAIN stores : stores[n]["workspace"] = <<w>>}
              kind(n) == Admin!StoreOf(Admin!Sources(srv)[n])["type"]
  <1>1. (Admin!get_workspace(srv, w) = <<>>) <=> w \notin told["workspaces"]
    <2>1. \A x : <<x>> # <<>>
      OBVIOUS
    <2>. QED  BY <2>1 DEF Admin!get_workspace, Admin!Found, Known, ServerKnown, PlacesKnown
  <1>2. ASSUME NEW n \in DOMAIN stores
        PROVE  /\ (kind(n) = "DataStore") <=> stores[n]["type"] \in VectorTypes
               /\ (kind(n) = "CoverageStore") <=> stores[n]["type"] \in RasterTypes
    <2>. DEFINE type == stores[n]["type"]
    <2>1. kind(n) = Admin!ds_type_to_store_type(type) /\ type \in SourceTypes
      BY SourcesRead DEF Admin!StoreOf
    <2>. HIDE DEF type, kind
    <2>2. type \in VectorTypes \cup RasterTypes \cup {"cascaded_wms", "redis"}
      BY <2>1, RoutesAssumption
    <2>3. /\ (Admin!ds_type_to_store_type(type) = "DataStore") <=> type \in VectorTypes
          /\ (Admin!ds_type_to_store_type(type) = "CoverageStore") <=> type \in RasterTypes
      BY <2>2 DEF VectorTypes, RasterTypes, Admin!ds_type_to_store_type
    <2>. QED  BY <2>1, <2>3 DEF type
  <1>3. Admin!list_workspace_stores(srv, w) = In
    BY StoresListed
  <1>4. ASSUME NEW T
        PROVE  Admin!list_workspace_stores_filtered(srv, w, T)
                  = IF w \in told["workspaces"] THEN {n \in In : kind(n) = T} ELSE {}
    BY <1>1, <1>3 DEF Admin!list_workspace_stores_filtered
  <1>. HIDE DEF kind
  <1>5. /\ {n \in In : kind(n) = "DataStore"} = {n \in In : stores[n]["type"] \in VectorTypes}
        /\ {n \in In : kind(n) = "CoverageStore"} = {n \in In : stores[n]["type"] \in RasterTypes}
    BY <1>2
  <1>6. Admin!list_workspace_layers(srv, w)
          = IF w \in told["workspaces"] THEN {l \in Admin!list_layers(srv) : l.workspace = w} ELSE {}
    BY <1>1 DEF Admin!list_workspace_layers
  <1>. HIDE DEF In
  <1>7. /\ Admin!list_workspace_datastores(srv, w)
              = IF w \in told["workspaces"] THEN {n \in In : stores[n]["type"] \in VectorTypes} ELSE {}
        /\ Admin!list_workspace_coveragestores(srv, w)
              = IF w \in told["workspaces"] THEN {n \in In : stores[n]["type"] \in RasterTypes} ELSE {}
    BY <1>4, <1>5 DEF Admin!list_workspace_datastores, Admin!list_workspace_coveragestores
  <1>. QED  BY <1>6, <1>7 DEF In

\* The data sources, of which one has no row.
LEMMA SourcesListed ==
  ASSUME NEW srv, NEW told, Known(srv, told), srv["db"]
  PROVE  /\ ToSet(Admin!list_data_sources(srv)) = DOMAIN told.sources \cup {"metadata"}
         /\ Len(Admin!list_data_sources(srv)) = Cardinality(DOMAIN told.sources) + 1
  <1>. DEFINE S == DOMAIN told["sources"]
              names == Admin!SetToSeq(S)
              m == Cardinality(S)
              listed == Admin!list_data_sources(srv)
  <1>1. IsFiniteSet(S) /\ m \in Nat /\ ExistsBijection(1 .. m, S)
    BY FS_CardinalityType DEF Known, StoresKnown
  <1>2. names \in [1 .. m -> S] /\ \A i, j \in 1 .. m : names[i] = names[j] => i = j
    <2>1. PICK f : f \in Bijection(1 .. m, S)
      BY <1>1 DEF ExistsBijection
    <2>2. f \in [1 .. m -> S] /\ IsInjective(f)
      BY <2>1 DEF Bijection, Injection
    <2>3. f \in [1 .. m -> S] /\ Admin!IsInjective(f)
      BY <2>2 DEF IsInjective, Admin!IsInjective
    <2>4. Admin!Cardinality(S) = Cardinality(S)
      BY DEF Admin!Cardinality, Cardinality
    <2>5. names \in [1 .. m -> S] /\ Admin!IsInjective(names)
      BY <2>3, <2>4 DEF Admin!SetToSeq
    <2>. QED  BY <2>5 DEF Admin!IsInjective
  <1>3. /\ names \in Seq(S) /\ Len(names) = m
        /\ \A n \in S : \E i \in 1 .. Len(names) : names[i] = n
    <2>. HIDE DEF S, names
    <2>. QED  BY <1>1, <1>2, ListedOnce
  <1>4. listed = <<"metadata">> \o names
    BY SourcesRead DEF Admin!list_data_sources, Admin!METADATA_DATA_SOURCE
  <1>. HIDE DEF names, m, listed
  <1>5. /\ Len(listed) = m + 1 /\ DOMAIN listed = 1 .. m + 1
        /\ \A i \in 1 .. m + 1 : listed[i] = IF i = 1 THEN "metadata" ELSE names[i - 1]
    BY <1>1, <1>3, <1>4
  <1>6. ToSet(listed) = S \cup {"metadata"}
    <2>1. ASSUME NEW i \in 1 .. m + 1 PROVE listed[i] \in S \cup {"metadata"}
      BY <1>1, <1>3, <1>5
    <2>2. ASSUME NEW n \in S \cup {"metadata"} PROVE \E i \in 1 .. m + 1 : listed[i] = n
      <3>1. CASE n = "metadata"
        BY <3>1, <1>1, <1>5
      <3>2. CASE n \in S
        <4>1. PICK i \in 1 .. m : names[i] = n
          BY <3>2, <1>3
        <4>2. i + 1 \in 1 .. m + 1 /\ listed[i + 1] = n
          BY <4>1, <1>1, <1>5
        <4>. QED  BY <4>2
      <3>. QED  BY <3>1, <3>2
    <2>3. ToSet(listed) = {listed[i] : i \in 1 .. m + 1}
      BY <1>5 DEF ToSet
    <2>. HIDE DEF S
    <2>. QED  BY <2>1, <2>2, <2>3
  <1>. QED  BY <1>5, <1>6 DEF listed, m

\* Workspaces and namespaces.
LEMMA PlacesShown == ASSUME NEW srv, NEW told, Known(srv, told) PROVE PlacesSeen(srv, told)
  <1>1. \A x : <<x>> # <<>>
    OBVIOUS
  <1>2. Admin!list_workspaces(srv) = told["workspaces"] /\ Admin!list_namespaces(srv) = told["namespaces"]
    BY DEF Admin!list_workspaces, Admin!list_namespaces, Known, ServerKnown, PlacesKnown
  <1>3. ASSUME NEW w
        PROVE  /\ (Admin!get_workspace(srv, w) # <<>>) <=> (w \in told["workspaces"])
               /\ (Admin!get_namespace(srv, w) # <<>>) <=> (w \in told["namespaces"])
    BY <1>1 DEF Admin!get_workspace, Admin!get_namespace, Admin!Found, Known, ServerKnown, PlacesKnown
  <1>. QED  BY <1>2, <1>3 DEF PlacesSeen

\* Layers, and the views on the map.
LEMMA LayersShown == ASSUME NEW srv, NEW told, Known(srv, told) PROVE LayersSeen(srv, told)
  <1>1. \A x : <<x>> # <<>>
    OBVIOUS
  <1>2. Admin!list_sql_views(srv) = told["views"]
    BY DEF Admin!list_sql_views, Known, ServerKnown, ViewsKnown
  <1>3. ASSUME NEW n
        PROVE  /\ (Admin!get_sql_view(srv, n) # <<>>) <=> (n \in told["views"])
               /\ n \in told["published"] => {l \in srv["memory"] : l.name = n} # {}
               /\ n \notin DOMAIN LayersThere /\ n \notin told["views"] => {l \in srv["memory"] : l.name = n} = {}
    BY <1>1 DEF Admin!get_sql_view, Admin!Found, Known, ServerKnown, ViewsKnown
  <1>4. ASSUME NEW n \in DOMAIN LayersThere PROVE Admin!get_layer(srv, n) # <<>>
    <2>1. srv["db"] => n \in DOMAIN srv["layers"]
      BY DEF Known, ServerKnown
    <2>2. ~srv["db"] => {l \in srv["memory"] : l.name = n} # {}
      BY DEF Known, ViewsKnown
    <2>. QED  BY <1>1, <2>1, <2>2 DEF Admin!get_layer
  <1>5. ASSUME NEW w
        PROVE  Admin!list_workspace_layers(srv, w)
                  = IF w \in told["workspaces"] THEN {l \in Admin!list_layers(srv) : l.workspace = w} ELSE {}
    BY KindsShown
  <1>. QED  BY <1>2, <1>3, <1>4, <1>5 DEF LayersSeen

\* The columns of a view are shown where its store is.
LEMMA PreviewShown ==
  ASSUME NEW srv, NEW told, Known(srv, told), NEW n, NEW given \in SUBSET {"p"}
  PROVE  Admin!preview_sql_view(srv, n, [parameters |-> {"p"}, rows |-> 1, columns |-> {"c"}], given).status = "ok"
            <=> n \in DOMAIN told.sources /\ told.sources[n].type = "postgis" /\ "p" \in given
  <1>. DEFINE query == [parameters |-> {"p"}, rows |-> 1, columns |-> {"c"}]
              sources == told["sources"]
  <1>1. n \in Admin!list_stores(srv) <=> n \in DOMAIN sources
    BY StoresListed
  <1>2. n \in DOMAIN sources => Admin!Sources(srv)[n]["type"] = sources[n]["type"]
    <2>1. \A x \in DOMAIN sources : Admin!Sources(srv)[x]["type"] = sources[x]["type"]
      BY SourcesRead
    <2>. QED  BY <2>1
  <1>3. query["parameters"] \subseteq given <=> "p" \in given
    OBVIOUS
  <1>. HIDE DEF query
  <1>. QED  
    <2>1. CASE n \notin DOMAIN sources
      BY <2>1, <1>1 DEF Admin!preview_sql_view, query
    <2>2. CASE n \in DOMAIN sources
      BY <2>2, <1>1, <1>2, <1>3 DEF Admin!preview_sql_view, query
    <2>. QED  BY <2>1, <2>2

\* Stores.
LEMMA StoresShown == ASSUME NEW srv, NEW told, Known(srv, told) PROVE StoresSeen(srv, told)
  <1>. DEFINE stores == told.sources
              In(w) == {n \in DOMAIN stores : stores[n].workspace = <<w>>}
  <1>1. srv.db => /\ ToSet(Admin!list_data_sources(srv)) = DOMAIN stores \cup {"metadata"}
                  /\ Len(Admin!list_data_sources(srv)) = Cardinality(DOMAIN stores) + 1
    BY SourcesListed
  <1>2. /\ Admin!list_stores(srv) = DOMAIN stores
        /\ \A n \in SourceNames \ {"metadata"} :
              Admin!get_data_source(srv, n) = IF n \in DOMAIN stores THEN <<stores[n]>> ELSE <<>>
        /\ Admin!get_data_source(srv, "metadata") = <<[type |-> "metadata", workspace |-> <<>>]>>
        /\ Admin!get_store(srv, "metadata") = <<>>
    BY StoresListed
  <1>3. ASSUME NEW w
        PROVE  /\ Admin!list_workspace_stores(srv, w) = In(w)
               /\ {n \in SourceNames : Admin!get_workspace_store(srv, w, n) # <<>>} = In(w)
    BY StoresListed
  <1>4. ASSUME NEW w
        PROVE  /\ Admin!list_workspace_datastores(srv, w)
                     = IF w \in told.workspaces THEN {n \in In(w) : stores[n].type \in VectorTypes} ELSE {}
               /\ Admin!list_workspace_coveragestores(srv, w)
                     = IF w \in told.workspaces THEN {n \in In(w) : stores[n].type \in RasterTypes} ELSE {}
    BY KindsShown
  <1>5. ASSUME NEW n \in SourceNames, NEW given \in SUBSET {"p"}
        PROVE  Admin!preview_sql_view(srv, n, [parameters |-> {"p"}, rows |-> 1, columns |-> {"c"}], given).status = "ok"
                  <=> n \in DOMAIN stores /\ stores[n].type = "postgis" /\ "p" \in given
    BY PreviewShown
  <1>. QED  BY <1>1, <1>2, <1>3, <1>4, <1>5, Zenon DEF StoresSeen

Decided(srv, told, who) ==
  Admin!check_permission_handler(srv, who, "layer", who.name, who.mode)
    = IF Heard(told.rules, who) = {} THEN {who.role = "admin"}
      ELSE {told.rules[i].effect # <<"deny">> : i \in Foremost(told.rules, who)}

\* A rule is found for whom its body speaks of.
LEMMA RulesFound ==
  ASSUME NEW srv, NEW told, Known(srv, told), srv.db, NEW who
  PROVE  Decided(srv, told, who)
  <1>. DEFINE mode  == Admin!Or(who.mode, "read")
              rules == told["rules"]
              rows  == srv["permissions"]["rows"]
              heard == Heard(rules, who)
              first == Foremost(rules, who)
              Matches(fresh) == /\ fresh.username \in {who.username, "*"} /\ fresh.role \in {who.role, "*"}
                              /\ fresh.type \in {"layer", "*"} /\ fresh.name \in {who.name, "*"}
                              /\ fresh.mode \in {mode, "admin"}
              matching == {i \in DOMAIN rows : Matches(rows[i])}
              best == {i \in matching : \A j \in matching : rows[j].priority <= rows[i].priority}
  <1>1. Admin!check_permission_handler(srv, who, "layer", who.name, who.mode)
          = IF matching = {} THEN {who.role = "admin"} ELSE {rows[i].effect = "allow" : i \in best}
    BY DEF Admin!check_permission_handler, Admin!Table!check_permission
  <1>. HIDE DEF mode
  <1>2. ASSUME NEW i \in DOMAIN rules
        PROVE  /\ i \in DOMAIN rows
               /\ Matches(rows[i]) <=> Speaks(rules[i], who, who.name, mode)
               /\ rows[i].priority = Admin!Or(rules[i].priority, 0)
               /\ (rows[i].effect = "allow") <=> (rules[i].effect # <<"deny">>)
    <2>. DEFINE body == rules[i]
                fresh == rows[i]
    <2>1. fresh = Admin!RuleOf(body) /\ i \in DOMAIN rows /\ body \in AdminRules
      BY DEF Known, RulesKnown
    <2>2. IsGiven(body.username) /\ IsGiven(body.role) /\ IsGiven(body.name)
      BY <2>1, RoutesAssumption
    <2>. HIDE DEF body, fresh
    <2>3. /\ fresh.username = Admin!Or(body.username, "*") /\ fresh.role = Admin!Or(body.role, "*") /\ fresh.type = body.type
          /\ fresh.name = Admin!Or(body.name, "*")
          /\ fresh.mode = IF body.mode \in {<<"write">>, <<"admin">>} THEN body.mode[1] ELSE "read"
          /\ fresh.effect = IF body.effect = <<"deny">> THEN "deny" ELSE "allow"
          /\ fresh.priority = Admin!Or(body.priority, 0)
      BY <2>1 DEF Admin!RuleOf
    <2>4. ASSUME NEW value, IsGiven(value), NEW x
          PROVE  Admin!Or(value, "*") \in {x, "*"} <=> value \in {<<>>, <<"*">>, <<x>>}
      BY <2>4 DEF IsGiven, Admin!Or
    <2>5. fresh.mode \in {mode, "admin"}
            <=> body.mode = <<"admin">> \/ mode = IF body.mode = <<"write">> THEN "write" ELSE "read"
      BY <2>3
    <2>6. Matches(fresh) <=> Speaks(body, who, who.name, mode)
      BY <2>2, <2>3, <2>4, <2>5 DEF Speaks
    <2>. QED  BY <2>1, <2>3, <2>6 DEF fresh, body
  <1>3. DOMAIN rows = DOMAIN rules
    BY DEF Known, RulesKnown
  <1>4. matching = heard
    BY <1>2, <1>3 DEF Heard, mode
  <1>. HIDE DEF rows, rules, matching, heard, Matches
  <1>5. heard \subseteq DOMAIN rules
    BY DEF heard, Heard
  <1>6. best = first
    BY <1>2, <1>4, <1>5 DEF first, heard, Foremost
  <1>. HIDE DEF best, first
  <1>7. first \subseteq heard
    BY DEF first, heard, Foremost
  <1>8. {rows[i].effect = "allow" : i \in first} = {rules[i].effect # <<"deny">> : i \in first}
    BY <1>2, <1>5, <1>7
  <1>9. Admin!check_permission_handler(srv, who, "layer", who.name, who.mode)
          = IF heard = {} THEN {who.role = "admin"} ELSE {rules[i].effect # <<"deny">> : i \in first}
    BY <1>1, <1>4, <1>6, <1>8
  <1>. QED  BY <1>9 DEF first, heard, rules, Decided

LEMMA RulesShown == ASSUME NEW srv, NEW told, Known(srv, told) PROVE RulesSeen(srv, told)
  <1>1. DOMAIN Admin!list_permissions(srv) = DOMAIN told.rules
    BY DEF Admin!list_permissions, Admin!Table!get_permissions, Known, RulesKnown
  <1>2. ASSUME srv.db, NEW who \in Askers PROVE Decided(srv, told, who)
    BY <1>2, RulesFound
  <1>. QED  BY <1>1, <1>2, Zenon DEF RulesSeen, Decided

\* Whatever the routes answer, for any number of calls: all of them show the same.
THEOREM ProvedSpecOneView == ProvedSpec => []OneView
  <1>1. Unasked => AccountInv
    BY DEF Unasked, AccountInv
  <1>2. AccountInv /\ [ProvedNext]_question => AccountInv'
    <2>. SUFFICES ASSUME AccountInv, [ProvedNext]_question PROVE AccountInv'
      OBVIOUS
    <2>1. CASE AskRoutes
      BY <2>1, AccountStarts
    <2>2. CASE CallRoutes
      BY <2>2, AccountKept
    <2>3. CASE question' = question
      BY <2>3 DEF AccountInv
    <2>4. CASE question'.about # "routes"
      BY <2>4 DEF AccountInv
    <2>. QED  BY <2>1, <2>2, <2>3, <2>4, WhatIsCalled
  <1>3. AccountInv => OneView
    BY PlacesShown, StoresShown, LayersShown, RulesShown DEF AccountInv, OneView
  <1>. QED  BY <1>1, <1>2, <1>3, PTL DEF ProvedSpec
=============================================================================
