---------------------------- MODULE Tiles_proofs ----------------------------
(***************************************************************************)
(* Proofs about the tile cache: about TileStore, that the quota is held,   *)
(* that what is evicted is the oldest, and that the metastores say what is *)
(* on disk; and about SeedJobs, for any number of jobs, layers, gridsets   *)
(* and tiles, and any publishing interval.                                 *)
(***************************************************************************)
EXTENDS TileStore, SeedJobs, FiniteSetTheorems, TLAPS

(* TileStore.                                                              *)

Places == {"new", "stat", "read", "fill", "read_meta", "trunc_meta", "fill_meta",
           "collect", "evict", "sync", "clear", "clear_meta", "done"}

Counted == [key : Keys, size : Sizes \cup {0}, mtime : Nat]

\* The bytes of the files that a listing counts.
BytesOf(L) == UNION {{f.key} \X (1..f.size) : f \in L}

\* A listing counts a file once.
Once(L) == \A e, f \in L : e.key = f.key => e = f

\* What a walk through the directory of the layer finds.
Found == {[key |-> k, size |-> files[k].size, mtime |-> files[k].mtime] : k \in Present}

\* The count of an eviction is never below what it still considers, so that it
\* never goes below zero.
CountsSound ==
  \A r \in Requests :
    /\ IsFiniteSet(listing[r]) /\ Once(listing[r])
    /\ Cardinality(BytesOf(listing[r])) <= total[r]

\* What a request knows at each of its places: it has evicted nothing before it
\* collects the files, and is about the gridset of its tile until then.
InPlace ==
  \A r \in Requests :
    /\ pc[r] \in {"new", "fill", "read_meta", "collect"} => evicted[r] = {}
    /\ pc[r] \in {"stat", "read", "fill", "read_meta"} => key[r] \in Keys
    /\ pc[r] \in {"fill", "read_meta"} => size[r] \in Sizes /\ gridset[r] = key[r][1]
    /\ pc[r] \in {"trunc_meta", "fill_meta"} => gridset[r] \in Gridsets \ todo[r]
    /\ pc[r] \in {"new", "fill", "read_meta"} => todo[r] = {}

\* Request r has yet to look whether the layer is over its quota.
WillCollect(r) ==
  \/ pc[r] \in {"read_meta", "collect"}
  \/ pc[r] \in {"trunc_meta", "fill_meta"} /\ evicted[r] = {}

\* The bytes on disk that the check of request r has counted.
Counts(r) == {b \in OnDisk : b[1] \in covers[r]}

\* What has been checked is within the quota, and a running check still considers
\* every byte it has counted and that is left.  Who counted later counted all that
\* was there: of any two counts one is part of the other, and likewise of a count
\* and what has been checked.
ChecksSound ==
  /\ Quota > 0 => Cardinality(Checked) <= Quota
  /\ \A r \in Requests : Counts(r) \subseteq BytesOf(listing[r])
  /\ \A r \in Requests : Checked \subseteq Counts(r) \/ Counts(r) \subseteq Checked
  /\ \A q, r \in Requests : Counts(q) \subseteq Counts(r) \/ Counts(r) \subseteq Counts(q)

\* Whatever is unchecked somebody will look at, or is counting.
Watched ==
  "cut" \notin past =>
    \A k \in unchecked : \E q \in Requests : WillCollect(q) \/ (pc[q] = "evict" /\ k \in covers[q])

\* Calls that do not overlap: one is running at most, and while it evicts its
\* listing is what is on disk.
InTurn ==
  past = {} =>
    /\ \A q, r \in Requests : ~Idle(q) /\ ~Idle(r) => q = r
    /\ \A r \in Requests :
         pc[r] = "evict" => listing[r] = Found /\ total[r] = Cardinality(BytesOf(listing[r]))

\* Metastore entries E of gridset g say what is on disk, but for the tiles since
\* whose writing one of the same coordinates has been evicted elsewhere.
Says(E, g) == E \subseteq Listed(g) /\ \A e \in Listed(g) \ E : <<g, e.tile>> \in twins

But(S, t) == {e \in S : e.tile # t}
\* Of the tiles other than t.
SaysBut(E, g, t) ==
  /\ But(E, t) \subseteq But(Listed(g), t)
  /\ \A e \in But(Listed(g), t) \ But(E, t) : <<g, e.tile>> \in twins

Kept(g, r) == {e \in EntriesOf(g) : e.tile \notin evicted[r]}

SayAll == \A g \in Gridsets : Says(EntriesOf(g), g)

\* While request r has yet to tell its tile.
SayAllBut(r) ==
  \A g \in Gridsets :
    IF g = key[r][1]
    THEN SaysBut(EntriesOf(g), g, key[r][2])
    ELSE Says(EntriesOf(g), g)

\* While request r has yet to tell the gridsets G what it has evicted.
SayKept(r, g, G) == IF g \in G THEN Says(Kept(g, r), g) ELSE Says(EntriesOf(g), g)

\* What the metastores say while request r is running, alone.
Told(r) ==
  /\ pc[r] \in {"stat", "read", "collect", "clear"} => SayAll
  /\ pc[r] \in {"fill", "read_meta"} => files[key[r]] # NoFile /\ SayAllBut(r)
  /\ pc[r] = "fill" => r \in files[key[r]].writers
  /\ pc[r] = "read_meta" => files[key[r]].size = size[r]
  /\ pc[r] \in {"trunc_meta", "fill_meta"} =>
       \A g \in Gridsets :
         IF g = gridset[r] THEN Says(buffer[r], g) ELSE SayKept(r, g, todo[r])
  /\ pc[r] = "fill_meta" => metas[gridset[r]] # NoFile /\ r \in metas[gridset[r]].writers
  /\ pc[r] = "evict" => \A g \in Gridsets : SayKept(r, g, Gridsets)
  /\ pc[r] = "sync" => \A g \in Gridsets : SayKept(r, g, todo[r])
  /\ pc[r] = "clear_meta" => Present = {}

MetasTold ==
  past = {} => /\ Quiet => SayAll
               /\ \A r \in Requests : ~Idle(r) => Told(r)

-----------------------------------------------------------------------------
(* Bytes.                                                                  *)

\* CHOOSE finds the oldest file of a listing.
LEMMA OldestIs ==
  ASSUME NEW r \in Requests, listing[r] \subseteq Counted, listing[r] # {}
  PROVE  Oldest(r) \in listing[r] /\ \A e \in listing[r] : Oldest(r).mtime <= e.mtime
  <1> DEFINE Times == {e.mtime : e \in listing[r]}
             Less == {p \in Nat \X Nat : p[1] < p[2]}
  <1>1. IsWellFoundedOn(Less, Nat)
    <2>1. Less = OpToRel(<, Nat)
      BY DEF OpToRel
    <2>. QED  BY <2>1, NatLessThanWellFounded
  <1>2. Times \subseteq Nat /\ Times # {}
    BY DEF Counted
  <1>3. PICK m \in Times : \A n \in Times : <<n, m>> \notin Less
    <2> HIDE DEF Less, Times
    <2>. QED  BY <1>1, <1>2, WFMin
  <1>4. PICK f \in listing[r] : f.mtime = m
    BY <1>3
  <1>5. \A e \in listing[r] : f.mtime <= e.mtime
    <2> SUFFICES ASSUME NEW e \in listing[r], ~(f.mtime <= e.mtime) PROVE FALSE
      OBVIOUS
    <2>1. f.mtime \in Nat /\ e.mtime \in Nat
      BY <1>2
    <2>2. <<e.mtime, f.mtime>> \in Less
      BY <2>1
    <2>3. e.mtime \in Times
      OBVIOUS
    <2> HIDE DEF Less, Times
    <2>. QED  BY <1>3, <1>4, <2>2, <2>3
  <1>. QED  BY <1>4, <1>5 DEF Oldest

LEMMA BytesOfFile ==
  ASSUME NEW k, NEW n \in Nat
  PROVE  /\ IsFiniteSet({k} \X (1..n)) /\ Cardinality({k} \X (1..n)) = n
  <1>1. IsFiniteSet({k}) /\ Cardinality({k}) = 1
    BY FS_Singleton
  <1>2. IsFiniteSet(1..n) /\ Cardinality(1..n) = n
    BY FS_Interval
  <1>3. IsFiniteSet({k} \X (1..n)) /\ Cardinality({k} \X (1..n)) = Cardinality({k}) * Cardinality(1..n)
    BY <1>1, <1>2, FS_Product
  <1>4. 1 * n = n
    OBVIOUS
  <1>. QED  BY <1>1, <1>2, <1>3, <1>4

LEMMA BytesFinite ==
  ASSUME NEW L \in SUBSET Counted, IsFiniteSet(L)
  PROVE  IsFiniteSet(BytesOf(L))
  <1> DEFINE T == {{f.key} \X (1..f.size) : f \in L}
             b == [f \in L |-> {f.key} \X (1..f.size)]
  <1>1. b \in Surjection(L, T)
    BY DEF Surjection
  <1>2. IsFiniteSet(T)
    BY <1>1, FS_Surjection
  <1>3. \A t \in T : IsFiniteSet(t)
    <2> SUFFICES ASSUME NEW f \in L PROVE IsFiniteSet({f.key} \X (1..f.size))
      OBVIOUS
    <2>1. f.size \in Nat
      BY TileStoreAssumption DEF Counted
    <2>. QED  BY <2>1, BytesOfFile
  <1> HIDE DEF T
  <1>4. IsFiniteSet(UNION T)
    BY <1>2, <1>3, FS_UNION
  <1>. QED  BY <1>4 DEF T, BytesOf

\* Without one of its files a listing has as many bytes less as that has.
LEMMA BytesWithout ==
  ASSUME NEW L \in SUBSET Counted, IsFiniteSet(L), Once(L), NEW f \in L
  PROVE  /\ IsFiniteSet(L \ {f}) /\ Once(L \ {f})
         /\ \A x \in BytesOf(L) : x[1] # f.key => x \in BytesOf(L \ {f})
         /\ Cardinality(BytesOf(L)) \in Nat /\ f.size \in Nat
         /\ Cardinality(BytesOf(L \ {f})) \in Nat
         /\ Cardinality(BytesOf(L)) = Cardinality(BytesOf(L \ {f})) + f.size
  <1> DEFINE M == L \ {f}
             B == {f.key} \X (1..f.size)
  <1>1. IsFiniteSet(M) /\ Once(M)
    BY FS_RemoveElement DEF Once
  <1>2. IsFiniteSet(BytesOf(M)) /\ IsFiniteSet(BytesOf(L))
    BY <1>1, BytesFinite
  <1>3. f.size \in Nat /\ IsFiniteSet(B) /\ Cardinality(B) = f.size
    <2>1. f.size \in Nat
      BY TileStoreAssumption DEF Counted
    <2>. QED  BY <2>1, BytesOfFile
  <1>4. BytesOf(L) = BytesOf(M) \cup B
    BY DEF BytesOf
  <1>5. BytesOf(M) \cap B = {}
    <2> SUFFICES ASSUME NEW x \in BytesOf(M), x \in B PROVE FALSE
      OBVIOUS
    <2>1. PICK e \in M : x \in {e.key} \X (1..e.size)
      BY DEF BytesOf
    <2>2. e.key = f.key
      BY <2>1
    <2>. QED  BY <2>2 DEF Once
  <1> HIDE DEF M, B
  <1>6. Cardinality(BytesOf(L)) = Cardinality(BytesOf(M)) + f.size
    <2>1. Cardinality(BytesOf(M) \cup B) = Cardinality(BytesOf(M)) + Cardinality(B) - Cardinality({})
      BY <1>2, <1>3, <1>5, FS_Union
    <2>2. Cardinality(BytesOf(M)) \in Nat /\ Cardinality({}) = 0
      BY <1>2, FS_CardinalityType, FS_EmptySet
    <2>. QED  BY <1>3, <1>4, <2>1, <2>2
  <1>7. \A x \in BytesOf(L) : x[1] # f.key => x \in BytesOf(M)
    BY <1>4 DEF B
  <1>8. Cardinality(BytesOf(L)) \in Nat /\ Cardinality(BytesOf(M)) \in Nat
    BY <1>2, FS_CardinalityType
  <1>. QED  BY <1>1, <1>3, <1>6, <1>7, <1>8 DEF M

\* What a walk finds.
LEMMA FoundIs ==
  ASSUME TypeOK
  PROVE  /\ Found \subseteq Counted /\ IsFiniteSet(Found) /\ Once(Found)
         /\ BytesOf(Found) = OnDisk /\ IsFiniteSet(OnDisk) /\ Bytes \in Nat
         /\ Cardinality(BytesOf(Found)) = Bytes
  <1>1. Found \subseteq Counted
    BY DEF TypeOK, Found, Counted, Present, File
  <1>2. IsFiniteSet(Present)
    <2>1. IsFiniteSet(Keys)
      BY TileStoreAssumption, FS_Product DEF Keys
    <2>2. Present \in SUBSET Keys
      BY DEF Present
    <2>. QED  BY <2>1, <2>2, FS_Subset
  <1>3. IsFiniteSet(Found)
    <2> DEFINE c == [k \in Present |-> [key |-> k, size |-> files[k].size, mtime |-> files[k].mtime]]
    <2>1. c \in Surjection(Present, Found)
      BY DEF Surjection, Found
    <2>. QED  BY <1>2, <2>1, FS_Surjection
  <1>4. Once(Found)
    BY DEF Once, Found
  <1>5. BytesOf(Found) = OnDisk
    <2>1. ASSUME NEW x \in BytesOf(Found) PROVE x \in OnDisk
      <3>1. PICK f \in Found : x \in {f.key} \X (1..f.size)
        BY DEF BytesOf
      <3>2. f.key \in Present /\ f.size = files[f.key].size
        BY DEF Found
      <3>. QED  BY <3>1, <3>2 DEF OnDisk
    <2>2. ASSUME NEW x \in OnDisk PROVE x \in BytesOf(Found)
      <3>1. PICK k \in Present : x \in {k} \X (1..files[k].size)
        BY DEF OnDisk
      <3> DEFINE f == [key |-> k, size |-> files[k].size, mtime |-> files[k].mtime]
      <3>2. f \in Found /\ x \in {f.key} \X (1..f.size)
        BY <3>1 DEF Found
      <3> HIDE DEF f
      <3>. QED  BY <3>2 DEF BytesOf
    <2>. QED  BY <2>1, <2>2
  <1>6. IsFiniteSet(OnDisk)
    BY <1>1, <1>3, <1>5, BytesFinite
  <1>7. Bytes \in Nat
    BY <1>6, FS_CardinalityType DEF Bytes
  <1>. QED  BY <1>1, <1>3, <1>4, <1>5, <1>6, <1>7 DEF Bytes

\* What is on disk, byte by byte.
LEMMA OnDiskIs ==
  \A x : x \in OnDisk <=> \E k \in Keys : files[k] # NoFile /\ x \in {k} \X (1..files[k].size)
  BY DEF OnDisk, Present

\* A step that takes bytes away, and only those, keeps the layer under any
\* bound.
LEMMA LessOnDisk ==
  ASSUME TypeOK,
         \A k \in Keys : files'[k] # NoFile =>
           files'[k].size = 0 \/ (files[k] # NoFile /\ files'[k].size = files[k].size)
  PROVE  OnDisk' \subseteq OnDisk /\ Bytes' <= Bytes /\ Bytes' \in Nat
  <1>1. OnDisk' \subseteq OnDisk
    <2> SUFFICES ASSUME NEW x \in OnDisk' PROVE x \in OnDisk
      OBVIOUS
    <2>1. PICK k \in Keys : files'[k] # NoFile /\ x \in {k} \X (1..files'[k].size)
      BY DEF OnDisk, Present
    <2>2. files'[k].size # 0
      BY <2>1
    <2>. QED  BY <2>1, <2>2, OnDiskIs
  <1>2. IsFiniteSet(OnDisk)
    BY FoundIs
  <1>3. IsFiniteSet(OnDisk') /\ Cardinality(OnDisk') <= Cardinality(OnDisk)
    BY <1>1, <1>2, FS_Subset
  <1>4. Cardinality(OnDisk') \in Nat
    BY <1>3, FS_CardinalityType
  <1>. QED  BY <1>1, <1>3, <1>4 DEF Bytes

-----------------------------------------------------------------------------
(* Types, counts and places.                                               *)

HistoryOK ==
  /\ failed \in Nat /\ past \subseteq {"overlap", "failure", "expiry", "cut"}
  /\ unchecked \subseteq Keys /\ twins \subseteq Keys
  /\ covers \in [Requests -> SUBSET Keys]

Basic == TypeOK /\ CountsSound /\ InPlace

LEMMA BasicInit ==
  Init => Basic
  <1> SUFFICES ASSUME Init PROVE Basic
    OBVIOUS
  <1>1. TypeOK
    <2>1. files \in [Keys -> File \cup {NoFile}]
      BY DEF Init, File
    <2>2. \A g \in Gridsets : Listed(g) \subseteq Entries
      BY DEF Init, Listed, Present, Entries, Keys
    <2>3. metas \in [Gridsets -> Meta \cup {NoFile}]
      BY <2>2 DEF Init, Meta
    <2>. QED  BY <2>1, <2>3 DEF Init, TypeOK
  <1>2. CountsSound
    <2>1. BytesOf({}) = {}
      BY DEF BytesOf
    <2>2. IsFiniteSet({}) /\ Cardinality({}) = 0 /\ Once({})
      BY FS_EmptySet DEF Once
    <2>3. \A r \in Requests : listing[r] = {} /\ total[r] = 0
      BY DEF Init
    <2>4. \A r \in Requests : Cardinality(BytesOf(listing[r])) = 0 /\ 0 <= total[r]
      BY <2>1, <2>2, <2>3
    <2>. QED  BY <2>2, <2>3, <2>4 DEF CountsSound
  <1>3. InPlace
    BY DEF Init, InPlace
  <1>. QED  BY <1>1, <1>2, <1>3 DEF Basic

LEMMA LookupBasic ==
  ASSUME Basic, HistoryOK', NEW r \in Requests, Lookup(r)
  PROVE  Basic'
  <1> USE DEF Basic, HistoryOK, Lookup, Arrives, Goto, NotesOverlap, Notes, quotaVars, metaVars
  <1>1. TypeOK'
    <2>0. TypeOK /\ UNCHANGED <<clock, dir, files, metas, removals, size, listing, total, evicted, todo, gridset, buffer, answer>>
      OBVIOUS
    <2>1. pc' \in [Requests -> Places]
      BY <2>0 DEF TypeOK, Places
    <2>2. key' \in [Requests -> Keys \cup {NoFile}]
      BY <2>0 DEF TypeOK
    <2>. QED  BY <2>0, <2>1, <2>2 DEF TypeOK, Places
  <1>2. CountsSound'
    BY DEF CountsSound
  <1>3. InPlace'
    BY DEF InPlace, TypeOK
  <1>. QED  BY <1>1, <1>2, <1>3

LEMMA ReadingBasic ==
  ASSUME Basic, HistoryOK', NEW r \in Requests, Stat(r) \/ Read(r)
  PROVE  Basic'
  <1> USE DEF Basic, HistoryOK, Stat, Read, Goto, quotaVars, metaVars, call
  <1>1. TypeOK'
    <2>0. TypeOK /\ UNCHANGED <<clock, dir, files, metas, key, size, listing, total, evicted, todo, gridset, buffer>>
      OBVIOUS
    <2>1. pc' \in [Requests -> Places]
      BY <2>0 DEF TypeOK, Places
    <2>2. removals' \subseteq Keys
      BY <2>0 DEF TypeOK, InPlace
    <2>3. answer' \in [Requests -> Sizes \cup {0, NoFile}]
      BY <2>0 DEF TypeOK, InPlace, File
    <2>. QED  BY <2>0, <2>1, <2>2, <2>3 DEF TypeOK, Places
  <1>2. CountsSound'
    BY DEF CountsSound
  <1>3. InPlace'
    BY DEF InPlace, TypeOK
  <1>. QED  BY <1>1, <1>2, <1>3

LEMMA TruncateBasic ==
  ASSUME Basic, HistoryOK', NEW r \in Requests, Truncate(r)
  PROVE  Basic'
  <1> USE DEF Basic, HistoryOK, Truncate, Arrives, Goto, NotesOverlap, Notes, quotaVars
  <1>1. TypeOK'
    <2>0. TypeOK /\ UNCHANGED <<metas, removals, listing, total, evicted, todo, buffer, answer>>
      OBVIOUS
    <2>1. pc' \in [Requests -> Places]
      BY <2>0 DEF TypeOK, Places
    <2>2. key' \in [Requests -> Keys \cup {NoFile}]
      BY <2>0 DEF TypeOK
    <2>4. clock' \in Nat /\ dir' \in BOOLEAN
      BY <2>0 DEF TypeOK
    <2>5. size' \in [Requests -> Sizes \cup {0}]
      BY <2>0 DEF TypeOK
    <2>6. gridset' \in [Requests -> Gridsets \cup {NoFile}]
      BY <2>0 DEF TypeOK, Keys
    <2>7. files' \in [Keys -> File \cup {NoFile}]
      BY <2>0 DEF TypeOK, File
    <2>. QED  BY <2>0, <2>1, <2>2, <2>4, <2>5, <2>6, <2>7 DEF TypeOK, Places
  <1>2. CountsSound'
    BY DEF CountsSound
  <1>3. InPlace'
    BY DEF InPlace, TypeOK, Keys
  <1>. QED  BY <1>1, <1>2, <1>3

LEMMA FillBasic ==
  ASSUME Basic, HistoryOK', NEW r \in Requests, Fill(r)
  PROVE  Basic'
  <1> USE DEF Basic, HistoryOK, Fill, Goto, quotaVars, metaVars, call
  <1>1. TypeOK'
    <2>0. TypeOK /\ UNCHANGED <<dir, metas, removals, key, size, listing, total, evicted, todo, gridset, buffer, answer>>
      OBVIOUS
    <2>1. pc' \in [Requests -> Places]
      BY <2>0 DEF TypeOK, Places
    <2>2. clock' \in Nat
      BY <2>0 DEF TypeOK
    <2>3. files' \in [Keys -> File \cup {NoFile}]
      <3> DEFINE f == files[key[r]]
                 n == [size |-> size[r], mtime |-> clock', writers |-> f.writers \ {r}]
      <3>1. pc[r] = "fill" /\ clock' \in Nat
        BY <2>2
      <3>2. key[r] \in Keys /\ size[r] \in Sizes
        BY <3>1 DEF InPlace
      <3>3. f # NoFile => f \in File
        BY <2>0, <3>2 DEF TypeOK
      <3>4. f # NoFile => n \in File
        BY <3>1, <3>2, <3>3 DEF File
      <3>5. UNCHANGED files \/ (f # NoFile /\ files' = [files EXCEPT ![key[r]] = n])
        <4> HIDE DEF Basic
        <4>. QED  OBVIOUS
      <3> HIDE DEF n
      <3>. QED  BY <2>0, <3>4, <3>5 DEF TypeOK
    <2>. QED  BY <2>0, <2>1, <2>2, <2>3 DEF TypeOK, Places
  <1>2. CountsSound'
    BY DEF CountsSound
  <1>3. InPlace'
    BY DEF InPlace, TypeOK
  <1>. QED  BY <1>1, <1>2, <1>3

LEMMA ReadMetaBasic ==
  ASSUME Basic, HistoryOK', NEW r \in Requests, ReadMeta(r)
  PROVE  Basic'
  <1> USE DEF Basic, HistoryOK, ReadMeta, Goto, quotaVars, call
  <1>1. TypeOK'
    <2>1. EntriesOf(key[r][1]) \subseteq Entries
      BY DEF TypeOK, InPlace, EntriesOf, Meta, Keys
    <2>2. [tile |-> key[r][2], size |-> size[r]] \in Entries
      BY DEF InPlace, Entries, Keys
    <2>. QED  BY <2>1, <2>2 DEF TypeOK
  <1>2. CountsSound'
    BY DEF CountsSound
  <1>3. InPlace'
    BY DEF InPlace, TypeOK, Keys
  <1>. QED  BY <1>1, <1>2, <1>3

LEMMA TruncMetaBasic ==
  ASSUME Basic, HistoryOK', NEW r \in Requests, TruncMeta(r)
  PROVE  Basic'
  <1> USE DEF Basic, HistoryOK, TruncMeta, Goto, quotaVars, metaVars, call
  <1>1. TypeOK'
    <2>0. TypeOK /\ UNCHANGED <<clock, dir, files, removals, key, size, listing, total, evicted, todo, gridset, buffer, answer>>
      OBVIOUS
    <2>1. pc' \in [Requests -> Places]
      BY <2>0 DEF TypeOK, Places
    <2>2. metas' \in [Gridsets -> Meta \cup {NoFile}]
      BY <2>0 DEF TypeOK, InPlace, Meta
    <2>. QED  BY <2>0, <2>1, <2>2 DEF TypeOK, Places
  <1>2. CountsSound'
    BY DEF CountsSound
  <1>3. InPlace'
    BY DEF InPlace, TypeOK
  <1>. QED  BY <1>1, <1>2, <1>3

LEMMA FillMetaBasic ==
  ASSUME Basic, HistoryOK', NEW r \in Requests, FillMeta(r)
  PROVE  Basic'
  <1> USE DEF Basic, HistoryOK, FillMeta, Goto, quotaVars, metaVars, call
  <1>1. TypeOK'
    <2>0. TypeOK /\ UNCHANGED <<clock, dir, files, removals, key, size, listing, total, evicted, todo, gridset, buffer, answer>>
      OBVIOUS
    <2>1. pc' \in [Requests -> Places]
      BY <2>0 DEF TypeOK, Places
    <2>2. metas' \in [Gridsets -> Meta \cup {NoFile}]
      <3> DEFINE m == metas[gridset[r]]
                 n == [entries |-> buffer[r], parses |-> TRUE, writers |-> m.writers \ {r}]
      <3>1. pc[r] = "fill_meta"
        OBVIOUS
      <3>2. gridset[r] \in Gridsets
        BY <3>1 DEF InPlace
      <3>3. m # NoFile => m \in Meta
        BY <2>0, <3>2 DEF TypeOK
      <3>4. m # NoFile => n \in Meta
        BY <2>0, <3>3 DEF TypeOK, Meta
      <3>5. UNCHANGED metas \/ (m # NoFile /\ metas' = [metas EXCEPT ![gridset[r]] = n])
        <4> HIDE DEF Basic
        <4>. QED  OBVIOUS
      <3> HIDE DEF n
      <3>. QED  BY <2>0, <3>4, <3>5 DEF TypeOK
    <2>. QED  BY <2>0, <2>1, <2>2 DEF TypeOK, Places
  <1>2. CountsSound'
    BY DEF CountsSound
  <1>3. InPlace'
    BY DEF InPlace, TypeOK
  <1>. QED  BY <1>1, <1>2, <1>3

LEMMA CollectBasic ==
  ASSUME Basic, HistoryOK', NEW r \in Requests, Collect(r)
  PROVE  Basic'
  <1> USE DEF Basic, HistoryOK, Collect, Goto, metaVars, call
  <1>a. /\ Found \subseteq Counted /\ IsFiniteSet(Found) /\ Once(Found) /\ Bytes \in Nat
        /\ Cardinality(BytesOf(Found)) <= Bytes
    BY FoundIs
  <1>b. \/ UNCHANGED <<listing, total>>
        \/ listing' = [listing EXCEPT ![r] = Found] /\ total' = [total EXCEPT ![r] = Bytes]
    BY DEF Found
  <1>1. TypeOK'
    <2>0. TypeOK /\ UNCHANGED <<clock, dir, files, metas, removals, key, size, evicted, todo, gridset, buffer, answer>>
      OBVIOUS
    <2>1. pc' \in [Requests -> Places]
      BY <2>0 DEF TypeOK, Places
    <2>2. listing' \in [Requests -> SUBSET Counted] /\ total' \in [Requests -> Nat]
      BY <1>a, <1>b, <2>0 DEF TypeOK, Counted
    <2>. QED  BY <2>0, <2>1, <2>2 DEF TypeOK, Places, Counted
  <1>2. CountsSound'
    <2>1. \A q \in Requests :
            \/ listing'[q] = listing[q] /\ total'[q] = total[q]
            \/ listing'[q] = Found /\ total'[q] = Bytes
      <3> HIDE DEF Collect, Goto
      <3>. QED  BY <1>b DEF TypeOK
    <2>2. CountsSound
      OBVIOUS
    <2> HIDE DEF Basic, Collect, Goto
    <2>. QED  BY <1>a, <2>1, <2>2 DEF CountsSound
  <1>3. InPlace'
    BY DEF InPlace, TypeOK
  <1>. QED  BY <1>1, <1>2, <1>3

LEMMA EvictBasic ==
  ASSUME Basic, HistoryOK', NEW r \in Requests, Evict(r)
  PROVE  Basic'
  <1> DEFINE f == Oldest(r)
  <1> USE DEF Basic, HistoryOK, Evict, Remove, Goto, metaVars, call
  <1>a. /\ listing[r] \in SUBSET Counted /\ IsFiniteSet(listing[r]) /\ Once(listing[r])
        /\ Cardinality(BytesOf(listing[r])) <= total[r] /\ total[r] \in Nat
    BY DEF TypeOK, CountsSound, Counted
  <1>b. f \in listing[r]
    BY <1>a, OldestIs
  <1> HIDE DEF f
  <1>c. /\ IsFiniteSet(listing[r] \ {f}) /\ Once(listing[r] \ {f})
        /\ f.size \in Nat /\ Cardinality(BytesOf(listing[r] \ {f})) \in Nat
        /\ Cardinality(BytesOf(listing[r])) = Cardinality(BytesOf(listing[r] \ {f})) + f.size
    BY <1>a, <1>b, BytesWithout
  <1>d. f.key \in Keys
    BY <1>a, <1>b DEF Counted
  <1>e. /\ listing' = [listing EXCEPT ![r] = @ \ {f}]
        /\ \/ UNCHANGED <<files, total, evicted>>
           \/ /\ files' = [files EXCEPT ![f.key] = NoFile]
              /\ total' = [total EXCEPT ![r] = total[r] - f.size]
              /\ evicted' = [evicted EXCEPT ![r] = @ \cup {f.key[2]}]
    BY DEF f
  <1>f. /\ total[r] - f.size \in Nat
        /\ Cardinality(BytesOf(listing[r] \ {f})) <= total[r] - f.size
        /\ Cardinality(BytesOf(listing[r] \ {f})) <= total[r]
    BY <1>a, <1>c
  <1>1. TypeOK'
    <2>1. total' \in [Requests -> Nat]
      BY <1>e, <1>f DEF TypeOK
    <2>2. files' \in [Keys -> File \cup {NoFile}]
      BY <1>d, <1>e DEF TypeOK
    <2>3. evicted' \in [Requests -> SUBSET Tiles]
      BY <1>d, <1>e DEF TypeOK, Keys
    <2>4. \A q \in Requests : listing'[q] \subseteq [key : Keys, size : Sizes \cup {0}, mtime : Nat]
      BY <1>e DEF TypeOK
    <2>. QED  BY <2>1, <2>2, <2>3, <2>4 DEF TypeOK
  <1>2. CountsSound'
    <2>1. /\ IsFiniteSet(listing'[r]) /\ Once(listing'[r])
          /\ Cardinality(BytesOf(listing'[r])) <= total'[r]
      <3>1. listing'[r] = listing[r] \ {f}
        BY <1>e DEF TypeOK
      <3>2. total'[r] = total[r] \/ total'[r] = total[r] - f.size
        BY <1>e DEF TypeOK
      <3> HIDE DEF Basic, Evict
      <3>. QED  BY <1>c, <1>f, <3>1, <3>2
    <2>2. \A q \in Requests : q # r => listing'[q] = listing[q] /\ total'[q] = total[q]
      BY <1>e DEF TypeOK
    <2>3. CountsSound
      OBVIOUS
    <2> HIDE DEF Basic, Evict, Goto
    <2>. QED  BY <2>1, <2>2, <2>3 DEF CountsSound
  <1>3. InPlace'
    BY DEF InPlace, TypeOK
  <1>. QED  BY <1>1, <1>2, <1>3

LEMMA EvictEndsBasic ==
  ASSUME Basic, HistoryOK', NEW r \in Requests, EvictEnds(r)
  PROVE  Basic'
  <1> USE DEF Basic, HistoryOK, EvictEnds, Goto, metaVars, call
  <1>1. TypeOK'
    <2>0. TypeOK /\ UNCHANGED <<clock, dir, files, metas, removals, key, size, total, evicted, gridset, buffer, answer>>
      OBVIOUS
    <2>1. pc' \in [Requests -> Places]
      BY <2>0 DEF TypeOK, Places
    <2>2. listing' \in [Requests -> SUBSET Counted]
      BY <2>0 DEF TypeOK, Counted
    <2>3. todo' \in [Requests -> SUBSET Gridsets]
      BY <2>0 DEF TypeOK
    <2>. QED  BY <2>0, <2>1, <2>2, <2>3 DEF TypeOK, Places, Counted
  <1>2. CountsSound'
    <2>1. total' = total /\ total \in [Requests -> Nat] /\ CountsSound
      BY DEF TypeOK
    <2>2. \A q \in Requests : listing'[q] = listing[q] \/ listing'[q] = {}
      BY DEF TypeOK
    <2>3. IsFiniteSet({}) /\ Once({}) /\ Cardinality(BytesOf({})) = 0
      BY FS_EmptySet DEF Once, BytesOf
    <2> HIDE DEF Basic, HistoryOK, EvictEnds, Goto
    <2>. QED  BY <2>1, <2>2, <2>3 DEF CountsSound
  <1>3. InPlace'
    BY DEF InPlace, TypeOK
  <1>. QED  BY <1>1, <1>2, <1>3

LEMMA SyncReadBasic ==
  ASSUME Basic, HistoryOK', NEW r \in Requests, SyncRead(r)
  PROVE  Basic'
  <1> USE DEF Basic, HistoryOK, Goto, metaVars, call
  <1>1. /\ pc[r] = "sync"
        /\ UNCHANGED <<clock, dir, files, metas, removals, key, size, listing, total, evicted, answer>>
        /\ \/ todo[r] = {} /\ Goto(r, "done") /\ UNCHANGED <<todo, gridset, buffer>>
           \/ \E g \in todo[r] :
                /\ todo' = [todo EXCEPT ![r] = @ \ {g}]
                /\ \/ UNCHANGED <<pc, gridset, buffer>>
                   \/ /\ metas[g] # NoFile /\ Goto(r, "trunc_meta")
                      /\ gridset' = [gridset EXCEPT ![r] = g]
                      /\ buffer' = [buffer EXCEPT ![r] =
                                      {e \in metas[g].entries : e.tile \notin evicted[r]}]
    BY DEF SyncRead
  <1>2. TypeOK'
    <2>1. CASE todo[r] = {} /\ Goto(r, "done") /\ UNCHANGED <<todo, gridset, buffer>>
      BY <1>1, <2>1 DEF TypeOK
    <2>2. ASSUME NEW g \in todo[r], todo' = [todo EXCEPT ![r] = @ \ {g}],
                 UNCHANGED <<pc, gridset, buffer>>
          PROVE  TypeOK'
      BY <1>1, <2>2 DEF TypeOK
    <2>3. ASSUME NEW g \in todo[r], todo' = [todo EXCEPT ![r] = @ \ {g}],
                 metas[g] # NoFile, Goto(r, "trunc_meta"), gridset' = [gridset EXCEPT ![r] = g],
                 buffer' = [buffer EXCEPT ![r] = {e \in metas[g].entries : e.tile \notin evicted[r]}]
          PROVE  TypeOK'
      <3>0. TypeOK /\ g \in Gridsets
        BY DEF TypeOK
      <3>1. pc' \in [Requests -> Places]
        BY <2>3, <3>0 DEF TypeOK, Places
      <3>2. todo' \in [Requests -> SUBSET Gridsets] /\ gridset' \in [Requests -> Gridsets \cup {NoFile}]
        BY <2>3, <3>0 DEF TypeOK
      <3>3. metas[g].entries \subseteq Entries
        BY <2>3, <3>0 DEF TypeOK, Meta
      <3>4. buffer' \in [Requests -> SUBSET Entries]
        BY <2>3, <3>0, <3>3 DEF TypeOK
      <3>. QED  BY <1>1, <3>0, <3>1, <3>2, <3>4 DEF TypeOK, Places
    <2>. QED  BY <1>1, <2>1, <2>2, <2>3
  <1>3. CountsSound'
    BY <1>1 DEF CountsSound
  <1>4. InPlace'
    BY <1>1 DEF InPlace, TypeOK
  <1>. QED  BY <1>2, <1>3, <1>4

LEMMA StartClearBasic ==
  ASSUME Basic, HistoryOK', NEW r \in Requests, StartClear(r)
  PROVE  Basic'
  <1> USE DEF Basic, HistoryOK, StartClear, Arrives, Goto, NotesOverlap, Notes, quotaVars, metaVars, call
  <1>1. TypeOK'
    <2>0. TypeOK /\ UNCHANGED <<clock, dir, files, metas, removals, key, size, listing, total, evicted, todo, gridset, buffer, answer>>
      OBVIOUS
    <2>1. pc' \in [Requests -> Places]
      BY <2>0 DEF TypeOK, Places
    <2>. QED  BY <2>0, <2>1 DEF TypeOK, Places
  <1>2. CountsSound'
    BY DEF CountsSound
  <1>3. InPlace'
    BY DEF InPlace, TypeOK
  <1>. QED  BY <1>1, <1>2, <1>3

LEMMA RemoveDirBasic ==
  ASSUME Basic, HistoryOK', NEW r \in Requests, RemoveDir(r)
  PROVE  Basic'
  <1> USE DEF Basic, HistoryOK, RemoveDir, Goto, Notes, quotaVars, metaVars, call
  <1>1. TypeOK'
    <2>0. TypeOK /\ UNCHANGED <<clock, metas, removals, key, size, listing, total, evicted, todo, gridset, buffer, answer>>
      OBVIOUS
    <2>1. pc' \in [Requests -> Places]
      BY <2>0 DEF TypeOK, Places
    <2>3. files' \in [Keys -> File \cup {NoFile}]
      BY <2>0 DEF TypeOK
    <2>4. dir' \in BOOLEAN
      OBVIOUS
    <2>. QED  BY <2>0, <2>1, <2>3, <2>4 DEF TypeOK, Places
  <1>2. CountsSound'
    BY DEF CountsSound
  <1>3. InPlace'
    BY DEF InPlace, TypeOK
  <1>. QED  BY <1>1, <1>2, <1>3

LEMMA RemoveMetasBasic ==
  ASSUME Basic, HistoryOK', NEW r \in Requests, RemoveMetas(r)
  PROVE  Basic'
  <1> USE DEF Basic, HistoryOK, RemoveMetas, Goto, quotaVars, metaVars, call
  <1>1. TypeOK'
    <2>0. TypeOK /\ UNCHANGED <<clock, dir, files, removals, key, size, listing, total, evicted, todo, gridset, buffer, answer>>
      OBVIOUS
    <2>1. pc' \in [Requests -> Places]
      BY <2>0 DEF TypeOK, Places
    <2>2. metas' \in [Gridsets -> Meta \cup {NoFile}]
      OBVIOUS
    <2>. QED  BY <2>0, <2>1, <2>2 DEF TypeOK, Places
  <1>2. CountsSound'
    BY DEF CountsSound
  <1>3. InPlace'
    BY DEF InPlace, TypeOK
  <1>. QED  BY <1>1, <1>2, <1>3

LEMMA WriteFailsBasic ==
  ASSUME Basic, HistoryOK', NEW r \in Requests, WriteFails(r)
  PROVE  Basic'
  <1> USE DEF Basic, HistoryOK, WriteFails, Arrives, Goto, quotaVars, metaVars, call
  <1>1. TypeOK'
    <2>0. TypeOK /\ UNCHANGED <<clock, dir, metas, removals, key, size, listing, total, evicted, todo, gridset, buffer, answer>>
      OBVIOUS
    <2>1. pc' \in [Requests -> Places]
      BY <2>0 DEF TypeOK, Places
    <2>2. files' \in [Keys -> File \cup {NoFile}]
      <3>1. CASE UNCHANGED files
        BY <2>0, <3>1 DEF TypeOK
      <3>2. CASE ~ UNCHANGED files
        <4>1. PICK n \in Sizes : files' = [files EXCEPT ![key[r]].size = n]
          BY <3>2
        <4>2. pc[r] = "fill" /\ files[key[r]] # NoFile
          BY <3>2
        <4>3. key[r] \in Keys /\ files[key[r]] \in File
          BY <2>0, <4>2 DEF InPlace, TypeOK
        <4> DEFINE v == [files[key[r]] EXCEPT !.size = n]
        <4>4. v \in File
          BY <4>3 DEF File
        <4>5. files' = [files EXCEPT ![key[r]] = v]
          BY <4>1
        <4> HIDE DEF v
        <4>. QED  BY <2>0, <4>3, <4>4, <4>5 DEF TypeOK
      <3>. QED  BY <3>1, <3>2
    <2>. QED  BY <2>0, <2>1, <2>2 DEF TypeOK, Places
  <1>2. CountsSound'
    BY DEF CountsSound
  <1>3. InPlace'
    BY DEF InPlace, TypeOK
  <1>. QED  BY <1>1, <1>2, <1>3

LEMMA MetaFailsBasic ==
  ASSUME Basic, HistoryOK', NEW r \in Requests, MetaFails(r)
  PROVE  Basic'
  <1> USE DEF Basic, HistoryOK, MetaFails, Goto, quotaVars, metaVars, call
  <1>1. TypeOK'
    <2>0. TypeOK /\ UNCHANGED <<clock, dir, files, metas, removals, key, size, listing, total, evicted, todo, gridset, buffer, answer>>
      OBVIOUS
    <2>1. pc' \in [Requests -> Places]
      BY <2>0 DEF TypeOK, Places
    <2>. QED  BY <2>0, <2>1 DEF TypeOK, Places
  <1>2. CountsSound'
    BY DEF CountsSound
  <1>3. InPlace'
    BY DEF InPlace, TypeOK
  <1>. QED  BY <1>1, <1>2, <1>3

LEMMA DropBasic ==
  ASSUME Basic, HistoryOK', NEW r \in Requests, Drop(r)
  PROVE  Basic'
  <1> USE DEF Basic, HistoryOK, Goto, quotaVars, metaVars, call
  <1>1. TypeOK'
    <2>0. /\ TypeOK /\ Goto(r, "done")
          /\ UNCHANGED <<clock, dir, files, metas, removals, key, size, listing, total, evicted, todo, gridset, buffer, answer>>
      BY DEF Drop
    <2>1. pc' \in [Requests -> Places]
      BY <2>0 DEF TypeOK, Places
    <2>. QED  BY <2>0, <2>1 DEF TypeOK, Places
  <1>2. CountsSound'
    BY DEF CountsSound, Drop
  <1>3. InPlace'
    BY DEF InPlace, TypeOK, Drop
  <1>. QED  BY <1>1, <1>2, <1>3

\* What happens without a request.
LEMMA OthersBasic ==
  ASSUME Basic, HistoryOK', Crash \/ Tick \/ (\E k \in Keys : RemoveExpired(k)) \/ UNCHANGED vars
  PROVE  Basic'
  <1> USE DEF Basic, HistoryOK, Notes, quotaVars, metaVars, call
  <1>1. /\ UNCHANGED <<dir, metas, key, size, listing, total, evicted, todo, gridset, buffer, answer>>
        /\ pc' = pc \/ pc' = [r \in Requests |-> IF pc[r] = "new" THEN "new" ELSE "done"]
    BY DEF Crash, Tick, RemoveExpired, vars
  <1>2. TypeOK'
    <2>1. pc' \in [Requests -> Places]
      BY <1>1 DEF TypeOK, Places
    <2>3. files' \in [Keys -> File \cup {NoFile}] /\ removals' \subseteq Keys
      BY DEF Crash, Tick, RemoveExpired, vars, TypeOK
    <2>4. clock' \in Nat
      BY DEF Crash, Tick, RemoveExpired, vars, TypeOK
    <2>. QED  BY <1>1, <2>1, <2>3, <2>4 DEF TypeOK, Places
  <1>3. CountsSound'
    BY <1>1 DEF CountsSound
  <1>4. InPlace'
    BY <1>1 DEF InPlace, TypeOK
  <1>. QED  BY <1>2, <1>3, <1>4

LEMMA HistoryStep ==
  ASSUME Basic, [Next]_vars
  PROVE  HistoryOK'
  <1>0. TypeOK /\ InPlace /\ HistoryOK /\ MaxFailures \in Nat
    BY TileStoreAssumption DEF Basic, TypeOK, HistoryOK
  <1>1. ASSUME UNCHANGED pastVars \/ (\E event \in {"overlap", "failure", "expiry"} : Notes(event))
                 \/ (\E events \in SUBSET {"failure", "cut"} : Fails(events))
        PROVE  failed' \in Nat /\ past' \subseteq {"overlap", "failure", "expiry", "cut"}
    <2>1. failed \in Nat /\ past \subseteq {"overlap", "failure", "expiry", "cut"}
      BY <1>0 DEF HistoryOK
    <2>2. failed' \in {failed, failed + 1}
      BY <1>1 DEF pastVars, Notes, Fails
    <2>3. \E events \in SUBSET {"overlap", "failure", "expiry", "cut"} : past' = past \cup events
      <3>1. CASE UNCHANGED pastVars
        <4>1. past' = past \cup {} /\ {} \in SUBSET {"overlap", "failure", "expiry", "cut"}
          BY <3>1 DEF pastVars
        <4>. QED  BY <4>1
      <3>2. CASE \E event \in {"overlap", "failure", "expiry"} : Notes(event)
        BY <3>2 DEF Notes
      <3>3. CASE \E events \in SUBSET {"failure", "cut"} : Fails(events)
        BY <3>3 DEF Fails
      <3>. QED  BY <1>1, <3>1, <3>2, <3>3
    <2>. QED  BY <2>1, <2>2, <2>3
  <1>2. ASSUME \/ UNCHANGED <<unchecked, covers, twins>>
               \/ \E k \in Keys : Writes(k)
               \/ /\ unchecked' \subseteq unchecked
                  /\ twins' = twins \/ \E f : twins' = twins \cup {k \in Keys : k[2] = f.key[2] /\ k # f.key}
                  /\ \/ \E r \in Requests : covers' = [covers EXCEPT ![r] = Keys] \/ covers' = [covers EXCEPT ![r] = {}]
                     \/ UNCHANGED covers \/ covers' = [r \in Requests |-> {}]
        PROVE  unchecked' \subseteq Keys /\ twins' \subseteq Keys /\ covers' \in [Requests -> SUBSET Keys]
    <2>1. CASE \E k \in Keys : Writes(k)
      BY <1>0, <2>1 DEF HistoryOK, Writes
    <2>2. CASE UNCHANGED <<unchecked, covers, twins>>
      BY <1>0, <2>2 DEF HistoryOK
    <2>. QED  BY <1>0, <1>2, <2>1, <2>2 DEF HistoryOK
  <1>3. ASSUME NEW r \in Requests, Arrive(r) PROVE HistoryOK'
    <2>1. UNCHANGED <<unchecked, covers, twins>> /\ NotesOverlap
      BY <1>3 DEF Arrive, Lookup, Truncate, StartClear, history
    <2>2. UNCHANGED pastVars \/ Notes("overlap")
      BY <2>1 DEF NotesOverlap
    <2>. QED  BY <1>1, <1>2, <2>1, <2>2 DEF HistoryOK
  <1>4. ASSUME NEW r \in Requests, Stat(r) \/ Read(r) \/ ReadMeta(r) \/ TruncMeta(r) \/ FillMeta(r)
                                     \/ SyncRead(r) \/ RemoveMetas(r)
        PROVE  HistoryOK'
    <2>1. UNCHANGED <<failed, past, unchecked, covers, twins>>
      BY <1>4 DEF Stat, Read, ReadMeta, TruncMeta, FillMeta, SyncRead, RemoveMetas, history, pastVars
    <2>. QED  BY <1>0, <2>1 DEF HistoryOK
  <1>5. ASSUME NEW r \in Requests, Fill(r) PROVE HistoryOK'
    <2>1. key[r] \in Keys /\ UNCHANGED pastVars
      BY <1>0, <1>5 DEF Fill, InPlace
    <2>2. Writes(key[r]) \/ UNCHANGED <<unchecked, covers, twins>>
      BY <1>5 DEF Fill, history
    <2>. QED  BY <1>1, <1>2, <2>1, <2>2 DEF HistoryOK
  <1>6. ASSUME NEW r \in Requests, WriteFails(r) PROVE HistoryOK'
    <2>1. Fails({"cut"}) /\ (UNCHANGED <<unchecked, covers, twins>> \/ (pc[r] = "fill" /\ Writes(key[r])))
      BY <1>6 DEF WriteFails, history
    <2>2. pc[r] = "fill" => key[r] \in Keys
      BY <1>0 DEF InPlace
    <2>3. {"cut"} \in SUBSET {"failure", "cut"}
      OBVIOUS
    <2>. QED  BY <1>1, <1>2, <2>1, <2>2, <2>3 DEF HistoryOK
  <1>7. ASSUME NEW r \in Requests, Collect(r) PROVE HistoryOK'
    <2>1. UNCHANGED pastVars /\ UNCHANGED twins
      BY <1>7 DEF Collect
    <2>2. unchecked' \subseteq unchecked /\ (UNCHANGED covers \/ covers' = [covers EXCEPT ![r] = Keys])
      BY <1>7 DEF Collect
    <2>. QED  BY <1>1, <1>2, <2>1, <2>2 DEF HistoryOK
  <1>8. ASSUME NEW r \in Requests, Evict(r) PROVE HistoryOK'
    <2>1. UNCHANGED pastVars \/ Fails({"cut"})
      BY <1>8 DEF Evict, Remove
    <2>2. /\ UNCHANGED unchecked
          /\ UNCHANGED covers \/ covers' = [covers EXCEPT ![r] = {}]
          /\ twins' = twins \/ \E f : twins' = twins \cup {k \in Keys : k[2] = f.key[2] /\ k # f.key}
      BY <1>8 DEF Evict, Remove
    <2>3. {"cut"} \in SUBSET {"failure", "cut"}
      OBVIOUS
    <2>. QED  BY <1>1, <1>2, <2>1, <2>2, <2>3 DEF HistoryOK
  <1>9. ASSUME NEW r \in Requests, EvictEnds(r) PROVE HistoryOK'
    <2>1. UNCHANGED pastVars /\ UNCHANGED twins
      BY <1>9 DEF EvictEnds
    <2>2. unchecked' \subseteq unchecked /\ covers' = [covers EXCEPT ![r] = {}]
      BY <1>9 DEF EvictEnds
    <2>. QED  BY <1>1, <1>2, <2>1, <2>2 DEF HistoryOK
  <1>10. ASSUME NEW r \in Requests, RemoveDir(r) \/ MetaFails(r) PROVE HistoryOK'
    <2>1. UNCHANGED <<unchecked, covers, twins>>
      BY <1>10 DEF RemoveDir, MetaFails, history
    <2>2. UNCHANGED pastVars \/ Notes("failure") \/ Fails({"failure"})
      BY <1>10 DEF RemoveDir, MetaFails
    <2>3. {"failure"} \in SUBSET {"failure", "cut"}
      OBVIOUS
    <2>. QED  BY <1>1, <1>2, <2>1, <2>2, <2>3 DEF HistoryOK
  <1>11. ASSUME NEW r \in Requests, Drop(r) PROVE HistoryOK'
    <2>1. UNCHANGED <<unchecked, twins>> /\ covers' = [covers EXCEPT ![r] = {}]
      BY <1>11 DEF Drop
    <2>2. Fails({}) \/ Fails({"failure"}) \/ Fails({"cut"})
      BY <1>11, Zenon DEF Drop
    <2>3. {} \in SUBSET {"failure", "cut"} /\ {"failure"} \in SUBSET {"failure", "cut"}
          /\ {"cut"} \in SUBSET {"failure", "cut"}
      OBVIOUS
    <2>. QED  BY <1>1, <1>2, <2>1, <2>2, <2>3 DEF HistoryOK
  <1>12. CASE Crash
    <2>1. UNCHANGED <<unchecked, twins>> /\ covers' = [r \in Requests |-> {}] /\ Fails({"cut"})
      BY <1>12 DEF Crash
    <2>2. {"cut"} \in SUBSET {"failure", "cut"}
      OBVIOUS
    <2>. QED  BY <1>1, <1>2, <2>1, <2>2 DEF HistoryOK
  <1>13. ASSUME Tick \/ (\E k \in Keys : RemoveExpired(k)) \/ UNCHANGED vars PROVE HistoryOK'
    <2>1. UNCHANGED <<unchecked, covers, twins>> /\ (UNCHANGED pastVars \/ Notes("expiry"))
      BY <1>13 DEF Tick, RemoveExpired, vars, history
    <2>. QED  BY <1>1, <1>2, <2>1 DEF HistoryOK
  <1>. QED  BY <1>3, <1>4, <1>5, <1>6, <1>7, <1>8, <1>9, <1>10, <1>11, <1>12, <1>13 DEF Next, Go

LEMMA BasicStep ==
  Basic /\ [Next]_vars => Basic'
  <1> SUFFICES ASSUME Basic, [Next]_vars PROVE Basic'
    OBVIOUS
  <1>h. HistoryOK'
    BY HistoryStep
  <1>1. ASSUME NEW r \in Requests, Arrive(r) \/ WriteFails(r) \/ MetaFails(r) \/ Drop(r) PROVE Basic'
    BY <1>h, <1>1, LookupBasic, TruncateBasic, StartClearBasic, WriteFailsBasic, MetaFailsBasic, DropBasic
       DEF Arrive
  <1>2. ASSUME NEW r \in Requests, Go(r) PROVE Basic'
    BY <1>h, <1>2, ReadingBasic, FillBasic, ReadMetaBasic, TruncMetaBasic, FillMetaBasic, CollectBasic,
       EvictBasic, EvictEndsBasic, SyncReadBasic, RemoveDirBasic, RemoveMetasBasic DEF Go
  <1>. QED  BY <1>h, <1>1, <1>2, OthersBasic DEF Next

-----------------------------------------------------------------------------
(* The quota.                                                              *)

\* A byte of a tile that is on disk, before a step and after it.
LEMMA ByteOf ==
  ASSUME NEW b
  PROVE  /\ b \in OnDisk <=> b[1] \in Keys /\ files[b[1]] # NoFile /\ b \in {b[1]} \X (1..files[b[1]].size)
         /\ b \in OnDisk' <=> b[1] \in Keys /\ files'[b[1]] # NoFile /\ b \in {b[1]} \X (1..files'[b[1]].size)
  <1>1. ASSUME NEW k \in Keys, NEW n, b \in {k} \X (1..n) PROVE b[1] = k
    BY <1>1
  <1>2. b \in OnDisk <=> \E k \in Keys : files[k] # NoFile /\ b \in {k} \X (1..files[k].size)
    BY DEF OnDisk, Present
  <1>3. b \in OnDisk' <=> \E k \in Keys : files'[k] # NoFile /\ b \in {k} \X (1..files'[k].size)
    BY DEF OnDisk, Present
  <1>. QED  BY <1>1, <1>2, <1>3

\* No step but the end of a count makes more of what has been checked, and none
\* but a walk through the directory makes more of what is counted: of the tiles K
\* that a step writes or removes nothing is checked or counted after it, and of
\* the others what was.
LEMMA ChecksGoOn ==
  ASSUME Basic, Basic', ChecksSound, NEW K \in SUBSET Keys,
         \A k \in Keys \ K : files'[k] = files[k],
         \A k \in K : \/ files'[k] = NoFile \/ files'[k].size = 0
                      \/ k \in unchecked' /\ \A r \in Requests : k \notin covers'[r],
         unchecked' \ K = unchecked \ K,
         \A r \in Requests : covers'[r] = {} \/ covers'[r] \ K = covers[r] \ K,
         \A r \in Requests : covers'[r] # {} => \A f \in listing[r] \ listing'[r] : f.key \in K
  PROVE  ChecksSound'
  <1> DEFINE X == {b \in OnDisk : b[1] \notin K}
  <1>0. TypeOK /\ TypeOK' /\ Quota \in Nat
    BY TileStoreAssumption DEF Basic
  <1>a. ASSUME NEW b, b \in OnDisk', b[1] \notin K PROVE b \in OnDisk
    <2>1. b[1] \in Keys /\ files'[b[1]] # NoFile /\ b \in {b[1]} \X (1..files'[b[1]].size)
      BY <1>0, <1>a, ByteOf
    <2>. QED  BY <1>0, <1>a, <2>1, ByteOf
  <1>b. ASSUME NEW b, b \in OnDisk, b[1] \notin K PROVE b \in OnDisk'
    <2>1. b[1] \in Keys /\ files[b[1]] # NoFile /\ b \in {b[1]} \X (1..files[b[1]].size)
      BY <1>0, <1>b, ByteOf
    <2>. QED  BY <1>0, <1>b, <2>1, ByteOf
  <1>c. ASSUME NEW b, b \in OnDisk', b[1] \in K
        PROVE  b[1] \in unchecked' /\ \A r \in Requests : b[1] \notin covers'[r]
    <2>1. b[1] \in Keys /\ files'[b[1]] # NoFile /\ b \in {b[1]} \X (1..files'[b[1]].size)
      BY <1>0, <1>c, ByteOf
    <2>2. files'[b[1]].size # 0
      BY <2>1
    <2>. QED  BY <1>c, <2>1, <2>2
  <1>1. Checked' = Checked \cap X
    <2>1. ASSUME NEW b, b \in Checked' PROVE b \in Checked \cap X
      BY <2>1, <1>a, <1>c DEF Checked
    <2>2. ASSUME NEW b, b \in Checked \cap X PROVE b \in Checked'
      BY <2>2, <1>b DEF Checked
    <2>. QED  BY <2>1, <2>2
  <1>2. ASSUME NEW r \in Requests PROVE Counts(r)' = {} \/ Counts(r)' = Counts(r) \cap X
    <2>1. CASE covers'[r] = {}
      BY <2>1 DEF Counts
    <2>2. CASE covers'[r] \ K = covers[r] \ K
      <3>1. ASSUME NEW b, b \in Counts(r)' PROVE b \in Counts(r) \cap X
        BY <2>2, <3>1, <1>a, <1>c DEF Counts
      <3>2. ASSUME NEW b, b \in Counts(r) \cap X PROVE b \in Counts(r)'
        BY <2>2, <3>2, <1>b DEF Counts
      <3>. QED  BY <3>1, <3>2
    <2>. QED  BY <2>1, <2>2
  <1>3. Quota > 0 => Cardinality(Checked') <= Quota
    <2>1. IsFiniteSet(Checked)
      <3>1. Checked \in SUBSET OnDisk
        BY DEF Checked
      <3>. QED  BY <1>0, <3>1, FoundIs, FS_Subset
    <2>2. Cardinality(Checked') <= Cardinality(Checked) /\ IsFiniteSet(Checked')
      <3>1. Checked' \in SUBSET Checked
        BY <1>1
      <3>. QED  BY <2>1, <3>1, FS_Subset
    <2>3. Cardinality(Checked) \in Nat /\ Cardinality(Checked') \in Nat
      BY <2>1, <2>2, FS_CardinalityType
    <2>. QED  BY <1>0, <2>2, <2>3 DEF ChecksSound
  <1>4. ASSUME NEW r \in Requests PROVE Counts(r)' \subseteq BytesOf(listing'[r])
    <2> SUFFICES ASSUME NEW b \in Counts(r)' PROVE b \in BytesOf(listing'[r])
      OBVIOUS
    <2>1. b \in Counts(r) /\ b \in X /\ covers'[r] # {}
      <3>1. covers'[r] # {}
        BY DEF Counts
      <3>. QED  BY <1>2, <3>1
    <2>2. PICK f \in listing[r] : b \in {f.key} \X (1..f.size)
      BY <2>1 DEF ChecksSound, BytesOf
    <2>3. b[1] = f.key
      BY <2>2
    <2>4. f \in listing'[r]
      BY <2>1, <2>3
    <2>. QED  BY <2>2, <2>4 DEF BytesOf
  <1> HIDE DEF X
  <1>5. ASSUME NEW r \in Requests PROVE Checked' \subseteq Counts(r)' \/ Counts(r)' \subseteq Checked'
    BY <1>1, <1>2 DEF ChecksSound
  <1>6. ASSUME NEW q \in Requests, NEW r \in Requests
        PROVE  Counts(q)' \subseteq Counts(r)' \/ Counts(r)' \subseteq Counts(q)'
    BY <1>2 DEF ChecksSound
  <1>. QED  BY <1>3, <1>4, <1>5, <1>6 DEF ChecksSound

\* What is found within the quota is checked with that; what is over it is
\* counted, every byte of it.
LEMMA CollectSound ==
  ASSUME Basic, ChecksSound, NEW r \in Requests, Collect(r)
  PROVE  ChecksSound'
  <1>0. TypeOK /\ Quota \in Nat
    BY TileStoreAssumption DEF Basic
  <1>1. OnDisk' = OnDisk /\ Bytes \in Nat
    BY <1>0, FoundIs DEF Collect, OnDisk, Present
  <1>2. CASE Quota = 0 \/ Bytes <= Quota
    <2>1. unchecked' = {} /\ UNCHANGED <<listing, covers>>
      BY <1>2 DEF Collect
    <2>2. Checked' = OnDisk
      BY <1>1, <2>1 DEF Checked
    <2>3. \A q \in Requests : Counts(q)' = Counts(q) /\ Counts(q) \subseteq OnDisk
      BY <1>1, <2>1 DEF Counts
    <2>. QED  BY <1>0, <1>2, <2>1, <2>2, <2>3 DEF ChecksSound, Bytes
  <1>3. CASE ~(Quota = 0 \/ Bytes <= Quota)
    <2>1. /\ UNCHANGED unchecked /\ covers'[r] = Keys /\ listing'[r] = Found
          /\ \A q \in Requests : q # r => covers'[q] = covers[q] /\ listing'[q] = listing[q]
      BY <1>0, <1>3 DEF Collect, Found, TypeOK
    <2>2. Checked' = Checked /\ Checked \subseteq OnDisk
      BY <1>1, <2>1 DEF Checked
    <2>3. Counts(r)' = OnDisk
      BY <1>0, <1>1, <2>1, ByteOf DEF Counts
    <2>4. \A q \in Requests : q # r => Counts(q)' = Counts(q)
      BY <1>1, <2>1 DEF Counts
    <2>5. \A q \in Requests : Counts(q) \subseteq OnDisk
      BY DEF Counts
    <2>6. BytesOf(listing'[r]) = OnDisk
      BY <1>0, <2>1, FoundIs
    <2>7. \A q \in Requests : Counts(q)' \subseteq BytesOf(listing'[q])
      BY <2>1, <2>3, <2>4, <2>6 DEF ChecksSound
    <2>8. \A q \in Requests : Checked' \subseteq Counts(q)' \/ Counts(q)' \subseteq Checked'
      BY <2>2, <2>3, <2>4 DEF ChecksSound
    <2>9. \A p, q \in Requests : Counts(p)' \subseteq Counts(q)' \/ Counts(q)' \subseteq Counts(p)'
      BY <2>3, <2>4, <2>5 DEF ChecksSound
    <2>. QED  BY <2>2, <2>7, <2>8, <2>9 DEF ChecksSound
  <1>. QED  BY <1>2, <1>3

\* Whoever stops evicting has brought what it counted under the quota.
LEMMA EvictEndsSound ==
  ASSUME Basic, ChecksSound, NEW r \in Requests, EvictEnds(r)
  PROVE  ChecksSound'
  <1>0. TypeOK /\ CountsSound /\ Quota \in Nat
    BY TileStoreAssumption DEF Basic
  <1>1. /\ total[r] <= Quota \/ listing[r] = {}
        /\ UNCHANGED files /\ unchecked' = unchecked \ covers[r] /\ covers'[r] = {}
        /\ \A q \in Requests : q # r => covers'[q] = covers[q] /\ listing'[q] = listing[q]
    BY <1>0 DEF EvictEnds, TypeOK
  <1>2. OnDisk' = OnDisk
    BY <1>1 DEF OnDisk, Present
  <1>3. Counts(r)' = {} /\ \A q \in Requests : q # r => Counts(q)' = Counts(q)
    BY <1>1, <1>2 DEF Counts
  <1>4. Checked' = Checked \cup Counts(r)
    BY <1>1, <1>2 DEF Checked, Counts
  <1>5. Quota > 0 => Cardinality(Counts(r)) <= Quota
    <2>1. /\ IsFiniteSet(BytesOf(listing[r]))
          /\ Cardinality(BytesOf(listing[r])) <= total[r] /\ total[r] \in Nat
      <3>1. listing[r] \in SUBSET Counted /\ IsFiniteSet(listing[r])
        BY <1>0 DEF TypeOK, CountsSound, Counted
      <3>. QED  BY <1>0, <3>1, BytesFinite DEF CountsSound, TypeOK
    <2>2. /\ Cardinality(Counts(r)) <= Cardinality(BytesOf(listing[r])) /\ IsFiniteSet(Counts(r))
          /\ Cardinality(BytesOf(listing[r])) \in Nat
      <3>1. Counts(r) \in SUBSET BytesOf(listing[r])
        BY DEF ChecksSound
      <3>. QED  BY <2>1, <3>1, FS_Subset, FS_CardinalityType
    <2>3. Cardinality(Counts(r)) \in Nat
      BY <2>2, FS_CardinalityType
    <2>4. CASE total[r] <= Quota
      BY <1>0, <2>1, <2>2, <2>3, <2>4
    <2>5. CASE listing[r] = {}
      <3>1. Counts(r) = {}
        BY <2>5 DEF ChecksSound, BytesOf
      <3>. QED  BY <1>0, <3>1, FS_EmptySet
    <2>. QED  BY <1>1, <2>4, <2>5
  <1>6. Checked' = Checked \/ Checked' = Counts(r)
    BY <1>4 DEF ChecksSound
  <1>7. Quota > 0 => Cardinality(Checked') <= Quota
    BY <1>5, <1>6 DEF ChecksSound
  <1>8. \A q \in Requests : Counts(q)' \subseteq BytesOf(listing'[q])
    BY <1>1, <1>3 DEF ChecksSound
  <1>9. \A q \in Requests : Checked' \subseteq Counts(q)' \/ Counts(q)' \subseteq Checked'
    BY <1>3, <1>6 DEF ChecksSound
  <1>10. \A p, q \in Requests : Counts(p)' \subseteq Counts(q)' \/ Counts(q)' \subseteq Counts(p)'
    BY <1>3 DEF ChecksSound
  <1>. QED  BY <1>7, <1>8, <1>9, <1>10 DEF ChecksSound

\* Whoever evicts considers no longer what it has removed, and if it could not
\* remove a file, counts nothing.
LEMMA EvictSound ==
  ASSUME Basic, Basic', ChecksSound, NEW r \in Requests, Evict(r)
  PROVE  ChecksSound'
  <1> DEFINE f == Oldest(r)
  <1>0. TypeOK /\ CountsSound
    BY DEF Basic
  <1>1. f \in listing[r] /\ f.key \in Keys
    <2>1. listing[r] \subseteq Counted /\ listing[r] # {}
      BY <1>0 DEF TypeOK, Counted, Evict
    <2>2. f \in listing[r]
      BY <2>1, OldestIs
    <2>. QED  BY <2>1, <2>2 DEF Counted
  <1>2. /\ listing' = [listing EXCEPT ![r] = @ \ {f}] /\ UNCHANGED unchecked
        /\ \/ files' = [files EXCEPT ![f.key] = NoFile] /\ UNCHANGED covers
           \/ files[f.key] = NoFile /\ UNCHANGED <<files, covers>>
           \/ covers' = [covers EXCEPT ![r] = {}] /\ UNCHANGED files
    BY DEF Evict, Remove
  <1> HIDE DEF f
  <1>3. \A q \in Requests : \A e \in listing[q] \ listing'[q] : q = r /\ e = f
    BY <1>0, <1>2 DEF TypeOK
  <1>4. CASE covers' = [covers EXCEPT ![r] = {}] /\ UNCHANGED files
    <2>1. \A q \in Requests : covers'[q] = IF q = r THEN {} ELSE covers[q]
      BY <1>0, <1>4 DEF TypeOK
    <2>2. \A q \in Requests : covers'[q] # {} => \A e \in listing[q] \ listing'[q] : e.key \in {}
      BY <1>3, <2>1
    <2>. QED  BY <1>2, <1>4, <2>1, <2>2, ChecksGoOn
  <1>5. CASE /\ UNCHANGED covers
             /\ \/ files' = [files EXCEPT ![f.key] = NoFile]
                \/ files[f.key] = NoFile /\ UNCHANGED files
    <2>1. files'[f.key] = NoFile /\ \A k \in Keys \ {f.key} : files'[k] = files[k]
      BY <1>0, <1>1, <1>5 DEF TypeOK
    <2>2. {f.key} \in SUBSET Keys
      BY <1>1
    <2>3. \A q \in Requests : \A e \in listing[q] \ listing'[q] : e.key \in {f.key}
      BY <1>3
    <2>. QED  BY <1>2, <1>5, <2>1, <2>2, <2>3, ChecksGoOn
  <1>. QED  BY <1>2, <1>4, <1>5

\* The steps that write a tile.
LEMMA WritesSound ==
  ASSUME Basic, Basic', ChecksSound, NEW r \in Requests, Truncate(r) \/ Fill(r) \/ WriteFails(r)
  PROVE  ChecksSound'
  <1>0. TypeOK /\ InPlace
    BY DEF Basic
  <1>1. UNCHANGED listing
    BY DEF Truncate, Fill, WriteFails, quotaVars
  <1>a. \A q \in Requests : \A f \in listing[q] \ listing'[q] : FALSE
    BY <1>1
  <1>2. CASE Truncate(r)
    <2>1. PICK k \in Keys :
            files' = [files EXCEPT ![k] =
                        [size |-> 0, mtime |-> clock',
                         writers |-> {r} \cup IF @ = NoFile THEN {} ELSE @.writers]]
      BY <1>2 DEF Truncate
    <2>2. files'[k].size = 0 /\ \A j \in Keys \ {k} : files'[j] = files[j]
      BY <1>0, <2>1 DEF TypeOK
    <2>3. UNCHANGED <<unchecked, covers>>
      BY <1>2 DEF Truncate, history
    <2>4. {k} \in SUBSET Keys
      OBVIOUS
    <2>. QED  BY <1>a, <2>2, <2>3, <2>4, ChecksGoOn
  <1>3. CASE UNCHANGED <<files, unchecked, covers>>
    <2>1. {} \in SUBSET Keys /\ \A k \in Keys \ {} : files'[k] = files[k]
      BY <1>3
    <2>. QED  BY <1>a, <1>3, <2>1, ChecksGoOn
  <1>4. CASE ~Truncate(r) /\ ~ UNCHANGED <<files, unchecked, covers>>
    <2>1. pc[r] = "fill" /\ Writes(key[r]) /\ \E v : files' = [files EXCEPT ![key[r]] = v]
      BY <1>4 DEF Fill, WriteFails, history
    <2>2. PICK k \in Keys : k = key[r]
      BY <1>0, <2>1 DEF InPlace
    <2>3. \A j \in Keys \ {k} : files'[j] = files[j]
      BY <1>0, <2>1, <2>2 DEF TypeOK
    <2>4. unchecked' = unchecked \cup {k} /\ \A q \in Requests : covers'[q] = covers[q] \ {k}
      BY <2>1, <2>2 DEF Writes
    <2>5. \A q \in Requests : k \notin covers'[q]
      BY <2>4
    <2>6. {k} \in SUBSET Keys /\ unchecked' \ {k} = unchecked \ {k}
          /\ \A q \in Requests : covers'[q] \ {k} = covers[q] \ {k}
      BY <2>4
    <2>7. \A j \in {k} : j \in unchecked' /\ \A q \in Requests : j \notin covers'[q]
      BY <2>4, <2>5
    <2>. QED  BY <1>a, <2>3, <2>6, <2>7, ChecksGoOn
  <1>. QED  BY <1>2, <1>3, <1>4

LEMMA ChecksSoundStep ==
  Basic /\ Basic' /\ ChecksSound /\ [Next]_vars => ChecksSound'
  <1> SUFFICES ASSUME Basic, Basic', ChecksSound, [Next]_vars PROVE ChecksSound'
    OBVIOUS
  <1>0. TypeOK
    BY DEF Basic
  <1>1. ASSUME UNCHANGED <<listing, unchecked>>,
               \A k \in Keys : files'[k] = files[k] \/ files'[k] = NoFile,
               \A q \in Requests : covers'[q] = covers[q] \/ covers'[q] = {}
        PROVE  ChecksSound'
    <2> DEFINE K == {k \in Keys : files'[k] = NoFile}
    <2>1. K \in SUBSET Keys /\ \A k \in Keys \ K : files'[k] = files[k]
      BY <1>1
    <2>. QED  BY <1>1, <2>1, ChecksGoOn
  <1>2. ASSUME NEW r \in Requests, Lookup(r) \/ StartClear(r) \/ MetaFails(r) \/ Drop(r)
        PROVE  ChecksSound'
    <2>1. UNCHANGED <<listing, unchecked, files>> /\ (UNCHANGED covers \/ covers' = [covers EXCEPT ![r] = {}])
      BY <1>2 DEF Lookup, StartClear, MetaFails, Drop, history, quotaVars
    <2>. QED  BY <1>0, <1>1, <2>1 DEF TypeOK
  <1>3. ASSUME NEW r \in Requests, Stat(r) \/ Read(r) \/ ReadMeta(r) \/ TruncMeta(r) \/ FillMeta(r)
                                     \/ SyncRead(r) \/ RemoveDir(r) \/ RemoveMetas(r)
        PROVE  ChecksSound'
    <2>1. UNCHANGED <<listing, unchecked, covers>>
      BY <1>3 DEF Stat, Read, ReadMeta, TruncMeta, FillMeta, SyncRead, RemoveDir, RemoveMetas, history, quotaVars
    <2>2. \A k \in Keys : files'[k] = files[k] \/ files'[k] = NoFile
      BY <1>3 DEF Stat, Read, ReadMeta, TruncMeta, FillMeta, SyncRead, RemoveDir, RemoveMetas
    <2>. QED  BY <1>1, <2>1, <2>2
  <1>4. ASSUME NEW k \in Keys, RemoveExpired(k) PROVE ChecksSound'
    <2>1. UNCHANGED <<listing, unchecked, covers>> /\ files' = [files EXCEPT ![k] = NoFile]
      BY <1>4 DEF RemoveExpired, history, quotaVars
    <2>. QED  BY <1>0, <1>1, <2>1 DEF TypeOK
  <1>5. CASE Crash \/ Tick \/ UNCHANGED vars
    <2>1. /\ UNCHANGED <<listing, unchecked, files>>
          /\ UNCHANGED covers \/ covers' = [r \in Requests |-> {}]
      BY <1>5 DEF Crash, Tick, vars, history, quotaVars
    <2>. QED  BY <1>1, <2>1
  <1>. QED
    BY <1>2, <1>3, <1>4, <1>5, WritesSound, CollectSound, EvictSound, EvictEndsSound DEF Next, Arrive, Go

\* Until a crash, a dropped put or a file that cannot be written or removed,
\* somebody watches what is unchecked.
LEMMA WatchGoesOn ==
  ASSUME Watched, past \subseteq past', UNCHANGED unchecked,
         NEW r \in Requests, WillCollect(r) => WillCollect(r)', pc[r] # "evict",
         \A q \in Requests : q # r =>
           pc'[q] = pc[q] /\ evicted'[q] = evicted[q] /\ covers'[q] = covers[q]
  PROVE  Watched'
  <1> SUFFICES ASSUME "cut" \notin past', NEW k \in unchecked
               PROVE  \E q \in Requests : WillCollect(q)' \/ (pc'[q] = "evict" /\ k \in covers'[q])
    BY DEF Watched
  <1>1. PICK q \in Requests : WillCollect(q) \/ (pc[q] = "evict" /\ k \in covers[q])
    BY DEF Watched
  <1>2. CASE q = r
    BY <1>1, <1>2
  <1>3. CASE q # r
    BY <1>1, <1>3 DEF WillCollect
  <1>. QED  BY <1>2, <1>3

LEMMA WatchedStep ==
  Basic /\ Watched /\ [Next]_vars => Watched'
  <1> SUFFICES ASSUME Basic, Watched, [Next]_vars, "cut" \notin past' PROVE Watched'
    BY DEF Watched
  <1>0. TypeOK /\ InPlace
    BY DEF Basic
  <1>1. ASSUME NEW r \in Requests, Arrive(r) PROVE Watched'
    <2>1. past \subseteq past' /\ UNCHANGED <<unchecked, evicted, covers>>
      BY <1>1 DEF Arrive, Lookup, Truncate, StartClear, NotesOverlap, Notes, pastVars, history, quotaVars
    <2>2. pc[r] = "new" /\ \A q \in Requests : q # r => pc'[q] = pc[q]
      BY <1>0, <1>1 DEF Arrive, Lookup, Truncate, StartClear, Arrives, Goto, TypeOK
    <2>. QED  BY <2>1, <2>2, WatchGoesOn DEF WillCollect
  <1>2. ASSUME NEW r \in Requests, Fill(r) PROVE Watched'
    <2>1. WillCollect(r)'
      BY <1>0, <1>2 DEF Fill, Goto, TypeOK, WillCollect
    <2>. QED  BY <2>1 DEF Watched
  <1>3. ASSUME NEW r \in Requests, Collect(r) PROVE Watched'
    <2>1. CASE Quota = 0 \/ Bytes <= Quota
      BY <1>3, <2>1 DEF Collect, Watched
    <2>2. CASE ~(Quota = 0 \/ Bytes <= Quota)
      <3>1. pc'[r] = "evict" /\ covers'[r] = Keys /\ UNCHANGED unchecked
        BY <1>0, <1>3, <2>2 DEF Collect, Goto, TypeOK
      <3>2. unchecked \subseteq Keys
        BY <1>0 DEF TypeOK
      <3>. QED  BY <3>1, <3>2 DEF Watched
    <2>. QED  BY <2>1, <2>2
  <1>4. ASSUME NEW r \in Requests, Evict(r) PROVE Watched'
    <2>1. UNCHANGED <<pc, covers, unchecked, past>> /\ pc[r] = "evict"
      BY <1>4 DEF Evict, Remove, Fails, pastVars
    <2>2. \A q \in Requests : q # r => evicted'[q] = evicted[q]
      BY <1>0, <1>4 DEF Evict, Remove, TypeOK
    <2>3. \A q \in Requests : WillCollect(q) => WillCollect(q)'
      BY <2>1, <2>2 DEF WillCollect
    <2>. QED  BY <2>1, <2>3 DEF Watched
  <1>5. ASSUME NEW r \in Requests, EvictEnds(r) PROVE Watched'
    <2>1. /\ pc[r] = "evict" /\ unchecked' = unchecked \ covers[r] /\ UNCHANGED <<past, evicted>>
          /\ \A q \in Requests : q # r => pc'[q] = pc[q] /\ covers'[q] = covers[q]
      BY <1>0, <1>5 DEF EvictEnds, Goto, TypeOK, pastVars
    <2>2. ASSUME NEW k \in unchecked'
          PROVE  \E q \in Requests : WillCollect(q)' \/ (pc'[q] = "evict" /\ k \in covers'[q])
      <3>1. PICK q \in Requests : WillCollect(q) \/ (pc[q] = "evict" /\ k \in covers[q])
        BY <2>1 DEF Watched
      <3>2. q # r
        BY <2>1, <3>1 DEF WillCollect
      <3>. QED  BY <2>1, <3>1, <3>2 DEF WillCollect
    <2>. QED  BY <2>2 DEF Watched
  <1>6. ASSUME NEW r \in Requests,
               Stat(r) \/ Read(r) \/ ReadMeta(r) \/ TruncMeta(r) \/ FillMeta(r)
                 \/ SyncRead(r) \/ RemoveDir(r) \/ RemoveMetas(r) \/ MetaFails(r) \/ Drop(r)
        PROVE  Watched'
    <2>1. past \subseteq past' /\ UNCHANGED <<unchecked, evicted>>
      BY <1>6 DEF Stat, Read, ReadMeta, TruncMeta, FillMeta, SyncRead, RemoveDir, RemoveMetas, MetaFails,
         Drop, Notes, Fails, pastVars, history, quotaVars
    <2>2. \A q \in Requests : q # r => pc'[q] = pc[q]
      BY <1>0, <1>6 DEF Stat, Read, ReadMeta, TruncMeta, FillMeta, SyncRead, RemoveDir, RemoveMetas,
         MetaFails, Drop, Goto, TypeOK
    <2>3. \A q \in Requests : q # r => covers'[q] = covers[q]
      BY <1>0, <1>6 DEF Stat, Read, ReadMeta, TruncMeta, FillMeta, SyncRead, RemoveDir, RemoveMetas,
         MetaFails, Drop, history, TypeOK
    <2>4. pc[r] # "evict" /\ (WillCollect(r) => WillCollect(r)')
      <3>1. CASE ReadMeta(r)
        BY <1>0, <3>1 DEF ReadMeta, Goto, TypeOK, InPlace, WillCollect, quotaVars
      <3>2. CASE TruncMeta(r)
        BY <1>0, <3>2 DEF TruncMeta, Goto, TypeOK, WillCollect, quotaVars
      <3>3. CASE FillMeta(r) \/ MetaFails(r)
        BY <1>0, <3>3 DEF FillMeta, MetaFails, Goto, TypeOK, WillCollect, quotaVars
      <3>4. CASE Stat(r) \/ Read(r) \/ SyncRead(r) \/ RemoveDir(r) \/ RemoveMetas(r)
        BY <3>4 DEF Stat, Read, SyncRead, RemoveDir, RemoveMetas, WillCollect
      <3>5. CASE Drop(r)
        <4>1. pc[r] \in {"stat", "read", "clear", "clear_meta"}
          <5>1. CASE pc[r] \in {"stat", "read", "clear", "clear_meta"}
            BY <5>1
          <5>2. CASE pc[r] \notin {"stat", "read", "clear", "clear_meta"}
            <6>1. Fails({"cut"})
              BY <3>5, <5>2 DEF Drop
            <6>. QED  BY <6>1 DEF Fails
          <5>. QED  BY <5>1, <5>2
        <4>. QED  BY <4>1 DEF WillCollect
      <3>. QED  BY <1>6, <3>1, <3>2, <3>3, <3>4, <3>5
    <2>. QED  BY <2>1, <2>2, <2>3, <2>4, WatchGoesOn
  <1>7. ASSUME NEW r \in Requests, WriteFails(r) PROVE Watched'
    BY <1>7 DEF WriteFails, Fails
  <1>8. CASE Crash
    BY <1>8 DEF Crash, Fails
  <1>9. ASSUME Tick \/ (\E k \in Keys : RemoveExpired(k)) \/ UNCHANGED vars PROVE Watched'
    <2>1. past \subseteq past' /\ UNCHANGED <<pc, evicted, unchecked, covers>>
      BY <1>9 DEF Tick, RemoveExpired, vars, Notes, pastVars, history, quotaVars
    <2>. QED  BY <2>1 DEF Watched, WillCollect
  <1>. QED  BY <1>1, <1>2, <1>3, <1>4, <1>5, <1>6, <1>7, <1>8, <1>9 DEF Next, Go

LEMMA QuotaInit ==
  Init => ChecksSound /\ Watched
  <1> SUFFICES ASSUME Init PROVE ChecksSound /\ Watched
    OBVIOUS
  <1>1. Checked = OnDisk
    BY DEF Init, Checked
  <1>2. \A r \in Requests : Counts(r) = {}
    BY DEF Init, Counts
  <1>3. ChecksSound
    BY <1>1, <1>2 DEF ChecksSound, Init, Bytes
  <1>. QED  BY <1>3 DEF Watched, Init

LEMMA QuotaHolds ==
  ChecksSound /\ Watched => QuotaHeld
  <1> SUFFICES ASSUME ChecksSound, Watched, Quota > 0, Quiet, "cut" \notin past
               PROVE  Bytes <= Quota
    BY DEF QuotaHeld, ChecksSound
  <1>1. unchecked = {}
    BY DEF Watched, WillCollect, Quiet, Idle
  <1>2. Checked = OnDisk
    BY <1>1 DEF Checked
  <1>. QED  BY <1>2 DEF ChecksSound, Bytes

\* Every variable keeps its type; an eviction never counts below zero.
THEOREM TilesTypeCorrect == Spec => []TypeOK
  <1>1. Basic => TypeOK
    BY DEF Basic
  <1>. QED  BY <1>1, BasicInit, BasicStep, PTL DEF Spec

\* The tiles that a put has checked against the quota are within it at all times,
\* whatever runs at once, is dropped on the way, fails or expires; and when no call
\* is running every tile is, unless a crash, a dropped put or a file that could not
\* be written or removed came between: for every number of requests, tiles,
\* gridsets and bytes.
THEOREM TilesQuotaHeld == Spec => []QuotaHeld
  BY BasicInit, BasicStep, QuotaInit, ChecksSoundStep, WatchedStep, QuotaHolds, PTL DEF Spec

-----------------------------------------------------------------------------
(* Calls in turn.                                                          *)

\* Nothing that has been noted is forgotten.
LEMMA PastGrows ==
  [Next]_vars => past \subseteq past'
  <1> SUFFICES ASSUME [Next]_vars PROVE past \subseteq past'
    OBVIOUS
  <1> USE DEF NotesOverlap, Notes, Fails, pastVars
  <1>1. ASSUME NEW r \in Requests, Arrive(r) \/ WriteFails(r) \/ MetaFails(r) PROVE past \subseteq past'
    BY <1>1 DEF Arrive, Lookup, Truncate, StartClear, WriteFails, MetaFails
  <1>2. ASSUME NEW r \in Requests, Go(r) PROVE past \subseteq past'
    BY <1>2 DEF Go, Stat, Read, Fill, ReadMeta, TruncMeta, FillMeta, Collect, Evict, Remove, EvictEnds,
                SyncRead, RemoveDir, RemoveMetas
  <1>3. ASSUME NEW r \in Requests, Drop(r) PROVE past \subseteq past'
    BY <1>3 DEF Drop
  <1>4. ASSUME Crash \/ Tick \/ (\E k \in Keys : RemoveExpired(k)) \/ UNCHANGED vars
        PROVE  past \subseteq past'
    BY <1>4 DEF Crash, Tick, RemoveExpired, vars
  <1>. QED  BY <1>1, <1>2, <1>3, <1>4 DEF Next

\* A call that is dropped without a note is a get.
LEMMA DropsAlone ==
  ASSUME Basic, NEW r \in Requests, Drop(r), past' = {}
  PROVE  /\ pc[r] \in {"stat", "read"} /\ pc'[r] = "done"
         /\ \A q \in Requests : q # r => pc'[q] = pc[q]
         /\ UNCHANGED <<files, metas, key, size, listing, total, evicted, todo, gridset, buffer, twins>>
  <1>1. CASE pc[r] \notin {"stat", "read"}
    <2>1. Fails({"failure"}) \/ Fails({"cut"})
      BY <1>1 DEF Drop
    <2>. QED  BY <2>1 DEF Fails
  <1>2. pc[r] \in {"stat", "read"}
    BY <1>1
  <1>3. pc'[r] = "done" /\ \A q \in Requests : q # r => pc'[q] = pc[q]
    BY DEF Drop, Goto, Basic, TypeOK
  <1>. QED  BY <1>2, <1>3 DEF Drop, call, quotaVars, metaVars

\* A call that begins while nothing has been noted begins alone.
LEMMA ArrivesAlone ==
  ASSUME Basic, NEW r \in Requests, Arrive(r), past' = {}
  PROVE  Quiet /\ \A q \in Requests : q # r => pc'[q] = pc[q]
  <1>1. Quiet
    BY DEF Arrive, Lookup, Truncate, StartClear, NotesOverlap, Notes
  <1>2. \A q \in Requests : q # r => pc'[q] = pc[q]
    BY DEF Arrive, Lookup, Truncate, StartClear, Goto, Basic, TypeOK
  <1>. QED  BY <1>1, <1>2

LEMMA GoesOnAlone ==
  ASSUME Basic, NEW r \in Requests, Go(r)
  PROVE  ~Idle(r) /\ \A q \in Requests : q # r => pc'[q] = pc[q]
  <1>0. TypeOK
    BY DEF Basic
  <1>1. ~Idle(r)
    BY DEF Go, Stat, Read, Fill, ReadMeta, TruncMeta, FillMeta, Collect, Evict, EvictEnds, SyncRead,
           RemoveDir, RemoveMetas, Idle
  <1>2. UNCHANGED pc \/ \E where \in Places : Goto(r, where)
    <2>1. CASE Stat(r) \/ Read(r) \/ Fill(r) \/ ReadMeta(r)
      BY <2>1 DEF Stat, Read, Fill, ReadMeta, Places
    <2>2. CASE TruncMeta(r) \/ FillMeta(r) \/ Collect(r)
      BY <2>2 DEF TruncMeta, FillMeta, Collect, Places
    <2>3. CASE Evict(r) \/ EvictEnds(r) \/ RemoveDir(r) \/ RemoveMetas(r)
      BY <2>3 DEF Evict, EvictEnds, RemoveDir, RemoveMetas, Places
    <2>4. CASE SyncRead(r)
      BY <2>4 DEF SyncRead, Places
    <2>. QED  BY <2>1, <2>2, <2>3, <2>4 DEF Go
  <1>. QED  BY <1>0, <1>1, <1>2 DEF Goto, TypeOK

\* The one that is evicting, alone, takes away what its listing has of a file.
LEMMA EvictInTurn ==
  ASSUME Basic, NEW r \in Requests, Evict(r), listing[r] = Found,
         total[r] = Cardinality(BytesOf(listing[r])), past' = {} \/ files' # files
  PROVE  /\ listing'[r] = Found' /\ total'[r] = Cardinality(BytesOf(listing'[r]))
         /\ Oldest(r).key \in Present /\ Oldest(r).mtime = files[Oldest(r).key].mtime
         /\ files' = [files EXCEPT ![Oldest(r).key] = NoFile]
         /\ \A j \in Present : Oldest(r).mtime <= files[j].mtime
         /\ evicted' = [evicted EXCEPT ![r] = @ \cup {Oldest(r).key[2]}]
         /\ twins' = twins \cup {k \in Keys : k[2] = Oldest(r).key[2] /\ k # Oldest(r).key}
         /\ Bytes > Quota
  <1> DEFINE f == Oldest(r)
  <1>0. TypeOK /\ CountsSound
    BY DEF Basic
  <1>1. /\ listing[r] \in SUBSET Counted /\ listing[r] # {}
        /\ IsFiniteSet(listing[r]) /\ Once(listing[r])
    BY <1>0 DEF TypeOK, CountsSound, Counted, Evict
  <1>2. f \in listing[r] /\ \A e \in listing[r] : f.mtime <= e.mtime
    BY <1>1, OldestIs
  <1>3. total[r] > Quota /\ listing' = [listing EXCEPT ![r] = @ \ {f}]
    BY DEF Evict
  <1>4. files[f.key] # NoFile => /\ files' = [files EXCEPT ![f.key] = NoFile]
                                 /\ total' = [total EXCEPT ![r] = @ - f.size]
                                 /\ evicted' = [evicted EXCEPT ![r] = @ \cup {f.key[2]}]
                                 /\ twins' = twins \cup {k \in Keys : k[2] = f.key[2] /\ k # f.key}
    BY DEF Evict, Remove, Fails
  <1> HIDE DEF f
  <1>5. f.key \in Present /\ f = [key |-> f.key, size |-> files[f.key].size, mtime |-> files[f.key].mtime]
    BY <1>2 DEF Found
  <1>6. /\ files' = [files EXCEPT ![f.key] = NoFile]
        /\ total'[r] = total[r] - f.size /\ listing'[r] = Found \ {f}
    BY <1>0, <1>3, <1>4, <1>5 DEF Present, TypeOK
  <1>7. total'[r] = Cardinality(BytesOf(listing'[r]))
    <2>1. /\ Cardinality(BytesOf(listing[r])) \in Nat /\ f.size \in Nat
          /\ Cardinality(BytesOf(listing[r] \ {f})) \in Nat
          /\ Cardinality(BytesOf(listing[r])) = Cardinality(BytesOf(listing[r] \ {f})) + f.size
      BY <1>1, <1>2, BytesWithout
    <2>. QED  BY <1>6, <2>1
  <1>8. Found' = Found \ {f}
    <2>1. Present' = Present \ {f.key} /\ \A k \in Present' : files'[k] = files[k]
      BY <1>0, <1>5, <1>6 DEF Present, TypeOK
    <2>2. ASSUME NEW e \in Found' PROVE e \in Found \ {f}
      <3>1. PICK k \in Present' : e = [key |-> k, size |-> files[k].size, mtime |-> files[k].mtime]
        BY <2>1 DEF Found
      <3>. QED  BY <1>5, <2>1, <3>1 DEF Found
    <2>3. ASSUME NEW e \in Found \ {f} PROVE e \in Found'
      <3>1. PICK k \in Present : e = [key |-> k, size |-> files[k].size, mtime |-> files[k].mtime]
        BY DEF Found
      <3>2. k \in Present' /\ e = [key |-> k, size |-> files'[k].size, mtime |-> files'[k].mtime]
        BY <1>5, <2>1, <3>1
      <3>. QED  BY <3>2 DEF Found
    <2>. QED  BY <2>2, <2>3
  <1>9. Bytes > Quota
    BY <1>0, <1>3, FoundIs
  <1>10. \A j \in Present : f.mtime <= files[j].mtime
    <2> SUFFICES ASSUME NEW j \in Present PROVE f.mtime <= files[j].mtime
      OBVIOUS
    <2> DEFINE e == [key |-> j, size |-> files[j].size, mtime |-> files[j].mtime]
    <2>1. e \in listing[r]
      BY DEF Found
    <2>2. f.mtime <= e.mtime
      BY <1>2, <2>1
    <2>. QED  BY <2>2
  <1>11. f.mtime = files[f.key].mtime
    <2> DEFINE e == [key |-> f.key, size |-> files[f.key].size, mtime |-> files[f.key].mtime]
    <2>1. f = e /\ e.mtime = files[f.key].mtime
      BY <1>5
    <2>. QED  BY <2>1
  <1>12. /\ evicted' = [evicted EXCEPT ![r] = @ \cup {f.key[2]}]
         /\ twins' = twins \cup {k \in Keys : k[2] = f.key[2] /\ k # f.key}
    BY <1>4, <1>5 DEF Present
  <1>. QED  BY <1>5, <1>6, <1>7, <1>8, <1>9, <1>10, <1>11, <1>12 DEF f

LEMMA InTurnStep ==
  Basic /\ InTurn /\ [Next]_vars => InTurn'
  <1> SUFFICES ASSUME Basic, InTurn, [Next]_vars, past' = {} PROVE InTurn'
    BY DEF InTurn
  <1>0. TypeOK /\ past = {}
    BY PastGrows DEF Basic
  <1>1. ASSUME NEW r \in Requests, Arrive(r) PROVE InTurn'
    <2>1. pc'[r] # "evict"
      BY <1>0, <1>1 DEF Arrive, Lookup, Truncate, StartClear, Goto, TypeOK
    <2>. QED  BY <1>1, <2>1, ArrivesAlone DEF InTurn, Quiet, Idle
  <1>2. ASSUME NEW r \in Requests, Go(r) PROVE InTurn'
    <2>1. /\ ~Idle(r) /\ \A q \in Requests : q # r => Idle(q) /\ pc'[q] = pc[q]
      BY <1>0, <1>2, GoesOnAlone DEF InTurn
    <2>2. ASSUME pc'[r] = "evict"
          PROVE  listing'[r] = Found' /\ total'[r] = Cardinality(BytesOf(listing'[r]))
      <3>1. Collect(r) \/ Evict(r)
        BY <1>0, <1>2, <2>2
        DEF Go, Stat, Read, Fill, ReadMeta, TruncMeta, FillMeta, EvictEnds, SyncRead,
            RemoveDir, RemoveMetas, Goto, TypeOK
      <3>2. CASE Collect(r)
        <4>1. listing'[r] = Found /\ total'[r] = Bytes
          BY <1>0, <2>2, <3>2 DEF Collect, Goto, TypeOK, Found
        <4>2. Found' = Found
          BY <3>2 DEF Collect, Found, Present
        <4>. QED  BY <1>0, <4>1, <4>2, FoundIs
      <3>3. CASE Evict(r)
        <4>1. pc[r] = "evict"
          BY <3>3 DEF Evict
        <4>. QED  BY <1>0, <3>3, <4>1, EvictInTurn DEF InTurn
      <3>. QED  BY <3>1, <3>2, <3>3
    <2>. QED  BY <2>1, <2>2 DEF InTurn, Idle
  <1>3. ASSUME NEW r \in Requests, WriteFails(r) \/ MetaFails(r) PROVE InTurn'
    BY <1>3 DEF WriteFails, MetaFails, Fails
  <1>7. ASSUME NEW r \in Requests, Drop(r) PROVE InTurn'
    BY <1>0, <1>7, DropsAlone DEF InTurn, Idle, Found, Present
  <1>4. ASSUME NEW k \in Keys, RemoveExpired(k) PROVE InTurn'
    BY <1>4 DEF RemoveExpired, Notes
  <1>5. CASE Crash
    BY <1>5 DEF Crash, Fails
  <1>6. CASE Tick \/ UNCHANGED vars
    <2>1. UNCHANGED <<files, pc, listing, total>>
      BY <1>6 DEF Tick, vars, quotaVars
    <2>. QED  BY <1>0, <2>1 DEF InTurn, Idle, Found, Present
  <1>. QED  BY <1>1, <1>2, <1>3, <1>4, <1>5, <1>6, <1>7 DEF Next

LEMMA EvictsOldest ==
  Basic /\ InTurn /\ [Next]_vars =>
    \A r \in Requests, k \in Keys :
      past = {} /\ listing'[r] # listing[r] /\ files[k] # NoFile /\ files'[k] = NoFile
      => /\ Bytes > Quota
         /\ \A j \in Keys : files'[j] # NoFile => files'[j].mtime >= files[k].mtime
  <1> SUFFICES ASSUME Basic, InTurn, [Next]_vars, NEW r \in Requests, NEW k \in Keys,
                      past = {}, listing'[r] # listing[r], files[k] # NoFile, files'[k] = NoFile
               PROVE  /\ Bytes > Quota
                      /\ \A j \in Keys : files'[j] # NoFile => files'[j].mtime >= files[k].mtime
    OBVIOUS
  <1>0. TypeOK
    BY DEF Basic
  <1>1. PICK q \in Requests : Evict(q)
    <2>1. listing' # listing /\ files' # files
      OBVIOUS
    <2>. QED
      BY <2>1 DEF Next, vars, Arrive, Go, Lookup, Truncate, StartClear, Stat, Read, Fill, ReadMeta,
         TruncMeta, FillMeta, Collect, EvictEnds, SyncRead, RemoveDir, RemoveMetas, WriteFails,
         MetaFails, Drop, RemoveExpired, Crash, Tick, quotaVars
  <1>2. q = r
    BY <1>0, <1>1 DEF Evict, TypeOK
  <1>3. listing[r] = Found /\ total[r] = Cardinality(BytesOf(listing[r]))
    BY <1>1, <1>2 DEF Evict, InTurn
  <1>4. /\ Oldest(r).mtime = files[Oldest(r).key].mtime
        /\ files' = [files EXCEPT ![Oldest(r).key] = NoFile]
        /\ \A j \in Present : Oldest(r).mtime <= files[j].mtime
        /\ Bytes > Quota
    <2>1. files' # files
      OBVIOUS
    <2>. QED  BY <1>1, <1>2, <1>3, <2>1, EvictInTurn
  <1>5. k = Oldest(r).key
    BY <1>0, <1>4 DEF TypeOK
  <1>6. ASSUME NEW j \in Keys, files'[j] # NoFile PROVE files'[j].mtime >= files[k].mtime
    <2>1. j \in Present /\ files'[j] = files[j]
      BY <1>0, <1>4, <1>6 DEF Present, TypeOK
    <2>. QED  BY <1>4, <1>5, <2>1
  <1>. QED  BY <1>4, <1>6

\* Calls that do not overlap evict only while the layer is over its quota, and
\* what they take is never newer than what they leave: the sort by file time
\* in enforce_quota does what its comment says.
THEOREM TilesEvictsOldest == Spec => EvictsOldestInTurn
  <1>1. Init => InTurn
    BY DEF Init, InTurn, Idle
  <1>. QED  BY <1>1, BasicInit, BasicStep, InTurnStep, EvictsOldest, PTL DEF Spec, EvictsOldestInTurn

-----------------------------------------------------------------------------
(* The metastores.                                                         *)

\* What files F list for gridset g.
ListedIn(F, g) ==
  {[tile |-> t, size |-> F[<<g, t>>].size] : t \in {t \in Tiles : F[<<g, t>>] # NoFile}}

LEMMA ListedIs ==
  ASSUME NEW g \in Gridsets
  PROVE  Listed(g) = ListedIn(files, g) /\ Listed(g)' = ListedIn(files', g)
  <1>1. ASSUME NEW F PROVE {[tile |-> k[2], size |-> F[k].size] : k \in {k \in {k \in Keys : F[k] # NoFile} : k[1] = g}}
                           = ListedIn(F, g)
    <2> DEFINE A == {[tile |-> k[2], size |-> F[k].size] : k \in {k \in {k \in Keys : F[k] # NoFile} : k[1] = g}}
    <2>1. ASSUME NEW e \in A PROVE e \in ListedIn(F, g)
      <3>1. PICK k \in Keys : F[k] # NoFile /\ k[1] = g /\ e = [tile |-> k[2], size |-> F[k].size]
        OBVIOUS
      <3>2. k = <<g, k[2]>> /\ k[2] \in Tiles
        BY <3>1 DEF Keys
      <3>. QED  BY <3>1, <3>2 DEF ListedIn
    <2>2. ASSUME NEW e \in ListedIn(F, g) PROVE e \in A
      <3>1. PICK t \in Tiles : F[<<g, t>>] # NoFile /\ e = [tile |-> t, size |-> F[<<g, t>>].size]
        BY DEF ListedIn
      <3> DEFINE k == <<g, t>>
      <3>2. k \in Keys /\ F[k] # NoFile /\ k[1] = g /\ e = [tile |-> k[2], size |-> F[k].size]
        BY <3>1 DEF Keys
      <3> HIDE DEF k
      <3>. QED  BY <3>2
    <2>. QED  BY <2>1, <2>2
  <1>. QED  BY <1>1 DEF Listed, Present

\* Files that differ in tile b only list the same of the other tiles.
LEMMA ListedBut ==
  ASSUME NEW G, NEW F, NEW a, NEW b, \A t \in Tiles : t # b => G[<<a, t>>] = F[<<a, t>>]
  PROVE  But(ListedIn(G, a), b) \subseteq But(ListedIn(F, a), b)
  <1> SUFFICES ASSUME NEW e \in But(ListedIn(G, a), b) PROVE e \in But(ListedIn(F, a), b)
    OBVIOUS
  <1>1. PICK t \in Tiles : G[<<a, t>>] # NoFile /\ e = [tile |-> t, size |-> G[<<a, t>>].size]
    BY DEF ListedIn, But
  <1>2. e.tile # b /\ t # b
    BY <1>1 DEF But
  <1>3. F[<<a, t>>] = G[<<a, t>>]
    BY <1>2
  <1>4. e \in ListedIn(F, a)
    BY <1>1, <1>3 DEF ListedIn
  <1>. QED  BY <1>2, <1>4 DEF But

\* Nothing but the file of tile k changes: what is listed elsewhere stays.
LEMMA ListedChanges ==
  ASSUME TypeOK, NEW k \in Keys, NEW v, files' = [files EXCEPT ![k] = v]
  PROVE  /\ \A g \in Gridsets : g # k[1] => Listed(g)' = Listed(g)
         /\ But(Listed(k[1])', k[2]) = But(Listed(k[1]), k[2])
         /\ v = NoFile => Listed(k[1])' = But(Listed(k[1]), k[2])
  <1>1. k = <<k[1], k[2]>> /\ k[1] \in Gridsets /\ k[2] \in Tiles
    BY DEF Keys
  <1>2. \A g \in Gridsets, t \in Tiles : <<g, t>> # k => files'[<<g, t>>] = files[<<g, t>>]
    BY DEF Keys, TypeOK
  <1>3. files'[k] = v
    BY DEF TypeOK
  <1>4. ASSUME NEW g \in Gridsets, g # k[1] PROVE ListedIn(files', g) = ListedIn(files, g)
    <2>1. \A t \in Tiles : files'[<<g, t>>] = files[<<g, t>>]
      BY <1>1, <1>2, <1>4
    <2>. QED  BY <2>1 DEF ListedIn
  <1> DEFINE a == k[1]
             b == k[2]
  <1>9. k = <<a, b>> /\ a \in Gridsets
    BY <1>1
  <1> HIDE DEF a, b
  <1>5. \A t \in Tiles : t # b => files'[<<a, t>>] = files[<<a, t>>]
    BY <1>2, <1>9
  <1>6. files'[<<a, b>>] = v
    BY <1>3, <1>9
  <1>7. But(ListedIn(files', a), b) = But(ListedIn(files, a), b)
    <2>1. But(ListedIn(files', a), b) \subseteq But(ListedIn(files, a), b)
      BY <1>5, ListedBut
    <2>2. But(ListedIn(files, a), b) \subseteq But(ListedIn(files', a), b)
      BY <1>5, ListedBut
    <2>. QED  BY <2>1, <2>2
  <1>8. ASSUME v = NoFile PROVE ListedIn(files', a) = But(ListedIn(files', a), b)
    <2>1. ASSUME NEW e \in ListedIn(files', a) PROVE e.tile # b
      <3>1. PICK t \in Tiles : files'[<<a, t>>] # NoFile /\ e = [tile |-> t, size |-> files'[<<a, t>>].size]
        BY DEF ListedIn
      <3>. QED  BY <1>6, <1>8, <3>1
    <2>. QED  BY <2>1 DEF But
  <1>. QED  BY <1>4, <1>7, <1>8, <1>9, ListedIs DEF a, b

\* A tile on disk is listed once.
LEMMA ListedHas ==
  ASSUME NEW k \in Keys, files[k] # NoFile
  PROVE  Listed(k[1]) = But(Listed(k[1]), k[2]) \cup {[tile |-> k[2], size |-> files[k].size]}
  <1> DEFINE a == k[1]
             b == k[2]
  <1>1. k = <<a, b>> /\ a \in Gridsets /\ b \in Tiles
    BY DEF Keys
  <1>2. Listed(a) = ListedIn(files, a)
    BY <1>1, ListedIs
  <1> HIDE DEF a, b
  <1>3. ListedIn(files, a) = But(ListedIn(files, a), b) \cup {[tile |-> b, size |-> files[k].size]}
    <2>1. [tile |-> b, size |-> files[k].size] \in ListedIn(files, a)
      BY <1>1 DEF ListedIn
    <2>2. ASSUME NEW e \in ListedIn(files, a), e.tile = b PROVE e = [tile |-> b, size |-> files[k].size]
      <3>1. PICK t \in Tiles : e = [tile |-> t, size |-> files[<<a, t>>].size]
        BY DEF ListedIn
      <3>. QED  BY <1>1, <2>2, <3>1
    <2>. QED  BY <2>1, <2>2 DEF But
  <1>. QED  BY <1>2, <1>3 DEF a, b

LEMMA SameListed ==
  ASSUME UNCHANGED files
  PROVE  \A g : Listed(g)' = Listed(g)
  BY DEF Listed, Present

LEMMA SameEntries ==
  ASSUME UNCHANGED metas
  PROVE  \A g : EntriesOf(g)' = EntriesOf(g)
  BY DEF EntriesOf

\* What holds of request r, and of the metastores, when no other call runs.
ToldBy(r) == IF Idle(r) THEN SayAll ELSE Told(r)

LEMMA ToldAlone ==
  ASSUME NEW r \in Requests, \A q \in Requests : q # r => Idle(q)', ToldBy(r)'
  PROVE  MetasTold'
  BY DEF MetasTold, ToldBy, Quiet

LEMMA LookupTold ==
  ASSUME Basic, NEW r \in Requests, SayAll, Lookup(r) \/ StartClear(r)
  PROVE  ToldBy(r)'
  <1>1. UNCHANGED files /\ UNCHANGED metas /\ UNCHANGED twins
    BY DEF Lookup, StartClear, history
  <1>2. pc'[r] \in {"done", "stat", "clear"}
    BY DEF Lookup, StartClear, Goto, Basic, TypeOK
  <1>3. SayAll'
    BY <1>1, SameListed, SameEntries DEF SayAll, Says
  <1>. QED  BY <1>2, <1>3 DEF ToldBy, Told, Idle

LEMMA TruncateTold ==
  ASSUME Basic, NEW r \in Requests, SayAll, Truncate(r)
  PROVE  ToldBy(r)'
  <1>0. TypeOK
    BY DEF Basic
  <1>1. PICK k \in Keys, n \in Sizes :
          /\ key' = [key EXCEPT ![r] = k]
          /\ files' = [files EXCEPT ![k] =
                        [size |-> 0, mtime |-> clock',
                         writers |-> {r} \cup IF @ = NoFile THEN {} ELSE @.writers]]
    BY DEF Truncate
  <1> DEFINE v == [size |-> 0, mtime |-> clock',
                   writers |-> {r} \cup IF files[k] = NoFile THEN {} ELSE files[k].writers]
  <1>2. files' = [files EXCEPT ![k] = v] /\ v \in File
    <2>1. files[k] # NoFile => files[k].writers \subseteq Requests
      BY <1>0 DEF TypeOK, File
    <2>. QED  BY <1>0, <1>1, <2>1 DEF TypeOK, File, Truncate
  <1>3. r \in v.writers
    OBVIOUS
  <1> HIDE DEF v
  <1>4. /\ pc'[r] = "fill" /\ key'[r] = k /\ UNCHANGED metas
        /\ files'[k] = v /\ v # NoFile
    BY <1>0, <1>1, <1>2, TileStoreAssumption DEF Truncate, Goto, TypeOK
  <1>5. /\ \A g \in Gridsets : g # k[1] => Listed(g)' = Listed(g)
        /\ But(Listed(k[1])', k[2]) = But(Listed(k[1]), k[2])
    <2>. QED  BY <1>0, <1>2, ListedChanges
  <1>6. SayAllBut(r)'
    <2>0. UNCHANGED twins
      BY DEF Truncate, history
    <2> SUFFICES ASSUME NEW g \in Gridsets
                 PROVE  IF g = k[1] THEN SaysBut(EntriesOf(g), g, k[2])' ELSE Says(EntriesOf(g), g)'
      BY <1>4 DEF SayAllBut, SaysBut, Says, But
    <2>1. EntriesOf(g)' = EntriesOf(g) /\ Says(EntriesOf(g), g)
      BY <1>4, SameEntries DEF SayAll
    <2>2. SaysBut(EntriesOf(g), g, k[2])
      BY <2>1 DEF SaysBut, Says, But
    <2>3. CASE g = k[1]
      BY <1>5, <2>0, <2>1, <2>2, <2>3 DEF SaysBut, But
    <2>4. CASE g # k[1]
      BY <1>5, <2>0, <2>1, <2>4 DEF Says
    <2>. QED  BY <2>3, <2>4
  <1>. QED  BY <1>3, <1>4, <1>6 DEF ToldBy, Told, Idle

LEMMA ReadingTold ==
  ASSUME Basic, NEW r \in Requests, Told(r), Stat(r) \/ Read(r)
  PROVE  ToldBy(r)'
  <1>1. UNCHANGED files /\ UNCHANGED metas /\ UNCHANGED twins /\ SayAll
    BY DEF Stat, Read, Told, history
  <1>2. pc'[r] \in {"done", "read"}
    BY DEF Stat, Read, Goto, Basic, TypeOK
  <1>3. SayAll'
    BY <1>1, SameListed, SameEntries DEF SayAll, Says
  <1>. QED  BY <1>2, <1>3 DEF ToldBy, Told, Idle

LEMMA FillTold ==
  ASSUME Basic, Basic', NEW r \in Requests, Told(r), Fill(r)
  PROVE  ToldBy(r)'
  <1>k. PICK k \in Keys : k = key[r]
    BY DEF Basic, Fill, InPlace
  <1> DEFINE v == [size |-> size[r], mtime |-> clock', writers |-> files[k].writers \ {r}]
  <1>0. TypeOK /\ TypeOK'
    BY DEF Basic
  <1>1. /\ files[k] # NoFile /\ r \in files[k].writers /\ SayAllBut(r)
    BY <1>k DEF Told, Fill
  <1>2. files' = [files EXCEPT ![k] = v] /\ UNCHANGED <<key, size, metas>>
    BY <1>1, <1>k DEF Fill, call
  <1>3. v.size = size[r]
    OBVIOUS
  <1> HIDE DEF v
  <1>4. /\ pc'[r] = "read_meta" /\ files'[k] = v
    BY <1>0, <1>2 DEF Fill, Goto, TypeOK
  <1>a. v # NoFile
    <2>1. files[k] \in File /\ size[r] \in Sizes
      BY <1>0, <1>1, <1>k DEF TypeOK, Basic, InPlace, Fill
    <2>2. v \in File
      BY <1>0, <2>1 DEF v, File, TypeOK
    <2>. QED  BY <2>2, TileStoreAssumption
  <1>5. /\ \A g \in Gridsets : g # k[1] => Listed(g)' = Listed(g)
        /\ But(Listed(k[1])', k[2]) = But(Listed(k[1]), k[2])
    <2>. QED  BY <1>0, <1>2, ListedChanges
  <1>6. SayAllBut(r)'
    <2>0. twins' = twins \ {k}
      BY <1>1, <1>k DEF Fill, Writes
    <2> SUFFICES ASSUME NEW g \in Gridsets
                 PROVE  IF g = k[1] THEN SaysBut(EntriesOf(g), g, k[2])' ELSE Says(EntriesOf(g), g)'
      BY <1>2, <1>k DEF SayAllBut, SaysBut, Says, But
    <2>1. EntriesOf(g)' = EntriesOf(g)
      BY <1>2, SameEntries
    <2>2. IF g = k[1] THEN SaysBut(EntriesOf(g), g, k[2]) ELSE Says(EntriesOf(g), g)
      BY <1>1, <1>k DEF SayAllBut
    <2>3. CASE g = k[1]
      <3>1. \A e \in But(Listed(g), k[2]) : <<g, e.tile>> # k
        BY DEF But
      <3>. QED  BY <1>5, <2>0, <2>1, <2>2, <2>3, <3>1 DEF SaysBut, But
    <2>4. CASE g # k[1]
      <3>1. \A t : <<g, t>> # k
        BY <2>4
      <3>. QED  BY <1>5, <2>0, <2>1, <2>2, <2>4, <3>1 DEF Says
    <2>. QED  BY <2>3, <2>4
  <1>. QED  BY <1>k, <1>2, <1>3, <1>4, <1>a, <1>6 DEF ToldBy, Told, Idle

LEMMA ReadMetaTold ==
  ASSUME Basic, NEW r \in Requests, Told(r), ReadMeta(r)
  PROVE  ToldBy(r)'
  <1>k. PICK k \in Keys : k = key[r]
    BY DEF Basic, ReadMeta, InPlace
  <1> DEFINE e == [tile |-> k[2], size |-> size[r]]
  <1>0. /\ TypeOK /\ gridset[r] = k[1] /\ todo[r] = {} /\ pc[r] = "read_meta"
    BY <1>k DEF Basic, ReadMeta, InPlace
  <1>1. files[k] # NoFile /\ files[k].size = size[r] /\ SayAllBut(r)
    BY <1>0, <1>k DEF Told
  <1>2. /\ buffer'[r] = But(EntriesOf(k[1]), k[2]) \cup {e} /\ pc'[r] = "trunc_meta"
        /\ UNCHANGED <<files, metas, gridset, todo>>
    BY <1>0, <1>k DEF ReadMeta, Goto, TypeOK, But, quotaVars
  <1>3. k[1] \in Gridsets /\ Listed(k[1]) = But(Listed(k[1]), k[2]) \cup {e}
    BY <1>0, <1>1, ListedHas DEF Keys
  <1>4. ASSUME NEW g \in Gridsets
        PROVE  IF g = k[1] THEN Says(buffer'[r], g) ELSE Says(EntriesOf(g), g)
    <2>1. IF g = k[1] THEN SaysBut(EntriesOf(g), g, k[2]) ELSE Says(EntriesOf(g), g)
      BY <1>1, <1>k DEF SayAllBut
    <2>. QED  BY <1>2, <1>3, <2>1 DEF SaysBut, Says
  <1>5. \A g \in Gridsets :
          /\ Listed(g)' = Listed(g) /\ EntriesOf(g)' = EntriesOf(g)
          /\ gridset'[r] = k[1] /\ todo'[r] = {} /\ twins' = twins
    BY <1>0, <1>2, SameListed, SameEntries DEF ReadMeta, history
  <1> HIDE DEF e
  <1>. QED  BY <1>2, <1>4, <1>5 DEF ToldBy, Told, Idle, SayKept, Says

LEMMA TruncMetaTold ==
  ASSUME Basic, NEW r \in Requests, Told(r), TruncMeta(r)
  PROVE  ToldBy(r)'
  <1>0. TypeOK /\ gridset[r] \in Gridsets /\ pc[r] = "trunc_meta"
    BY DEF Basic, TruncMeta, InPlace
  <1>1. UNCHANGED <<files, buffer, gridset, todo, evicted, twins>> /\ pc'[r] = "fill_meta"
    BY <1>0 DEF TruncMeta, Goto, TypeOK, quotaVars, metaVars, history
  <1>2. /\ \A g \in Gridsets : g # gridset[r] => metas'[g] = metas[g]
        /\ metas'[gridset[r]] # NoFile /\ r \in metas'[gridset[r]].writers
    <2> DEFINE m == metas[gridset[r]]
               n == [entries |-> {}, parses |-> FALSE,
                     writers |-> {r} \cup IF m = NoFile THEN {} ELSE m.writers]
    <2>1. metas' = [metas EXCEPT ![gridset[r]] = n]
      BY DEF TruncMeta
    <2>2. m # NoFile => m \in Meta
      BY <1>0 DEF TypeOK
    <2>3. n \in Meta /\ r \in n.writers
      BY <2>2 DEF Meta
    <2> HIDE DEF n
    <2>4. n # NoFile
      BY <2>3, TileStoreAssumption
    <2>. QED  BY <1>0, <2>1, <2>3, <2>4 DEF TypeOK
  <1>3. \A g \in Gridsets : g # gridset[r] => EntriesOf(g)' = EntriesOf(g)
    BY <1>2 DEF EntriesOf
  <1>4. \A g \in Gridsets : g # gridset[r] => Kept(g, r)' = Kept(g, r)
    BY <1>1, <1>3 DEF Kept
  <1>5. \A g : Listed(g)' = Listed(g)
    BY <1>1, SameListed
  <1>6. \A g \in Gridsets : IF g = gridset[r] THEN Says(buffer[r], g) ELSE SayKept(r, g, todo[r])
    BY <1>0 DEF Told
  <1>7. \A g \in Gridsets : (IF g = gridset[r] THEN Says(buffer[r], g) ELSE SayKept(r, g, todo[r]))'
    BY <1>1, <1>3, <1>4, <1>5, <1>6 DEF Says, SayKept
  <1>. QED  BY <1>1, <1>2, <1>7 DEF ToldBy, Told, Idle

LEMMA FillMetaTold ==
  ASSUME Basic, NEW r \in Requests, Told(r), FillMeta(r)
  PROVE  ToldBy(r)'
  <1>0. /\ TypeOK /\ gridset[r] \in Gridsets /\ gridset[r] \notin todo[r] /\ pc[r] = "fill_meta"
        /\ metas[gridset[r]] # NoFile /\ r \in metas[gridset[r]].writers
    BY DEF Basic, FillMeta, InPlace, Told
  <1>1. /\ UNCHANGED <<files, buffer, gridset, todo, evicted, twins>>
        /\ pc'[r] = IF evicted[r] = {} THEN "collect" ELSE "sync"
    BY <1>0 DEF FillMeta, Goto, TypeOK, quotaVars, metaVars, history
  <1>2. /\ \A g \in Gridsets : g # gridset[r] => metas'[g] = metas[g]
        /\ EntriesOf(gridset[r])' = buffer[r]
    <2> DEFINE m == metas[gridset[r]]
               n == [entries |-> buffer[r], parses |-> TRUE, writers |-> m.writers \ {r}]
    <2>1. metas' = [metas EXCEPT ![gridset[r]] = n]
      BY <1>0 DEF FillMeta
    <2>2. m \in Meta
      BY <1>0 DEF TypeOK
    <2>3. n \in Meta /\ n.entries = buffer[r] /\ n.parses
      BY <1>0, <2>2 DEF Meta, TypeOK
    <2> HIDE DEF n
    <2>4. n # NoFile
      BY <2>3, TileStoreAssumption
    <2>5. metas'[gridset[r]] = n /\ gridset'[r] = gridset[r]
      BY <1>0, <1>1, <2>1 DEF TypeOK
    <2>. QED  BY <1>0, <2>1, <2>3, <2>4, <2>5 DEF TypeOK, EntriesOf
  <1>3. \A g \in Gridsets : g # gridset[r] => EntriesOf(g)' = EntriesOf(g) /\ Kept(g, r)' = Kept(g, r)
    BY <1>1, <1>2 DEF EntriesOf, Kept
  <1>4. \A g : Listed(g)' = Listed(g)
    BY <1>1, SameListed
  <1>5. \A g \in Gridsets : IF g = gridset[r] THEN Says(buffer[r], g) ELSE SayKept(r, g, todo[r])
    BY <1>0 DEF Told
  <1>6. \A g \in Gridsets : SayKept(r, g, todo[r])'
    BY <1>0, <1>1, <1>2, <1>3, <1>4, <1>5 DEF Says, SayKept
  <1>7. CASE evicted[r] = {}
    <2>1. \A g \in Gridsets : Kept(g, r)' = EntriesOf(g)'
      BY <1>1, <1>7 DEF Kept
    <2>2. SayAll'
      BY <1>6, <2>1 DEF SayAll, SayKept
    <2>. QED  BY <1>1, <1>7, <2>2 DEF ToldBy, Told, Idle
  <1>8. CASE evicted[r] # {}
    BY <1>1, <1>6, <1>8 DEF ToldBy, Told, Idle
  <1>. QED  BY <1>7, <1>8

LEMMA CollectTold ==
  ASSUME Basic, NEW r \in Requests, Told(r), Collect(r)
  PROVE  ToldBy(r)'
  <1>0. TypeOK /\ SayAll /\ evicted[r] = {}
    BY DEF Basic, Collect, InPlace, Told
  <1>1. UNCHANGED <<files, metas, evicted, twins>> /\ pc'[r] \in {"done", "evict"}
    BY <1>0 DEF Collect, Goto, TypeOK
  <1>2. SayAll'
    BY <1>0, <1>1, SameListed, SameEntries DEF SayAll, Says
  <1>3. \A g \in Gridsets : Kept(g, r)' = EntriesOf(g)'
    BY <1>0, <1>1 DEF Kept
  <1>4. \A g \in Gridsets : SayKept(r, g, Gridsets)'
    BY <1>2, <1>3 DEF SayAll, SayKept
  <1>. QED  BY <1>1, <1>2, <1>4 DEF ToldBy, Told, Idle

LEMMA EvictTold ==
  ASSUME Basic, InTurn, past = {}, past' = {}, NEW r \in Requests, Told(r), Evict(r)
  PROVE  ToldBy(r)'
  <1>0. TypeOK /\ pc[r] = "evict" /\ pc'[r] = "evict" /\ UNCHANGED metas
    BY DEF Basic, Evict
  <1>1. PICK k \in Keys : /\ files[k] # NoFile /\ files' = [files EXCEPT ![k] = NoFile]
                          /\ evicted' = [evicted EXCEPT ![r] = @ \cup {k[2]}]
                          /\ twins' = twins \cup {j \in Keys : j[2] = k[2] /\ j # k}
    <2>1. listing[r] = Found /\ total[r] = Cardinality(BytesOf(listing[r]))
      BY <1>0 DEF InTurn
    <2>. QED  BY <2>1, EvictInTurn DEF Present
  <1>2. k[1] \in Gridsets /\ k[2] \in Tiles
    BY DEF Keys
  <1>3. evicted'[r] = evicted[r] \cup {k[2]}
    BY <1>0, <1>1 DEF TypeOK
  <1>4. \A g \in Gridsets : EntriesOf(g)' = EntriesOf(g)
    BY <1>0, SameEntries
  <1>5. \A g \in Gridsets : Kept(g, r)' = But(Kept(g, r), k[2])
    BY <1>3, <1>4 DEF Kept, But
  <1>6. /\ \A g \in Gridsets : g # k[1] => Listed(g)' = Listed(g)
        /\ Listed(k[1])' = But(Listed(k[1]), k[2])
    BY <1>0, <1>1, ListedChanges
  <1>7. \A g \in Gridsets : Says(Kept(g, r), g)
    BY <1>0 DEF Told, SayKept
  <1>8. \A g \in Gridsets : g # k[1] => <<g, k[2]>> \in twins'
    <2> SUFFICES ASSUME NEW g \in Gridsets, g # k[1] PROVE <<g, k[2]>> \in twins'
      OBVIOUS
    <2> DEFINE j == <<g, k[2]>>
    <2>1. j \in Keys /\ j[2] = k[2] /\ j # k
      BY <1>2 DEF Keys
    <2>. QED  BY <1>1, <2>1
  <1>9. ASSUME NEW g \in Gridsets PROVE Says(Kept(g, r), g)'
    <2>1. /\ Kept(g, r) \subseteq Listed(g) /\ twins \subseteq twins'
          /\ \A e \in Listed(g) \ Kept(g, r) : <<g, e.tile>> \in twins
      BY <1>1, <1>7 DEF Says
    <2>2. CASE g = k[1]
      BY <1>5, <1>6, <2>1, <2>2 DEF Says, But
    <2>3. CASE g # k[1]
      BY <1>5, <1>6, <1>8, <2>1, <2>3 DEF Says, But
    <2>. QED  BY <2>2, <2>3
  <1>10. \A g \in Gridsets : SayKept(r, g, Gridsets)'
    BY <1>9 DEF SayKept
  <1>. QED  BY <1>0, <1>10 DEF ToldBy, Told, Idle

LEMMA EvictEndsTold ==
  ASSUME Basic, NEW r \in Requests, Told(r), EvictEnds(r)
  PROVE  ToldBy(r)'
  <1>0. TypeOK /\ pc[r] = "evict" /\ UNCHANGED <<files, metas, evicted, twins>>
    BY DEF Basic, EvictEnds
  <1>1. /\ \A g : Listed(g)' = Listed(g)
        /\ \A g : EntriesOf(g)' = EntriesOf(g)
        /\ \A g : Kept(g, r)' = Kept(g, r)
    BY <1>0, SameListed, SameEntries DEF Kept
  <1>a. /\ \A g : Says(EntriesOf(g), g)' <=> Says(EntriesOf(g), g)
        /\ \A g : Says(Kept(g, r), g)' <=> Says(Kept(g, r), g)
    BY <1>0, <1>1 DEF Says
  <1>2. \A g \in Gridsets : Says(Kept(g, r), g)
    BY <1>0 DEF Told, SayKept
  <1>3. CASE evicted[r] = {}
    <2>1. pc'[r] = "done"
      BY <1>0, <1>3 DEF EvictEnds, Goto, TypeOK
    <2>2. \A g \in Gridsets : Kept(g, r) = EntriesOf(g)
      BY <1>3 DEF Kept
    <2>3. SayAll'
      BY <1>a, <1>2, <2>2 DEF SayAll
    <2>. QED  BY <2>1, <2>3 DEF ToldBy, Idle
  <1>4. CASE evicted[r] # {}
    <2>1. pc'[r] = "sync" /\ todo'[r] = {g \in Gridsets : metas[g] # NoFile}
      BY <1>0, <1>4 DEF EvictEnds, Goto, TypeOK
    <2>2. \A g \in Gridsets : g \notin todo'[r] => Kept(g, r) = EntriesOf(g)
      BY <2>1 DEF Kept, EntriesOf
    <2>3. \A g \in Gridsets : SayKept(r, g, todo[r])'
      BY <1>a, <1>2, <2>2 DEF SayKept
    <2>. QED  BY <2>1, <2>3 DEF ToldBy, Told, Idle
  <1>. QED  BY <1>3, <1>4

LEMMA SyncReadTold ==
  ASSUME Basic, NEW r \in Requests, Told(r), SyncRead(r)
  PROVE  ToldBy(r)'
  <1>0. TypeOK /\ pc[r] = "sync" /\ UNCHANGED <<files, metas, evicted, twins>>
    BY DEF Basic, SyncRead, history
  <1>1. /\ \A g : Listed(g)' = Listed(g)
        /\ \A g : EntriesOf(g)' = EntriesOf(g)
        /\ \A g : Kept(g, r)' = Kept(g, r)
    BY <1>0, SameListed, SameEntries DEF Kept
  <1>a. /\ \A g : Says(EntriesOf(g), g)' <=> Says(EntriesOf(g), g)
        /\ \A g : Says(Kept(g, r), g)' <=> Says(Kept(g, r), g)
    BY <1>0, <1>1 DEF Says
  <1>2. \A g \in Gridsets : SayKept(r, g, todo[r])
    BY <1>0 DEF Told
  <1>3. CASE todo[r] = {}
    <2>1. pc'[r] = "done"
      BY <1>0, <1>3 DEF SyncRead, Goto, TypeOK
    <2>2. SayAll'
      BY <1>a, <1>2, <1>3 DEF SayAll, SayKept
    <2>. QED  BY <2>1, <2>2 DEF ToldBy, Idle
  <1>4. ASSUME NEW g \in todo[r], todo' = [todo EXCEPT ![r] = @ \ {g}],
               metas[g] = NoFile \/ ~metas[g].parses, UNCHANGED pc
        PROVE  ToldBy(r)'
    <2>1. todo'[r] = todo[r] \ {g} /\ pc'[r] = "sync"
      BY <1>0, <1>4 DEF TypeOK
    <2>2. Kept(g, r) = EntriesOf(g)
      BY <1>4 DEF Kept, EntriesOf
    <2>3. \A h \in Gridsets : SayKept(r, h, todo[r])'
      BY <1>a, <1>2, <2>1, <2>2 DEF SayKept
    <2>. QED  BY <2>1, <2>3 DEF ToldBy, Told, Idle
  <1>5. ASSUME NEW g \in todo[r], todo' = [todo EXCEPT ![r] = @ \ {g}],
               metas[g] # NoFile, metas[g].parses,
               gridset' = [gridset EXCEPT ![r] = g],
               buffer' = [buffer EXCEPT ![r] = {e \in metas[g].entries : e.tile \notin evicted[r]}],
               Goto(r, "trunc_meta")
        PROVE  ToldBy(r)'
    <2>1. /\ todo'[r] = todo[r] \ {g} /\ pc'[r] = "trunc_meta" /\ gridset'[r] = g
          /\ buffer'[r] = Kept(g, r) /\ g \in Gridsets
      BY <1>0, <1>5 DEF TypeOK, Goto, Kept, EntriesOf
    <2>2. Says(buffer[r], g)'
      <3>1. Says(Kept(g, r), g)
        BY <1>2, <1>5, <2>1 DEF SayKept
      <3>. QED  BY <1>0, <1>1, <2>1, <3>1 DEF Says
    <2>3. \A h \in Gridsets : h # g => SayKept(r, h, todo[r])'
      BY <1>a, <1>2, <2>1 DEF SayKept
    <2>. QED  BY <2>1, <2>2, <2>3 DEF ToldBy, Told, Idle
  <1>. QED  BY <1>3, <1>4, <1>5 DEF SyncRead

LEMMA ClearTold ==
  ASSUME Basic, NEW r \in Requests, Told(r), RemoveDir(r) \/ RemoveMetas(r), past' = {}
  PROVE  ToldBy(r)'
  <1>0. TypeOK
    BY DEF Basic
  <1>1. CASE RemoveDir(r)
    <2>1. pc'[r] = "clear_meta" /\ \A k \in Keys : files'[k] = NoFile
      <3>1. PICK gone \in SUBSET Present :
              /\ files' = [k \in Keys |-> IF k \in gone THEN NoFile ELSE files[k]]
              /\ gone = Present /\ Goto(r, "clear_meta")
        BY <1>1 DEF RemoveDir, Notes, Fails
      <3>. QED  BY <1>0, <3>1 DEF Goto, TypeOK, Present
    <2>2. Present' = {}
      BY <2>1 DEF Present
    <2>. QED  BY <2>1, <2>2 DEF ToldBy, Told, Idle
  <1>2. CASE RemoveMetas(r)
    <2>1. /\ pc[r] = "clear_meta" /\ pc'[r] = "done" /\ UNCHANGED files
          /\ \A g \in Gridsets : metas'[g] = NoFile
      BY <1>0, <1>2 DEF RemoveMetas, Goto, TypeOK
    <2>2. Present' = {}
      BY <2>1 DEF Told, Present
    <2>3. \A g \in Gridsets : Listed(g)' = {} /\ EntriesOf(g)' = {}
      BY <2>1, <2>2 DEF Listed, EntriesOf
    <2>4. SayAll'
      BY <2>3 DEF SayAll, Says
    <2>. QED  BY <2>1, <2>4 DEF ToldBy, Idle
  <1>. QED  BY <1>1, <1>2

LEMMA MetasToldStep ==
  Basic /\ Basic' /\ InTurn /\ MetasTold /\ [Next]_vars => MetasTold'
  <1> SUFFICES ASSUME Basic, Basic', InTurn, MetasTold, [Next]_vars, past' = {} PROVE MetasTold'
    BY DEF MetasTold
  <1>0. TypeOK /\ past = {}
    BY PastGrows DEF Basic
  <1>1. ASSUME NEW r \in Requests, Arrive(r) PROVE MetasTold'
    <2>1. Quiet /\ \A q \in Requests : q # r => Idle(q)'
      BY <1>1, ArrivesAlone DEF Quiet, Idle
    <2>2. SayAll
      BY <1>0, <2>1 DEF MetasTold
    <2>3. ToldBy(r)'
      BY <1>1, <2>2, LookupTold, TruncateTold DEF Arrive
    <2>. QED  BY <2>1, <2>3, ToldAlone
  <1>2. ASSUME NEW r \in Requests, Go(r) PROVE MetasTold'
    <2>1. ~Idle(r) /\ \A q \in Requests : q # r => Idle(q)'
      BY <1>0, <1>2, GoesOnAlone DEF InTurn, Idle
    <2>2. Told(r)
      BY <1>0, <2>1 DEF MetasTold
    <2>3. ToldBy(r)'
      BY <1>0, <1>2, <2>2, ReadingTold, FillTold, ReadMetaTold, TruncMetaTold, FillMetaTold, CollectTold,
         EvictTold, EvictEndsTold, SyncReadTold, ClearTold DEF Go
    <2>. QED  BY <2>1, <2>3, ToldAlone
  <1>3. ASSUME NEW r \in Requests, WriteFails(r) \/ MetaFails(r) PROVE MetasTold'
    BY <1>3 DEF WriteFails, MetaFails, Fails
  <1>7. ASSUME NEW r \in Requests, Drop(r) PROVE MetasTold'
    <2>1. /\ pc[r] \in {"stat", "read"} /\ pc'[r] = "done"
          /\ \A q \in Requests : q # r => pc'[q] = pc[q]
          /\ UNCHANGED <<files, metas, twins>>
      BY <1>7, DropsAlone
    <2>2. Told(r) /\ \A q \in Requests : q # r => Idle(q)
      BY <1>0, <2>1 DEF MetasTold, InTurn, Idle
    <2>3. SayAll'
      BY <2>1, <2>2, SameListed, SameEntries DEF Told, SayAll, Says
    <2>. QED  BY <2>1, <2>2, <2>3 DEF MetasTold, Idle
  <1>4. ASSUME NEW k \in Keys, RemoveExpired(k) PROVE MetasTold'
    BY <1>4 DEF RemoveExpired, Notes
  <1>5. CASE Crash
    BY <1>5 DEF Crash, Fails
  <1>6. CASE Tick \/ UNCHANGED vars
    <2>1. UNCHANGED <<files, metas, pc, key, size, evicted, todo, gridset, buffer, twins>>
      BY <1>6 DEF Tick, vars, quotaVars, metaVars, call, history
    <2>. QED
      BY <1>0, <2>1 DEF MetasTold, Quiet, Idle, Told, SayAll, SayAllBut, SaysBut, SayKept, Says, But, Kept,
         EntriesOf, Listed, Present
  <1>. QED  BY <1>1, <1>2, <1>3, <1>4, <1>5, <1>6, <1>7 DEF Next

LEMMA MetasToldInit ==
  Init => MetasTold
  <1> SUFFICES ASSUME Init PROVE MetasTold
    OBVIOUS
  <1>1. \A r \in Requests : Idle(r)
    BY DEF Init, Idle
  <1>2. \A g \in Gridsets : Listed(g) \subseteq Entries
    BY DEF Init, Listed, Present, Entries, Keys
  <1>3. ASSUME NEW g \in Gridsets PROVE EntriesOf(g) = Listed(g)
    <2> DEFINE n == [entries |-> Listed(g), parses |-> TRUE, writers |-> {}]
    <2>1. n \in Meta
      BY <1>2 DEF Meta
    <2>2. n # NoFile /\ n.entries = Listed(g) /\ n.parses
      BY <2>1, TileStoreAssumption
    <2> HIDE DEF n
    <2>3. metas[g] = IF Listed(g) = {} THEN NoFile ELSE n
      BY DEF Init, n
    <2>. QED  BY <2>2, <2>3 DEF EntriesOf
  <1>. QED  BY <1>1, <1>3 DEF MetasTold, SayAll, Says

\* After calls in turn of which none is dropped, fails or expires, the metastores
\* list what is on disk and nothing else, and miss only tiles since whose writing
\* one of the same coordinates was evicted in another gridset (enforce_quota): for
\* every number of gridsets.
THEOREM TilesMetaRecords == Spec => []MetaRecordsInTurn
  <1>1. Init => InTurn
    BY DEF Init, InTurn, Idle
  <1>2. MetasTold => MetaRecordsInTurn
    BY DEF MetasTold, SayAll, Says, MetaRecordsInTurn
  <1>. QED  BY <1>1, <1>2, BasicInit, BasicStep, InTurnStep, MetasToldInit, MetasToldStep, PTL DEF Spec

-----------------------------------------------------------------------------
(* SeedJobs.                                                               *)

\* What the worker's place says about its count, its outcome and its row.
WorkerOK(j) ==
  /\ done[j] <= count[j] /\ count[j] <= Size(j)
  /\ worker[j] = "none" <=> status[j] = "none"
  /\ worker[j] = "spawned" => count[j] = 0
  /\ worker[j] = "none" => count[j] = 0
  /\ worker[j] \notin {"none", "spawned"} => tilesTotal[j] = Size(j)
  /\ worker[j] \in {"render", "count", "stuck"} => count[j] < Size(j)
  /\ worker[j] \in {"spawned", "loop", "render", "count", "stuck", "leave", "report", "finish"}
       => status[j] \in {"Pending", "Running", "Cancelled"}
  /\ worker[j] = "leave" /\ status[j] # "Cancelled" => count[j] = Size(j)
  /\ worker[j] \in {"report", "finish", "ended"} => outcome[j] # "none"
  /\ outcome[j] = "Completed" => count[j] = Size(j)
  /\ outcome[j] # "none" => worker[j] \in {"report", "finish", "ended"}
  /\ worker[j] \in {"finish", "ended"} => done[j] = count[j]
  /\ worker[j] = "ended" => status[j] \in {outcome[j], "Cancelled"}

JobsInv == SeedTypeOK /\ \A j \in Jobs : WorkerOK(j)

-----------------------------------------------------------------------------
LEMMA SizeNat == ASSUME SeedTypeOK, NEW j \in Jobs PROVE Size(j) \in Nat
BY SeedJobsAssumption DEF SeedTypeOK, Size, SeedRequests

LEMMA InitJobsInv == SeedInit => JobsInv
<1> SUFFICES ASSUME SeedInit PROVE JobsInv
  OBVIOUS
<1>1. SeedTypeOK
  BY DEF SeedInit, SeedTypeOK
<1>2. ASSUME NEW j \in Jobs PROVE WorkerOK(j)
  <2>1. /\ status[j] = "none" /\ worker[j] = "none" /\ outcome[j] = "none"
        /\ done[j] = 0 /\ count[j] = 0
    BY DEF SeedInit
  <2>2. QED
    BY <2>1, <1>1, SizeNat DEF WorkerOK
<1>3. QED
  BY <1>1, <1>2 DEF JobsInv

\* A step of one job says nothing about the others.
LEMMA OthersOK ==
  ASSUME JobsInv, NEW j \in Jobs, NEW i \in Jobs, i # j,
         request' = request,
         status'[i] = status[i], tilesTotal'[i] = tilesTotal[i], done'[i] = done[i],
         worker'[i] = worker[i], count'[i] = count[i], outcome'[i] = outcome[i]
  PROVE  WorkerOK(i)'
BY DEF JobsInv, WorkerOK, Size

LEMMA StepJobsInv == JobsInv /\ [SeedNext]_seedVars => JobsInv'
<1> SUFFICES ASSUME JobsInv, [SeedNext]_seedVars PROVE JobsInv'
  OBVIOUS
<1> USE DEF JobsInv
<1>0. \A j \in Jobs : Size(j) \in Nat
  BY SizeNat
<1>1. CASE UNCHANGED seedVars
  BY <1>1 DEF seedVars, SeedTypeOK, WorkerOK, Size
<1>2. ASSUME NEW S, Leave(S) PROVE JobsInv'
  <2>1. UNCHANGED <<request, status, tilesTotal, done, worker, count, outcome, cancelled>>
        /\ cache' \subseteq cache
    BY <1>2 DEF Leave
  <2>2. \A j \in Jobs : Rendered(j) \subseteq Nat
    BY DEF Rendered
  <2>3. lost' \subseteq Jobs \X Nat
    BY <1>2, <2>2 DEF Leave, SeedTypeOK
  <2>4. SeedTypeOK'
    BY <2>1, <2>3 DEF SeedTypeOK
  <2>5. \A j \in Jobs : WorkerOK(j)'
    BY <2>1 DEF WorkerOK, Size
  <2>6. QED
    BY <2>4, <2>5
<1>3. ASSUME NEW j \in Jobs, Create(j) \/ Cancel(j) \/ Work(j) \/ Hang(j) PROVE JobsInv'
  <2>1. /\ status \in [Jobs -> {"none", "Pending", "Running", "Completed", "Cancelled"}]
        /\ tilesTotal \in [Jobs -> Nat] /\ done \in [Jobs -> Nat] /\ count \in [Jobs -> Nat]
        /\ worker \in [Jobs -> {"none", "spawned", "loop", "render", "stuck",
                                "count", "leave", "report", "finish", "ended"}]
        /\ outcome \in [Jobs -> {"none", "Completed", "Cancelled"}]
    BY DEF SeedTypeOK
  <2>2. request' = request /\ Size(j)' = Size(j)
    BY <1>3 DEF Create, Cancel, Work, Begin, CheckTile, RenderTile, CountTile, Hang,
                LeaveLoop, Report, Finish, Size
  <2>3. ASSUME NEW i \in Jobs, i # j PROVE WorkerOK(i)'
    <3>1. /\ status'[i] = status[i] /\ tilesTotal'[i] = tilesTotal[i] /\ done'[i] = done[i]
          /\ worker'[i] = worker[i] /\ count'[i] = count[i] /\ outcome'[i] = outcome[i]
      BY <1>3, <2>1, <2>3 DEF Create, Cancel, Work, Begin, CheckTile, RenderTile,
                              CountTile, Hang, LeaveLoop, Report, Finish
    <3>2. QED
      BY <2>2, <2>3, <3>1, OthersOK
  <2>4. SeedTypeOK' /\ WorkerOK(j)'
    <3> USE <1>0, <2>1, <2>2
    <3>1. CASE Create(j)
      BY <3>1 DEF Create, SeedTypeOK, WorkerOK
    <3>2. CASE Cancel(j)
      BY <3>2 DEF Cancel, SeedTypeOK, WorkerOK
    <3>3. CASE Begin(j)
      BY <3>3 DEF Begin, SeedTypeOK, WorkerOK
    <3>4. CASE CheckTile(j)
      BY <3>4 DEF CheckTile, SeedTypeOK, WorkerOK
    <3>5. CASE RenderTile(j)
      <4>1. count[j] < Size(j) /\ count[j] + 1 \in 1..Size(j)
        BY <3>5 DEF RenderTile, WorkerOK
      <4>2. cache' \subseteq AllTiles
        <5>1. request[j] \in SeedRequests
          BY DEF SeedTypeOK
        <5>2. Tile(j, count[j] + 1) \in AllTiles
          BY <4>1, <5>1 DEF AllTiles, SeedRequests, Size, Tile
        <5>3. QED
          BY <3>5, <5>2 DEF RenderTile, SeedTypeOK
      <4>3. lost' \subseteq Jobs \X Nat
        BY <3>5, <4>1 DEF RenderTile, SeedTypeOK
      <4>4. QED
        BY <3>5, <4>1, <4>2, <4>3 DEF RenderTile, SeedTypeOK, WorkerOK
    <3>a. CASE Hang(j)
      BY <3>a DEF Hang, SeedTypeOK, WorkerOK
    <3>b. CASE CountTile(j)
      <4>1. count' = [count EXCEPT ![j] = count[j] + 1] /\ count[j] + 1 <= Size(j)
        BY <3>b DEF CountTile, WorkerOK
      <4>2. done' \in [Jobs -> Nat] /\ done'[j] \in {done[j], count'[j]}
        BY <3>b, <4>1 DEF CountTile
      <4>3. QED
        BY <3>b, <4>1, <4>2 DEF CountTile, SeedTypeOK, WorkerOK
    <3>6. CASE LeaveLoop(j)
      BY <3>6 DEF LeaveLoop, SeedTypeOK, WorkerOK
    <3>7. CASE Report(j)
      BY <3>7 DEF Report, SeedTypeOK, WorkerOK
    <3>8. CASE Finish(j)
      BY <3>8 DEF Finish, SeedTypeOK, WorkerOK
    <3>9. QED
      BY <1>3, <3>1, <3>2, <3>3, <3>4, <3>5, <3>a, <3>b, <3>6, <3>7, <3>8 DEF Work
  <2>5. QED
    BY <2>3, <2>4
<1>4. QED
  BY <1>1, <1>2, <1>3 DEF SeedNext, Handle, TruncateTiles, Forget

THEOREM AlwaysJobsInv == SeedSpec => []JobsInv
BY InitJobsInv, StepJobsInv, PTL DEF SeedSpec

\* Every variable keeps its type in every reachable state.
THEOREM JobsTypeCorrect == SeedSpec => []SeedTypeOK
BY AlwaysJobsInv, PTL DEF JobsInv

\* A job that the table shows as Completed went through all of its tiles,
\* whatever cancellations raced run_seed_job.
THEOREM Completed == SeedSpec => []CompletedIsWhole
<1>1. JobsInv => CompletedIsWhole
  BY DEF JobsInv, SeedTypeOK, WorkerOK, CompletedIsWhole
<1>2. QED
  BY <1>1, AlwaysJobsInv, PTL

\* A worker that looks at its row between tiles begins no tile of a job that
\* the row shows as Cancelled.
THEOREM CancelStops == SeedSpec => NoTileAfterCancel
<1> DEFINE A == \A j \in Jobs : status[j] = "Cancelled" /\ worker[j] # "render"
                                  => worker'[j] # "render"
<1>1. JobsInv /\ [SeedNext]_seedVars => [A]_seedVars
  <2> SUFFICES ASSUME JobsInv, SeedNext, NEW j \in Jobs,
                      status[j] = "Cancelled", worker[j] # "render"
               PROVE  worker'[j] # "render"
    OBVIOUS
  <2>1. worker \in [Jobs -> {"none", "spawned", "loop", "render", "stuck",
                             "count", "leave", "report", "finish", "ended"}]
    BY DEF JobsInv, SeedTypeOK
  <2>2. QED
    BY <2>1 DEF SeedNext, Handle, Work, Create, Cancel, TruncateTiles, Forget, Leave, Begin,
                CheckTile, RenderTile, CountTile, Hang, LeaveLoop, Report, Finish
<1>2. QED
  BY <1>1, AlwaysJobsInv, PTL DEF SeedSpec, NoTileAfterCancel

\* A job whose worker has ended is left alone by late cancellations and by
\* everything else (cancel_seed_job looks at the status first).
THEOREM EndedStays == SeedSpec => EndedIsFinal
<1> DEFINE A == \A j \in Jobs : worker[j] = "ended" =>
                  status'[j] = status[j] /\ done'[j] = done[j] /\ worker'[j] = "ended"
<1>1. JobsInv /\ [SeedNext]_seedVars => [A]_seedVars
  <2> SUFFICES ASSUME JobsInv, SeedNext, NEW j \in Jobs, worker[j] = "ended"
               PROVE  status'[j] = status[j] /\ done'[j] = done[j] /\ worker'[j] = "ended"
    OBVIOUS
  <2>1. status[j] \in {"Completed", "Cancelled"}
    BY DEF JobsInv, SeedTypeOK, WorkerOK
  <2>2. CASE \E S : Leave(S)
    BY <2>2 DEF Leave
  <2>3. ASSUME NEW i \in Jobs, Create(i) \/ Cancel(i) \/ Work(i) \/ Hang(i)
        PROVE  status'[j] = status[j] /\ done'[j] = done[j] /\ worker'[j] = "ended"
    <3>1. i # j
      BY <2>1, <2>3 DEF Work, Create, Cancel, Begin, CheckTile, RenderTile, CountTile, Hang,
                        LeaveLoop, Report, Finish
    <3>2. QED
      BY <2>3, <3>1 DEF JobsInv, SeedTypeOK, Work, Create, Cancel, Begin, CheckTile, RenderTile,
                        CountTile, Hang, LeaveLoop, Report, Finish
  <2>4. QED
    BY <2>2, <2>3 DEF SeedNext, Handle, TruncateTiles, Forget
<1>2. QED
  BY <1>1, AlwaysJobsInv, PTL DEF SeedSpec, EndedIsFinal

\* What the job table shows as progress (run_seed_job) never goes back and
\* never runs ahead of the worker's count, for any interval of publishing.
THEOREM ProgressIsSound == SeedSpec => ProgressSound
<1> DEFINE A == \A j \in Jobs : done'[j] >= done[j] /\ done'[j] <= count'[j]
<1>1. JobsInv /\ [SeedNext]_seedVars => [A]_seedVars
  <2> SUFFICES ASSUME JobsInv, SeedNext, NEW j \in Jobs
               PROVE  done'[j] >= done[j] /\ done'[j] <= count'[j]
    OBVIOUS
  <2>1. /\ done \in [Jobs -> Nat] /\ count \in [Jobs -> Nat]
        /\ done[j] <= count[j]
    BY DEF JobsInv, SeedTypeOK, WorkerOK
  <2>2. CASE \E i \in Jobs : CountTile(i)
    BY <2>1, <2>2 DEF CountTile
  <2>3. CASE \E i \in Jobs : Report(i)
    BY <2>1, <2>3 DEF Report
  <2>4. CASE UNCHANGED <<done, count>>
    BY <2>1, <2>4
  <2>5. QED
    BY <2>2, <2>3, <2>4 DEF SeedNext, Handle, Work, Create, Cancel, TruncateTiles, Forget, Leave,
                            Begin, CheckTile, RenderTile, Hang, LeaveLoop, Finish
<1>2. QED
  BY <1>1, AlwaysJobsInv, PTL DEF SeedSpec, ProgressSound

-----------------------------------------------------------------------------
\* SeededIsCached, and so for the tile that is rendered but not yet counted.
RenderedIsCached ==
  \A j \in Jobs : \A t \in Rendered(j) : <<j, t>> \in lost \/ Tile(j, t) \in cache

\* A step that renders no tile and removes none keeps what is cached.
LEMMA SameTiles ==
  ASSUME RenderedIsCached, request' = request, lost \subseteq lost', cache \subseteq cache',
         \A j \in Jobs : Rendered(j)' = Rendered(j)
  PROVE  RenderedIsCached'
BY DEF RenderedIsCached, Tile

LEMMA StepSeeded == JobsInv /\ RenderedIsCached /\ [SeedNext]_seedVars => RenderedIsCached'
<1> SUFFICES ASSUME JobsInv, RenderedIsCached, [SeedNext]_seedVars PROVE RenderedIsCached'
  OBVIOUS
<1>0. worker \in [Jobs -> {"none", "spawned", "loop", "render", "stuck",
                           "count", "leave", "report", "finish", "ended"}]
      /\ count \in [Jobs -> Nat]
  BY DEF JobsInv, SeedTypeOK
<1>1. CASE UNCHANGED seedVars
  BY <1>1, SameTiles DEF seedVars, Rendered
<1>2. ASSUME NEW S, Leave(S) PROVE RenderedIsCached'
  <2> SUFFICES ASSUME NEW j \in Jobs, NEW t \in Rendered(j)', <<j, t>> \notin lost'
               PROVE  Tile(j, t)' \in cache'
    BY DEF RenderedIsCached
  <2>1. t \in Rendered(j) /\ Tile(j, t)' = Tile(j, t)
    BY <1>2 DEF Leave, Rendered, Tile
  <2>2. <<j, t>> \notin lost /\ Tile(j, t) \notin S
    BY <1>2, <2>1 DEF Leave
  <2>3. Tile(j, t) \in cache
    BY <2>1, <2>2 DEF RenderedIsCached
  <2>4. QED
    BY <1>2, <2>1, <2>2, <2>3 DEF Leave
<1>3. ASSUME NEW i \in Jobs, RenderTile(i) PROVE RenderedIsCached'
  <2> SUFFICES ASSUME NEW j \in Jobs, NEW t \in Rendered(j)', <<j, t>> \notin lost'
               PROVE  Tile(j, t)' \in cache'
    BY DEF RenderedIsCached
  <2>1. /\ request' = request /\ count' = count /\ worker' = [worker EXCEPT ![i] = "count"]
        /\ worker[i] = "render" /\ lost \subseteq lost' /\ cache \subseteq cache'
    BY <1>3 DEF RenderTile
  <2>2. Tile(j, t)' = Tile(j, t)
    BY <2>1 DEF Tile
  <2>3. CASE t \in Rendered(j)
    BY <2>1, <2>2, <2>3 DEF RenderedIsCached
  <2>4. CASE t \notin Rendered(j)
    <3>1. j = i /\ t = count[i] + 1
      BY <1>0, <2>1, <2>4 DEF Rendered
    <3>2. QED
      BY <1>3, <2>2, <3>1 DEF RenderTile
  <2>5. QED
    BY <2>3, <2>4
<1>4. ASSUME NEW i \in Jobs, CountTile(i) PROVE RenderedIsCached'
  <2>1. \A j \in Jobs : Rendered(j)' = Rendered(j)
    BY <1>0, <1>4 DEF CountTile, Rendered
  <2>2. QED
    BY <1>4, <2>1, SameTiles DEF CountTile
<1>5. ASSUME NEW i \in Jobs,
             Create(i) \/ Cancel(i) \/ Begin(i) \/ CheckTile(i) \/ Hang(i) \/ LeaveLoop(i)
               \/ Report(i) \/ Finish(i)
      PROVE  RenderedIsCached'
  <2>1. UNCHANGED <<request, count, lost, cache>>
    BY <1>5 DEF Create, Cancel, Begin, CheckTile, Hang, LeaveLoop, Report, Finish
  <2>2. \A j \in Jobs : worker'[j] = "count" <=> worker[j] = "count"
    BY <1>0, <1>5 DEF JobsInv, WorkerOK, Create, Cancel, Begin, CheckTile, Hang, LeaveLoop,
                      Report, Finish
  <2>3. \A j \in Jobs : Rendered(j)' = Rendered(j)
    BY <2>1, <2>2 DEF Rendered
  <2>4. QED
    BY <2>1, <2>3, SameTiles
<1>6. QED
  BY <1>1, <1>2, <1>3, <1>4, <1>5 DEF SeedNext, Handle, TruncateTiles, Forget, Work

\* What a worker has counted is cached, for any number of jobs that share layers
\* and gridsets, but for the tiles that did not render or are JPEGs, and for
\* those that a truncation, the quota or their age has taken out since.
THEOREM Seeded == SeedSpec => []SeededIsCached
<1>1. SeedInit => RenderedIsCached
  BY DEF SeedInit, RenderedIsCached, Rendered
<1>2. JobsInv /\ RenderedIsCached => SeededIsCached
  <2>1. \A j \in Jobs : JobsInv => 1..count[j] \subseteq Rendered(j)
    BY DEF JobsInv, SeedTypeOK, Rendered
  <2>2. QED
    BY <2>1 DEF RenderedIsCached, SeededIsCached
<1>3. QED
  BY <1>1, <1>2, AlwaysJobsInv, StepSeeded, PTL DEF SeedSpec
=============================================================================
