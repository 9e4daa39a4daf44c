----------------------------- MODULE TileStore ------------------------------
(***************************************************************************)
(* The disk tile cache of one layer (src/service/src/store/cache/tile.rs:  *)
(* LocalTileCacheBackend): the tile files, the metastore file of each      *)
(* gridset, which lists the tiles with their sizes, and the disk quota.    *)
(*                                                                         *)
(* No lock guards any of it.  get, put and clear_layer are sequences of    *)
(* file operations with an await between each two, and any number of them  *)
(* run at once.  fs::write is itself two operations: it truncates the file *)
(* and then fills it, and a file that is removed in between stays removed. *)
(* A call may end at any await, for good: its request ran out of time or   *)
(* its client went away.  The walk that lists the files of the layer is    *)
(* one step here.                                                          *)
(***************************************************************************)
EXTENDS Naturals, FiniteSets

CONSTANTS
  Gridsets,     \* gridset names
  Tiles,        \* z/x/y
  Requests,     \* requests, by number in the order they come; each makes one call
  Ops,          \* the calls they may make, among "put", "get", "clear"
  Sizes,        \* the sizes a rendered tile may have, in bytes
  Quota,        \* layer_quota_bytes, 0 for none
  ExpireAfter,  \* expire_after_secs, 0 for never
  MaxFailures,  \* how many times a file operation may fail, a call be dropped or
                \* the server crash
  MaxClock,     \* where time stops passing by itself
  NoFile        \* no such file

Keys == Gridsets \X Tiles

\* An entry is a tile that a metastore lists, with its size.
Entries == [tile : Tiles, size : Sizes]

\* Both kinds of file are empty from the moment a writer truncates them until
\* one of their writers fills them: a tile then has size 0, and a metastore
\* does not parse.  A writer keeps writing to a file it has open, removed or
\* not.
File == [size : Sizes \cup {0}, mtime : Nat, writers : SUBSET Requests]
Meta == [entries : SUBSET Entries, parses : BOOLEAN, writers : SUBSET Requests]

ASSUME TileStoreAssumption ==
  /\ Sizes \subseteq Nat \ {0}
  /\ {Quota, ExpireAfter, MaxClock, MaxFailures} \subseteq Nat
  /\ Requests \subseteq Nat
  /\ Ops \subseteq {"put", "get", "clear"}
  /\ IsFiniteSet(Gridsets) /\ IsFiniteSet(Tiles)
  /\ NoFile \notin File \cup Meta \cup Keys \cup Gridsets \cup Nat

VARIABLES
  clock,     \* file times; every write has one of its own
  dir,       \* whether the directory of the layer exists
  files,     \* [Keys -> File or NoFile]
  metas,     \* the metastore, [Gridsets -> Meta or NoFile]
  removals,  \* the files of expired tiles that spawned tasks will remove
  pc,        \* where a request is
  key,       \* the tile it is about
  size,      \* the size of the tile it puts
  listing,   \* enforce_quota: the files still to be considered
  total,     \*   the bytes they hold by its count
  evicted,   \*   the tiles it has removed
  todo,      \*   the gridsets whose metastore is still to be updated
  gridset,   \* the gridset whose metastore it is updating
  buffer,    \* the entries it has read and changed
  answer,    \* get: the size of the tile it returned, or NoFile
  failed,    \* how many failures, drops and crashes there were
  past,      \* a history: what has gone on besides calls one after the other
  unchecked, \*   the tiles written since a put has last checked them against the
             \*   quota
  covers,    \*   of those, what a running check has counted, or need not count
  twins      \*   the tiles since whose writing one of the same coordinates has
             \*   been evicted in another gridset

call == <<key, size>>
quotaVars == <<listing, total, evicted, todo>>
metaVars == <<gridset, buffer>>
pastVars == <<failed, past>>
history == <<unchecked, covers, twins>>
vars == <<clock, dir, files, metas, removals, pc, call, quotaVars, metaVars, answer,
          pastVars, history>>

Present == {k \in Keys : files[k] # NoFile}

\* Every byte of the tiles on disk, and how many there are.
OnDisk == UNION {{k} \X (1..files[k].size) : k \in Present}
Bytes == Cardinality(OnDisk)

\* Those of the tiles that a put has checked.
Checked == {b \in OnDisk : b[1] \notin unchecked}

\* What a complete metastore says of gridset g.
Listed(g) == {[tile |-> k[2], size |-> files[k].size] : k \in {k \in Present : k[1] = g}}

Idle(r) == pc[r] \in {"new", "done"}
Quiet == \A r \in Requests : Idle(r)

\* The server starts on whatever calls that were through have left.
Init ==
  /\ clock = 0
  /\ files \in [Keys -> [size : Sizes, mtime : {0}, writers : {{}}] \cup {NoFile}]
  /\ Quota > 0 => Bytes <= Quota
  /\ dir = (Present # {})
  /\ metas = [g \in Gridsets |-> IF Listed(g) = {} THEN NoFile ELSE
                 [entries |-> Listed(g), parses |-> TRUE, writers |-> {}]]
  /\ removals = {}
  /\ pc = [r \in Requests |-> "new"]
  /\ key = [r \in Requests |-> NoFile]
  /\ size = [r \in Requests |-> 0]
  /\ listing = [r \in Requests |-> {}]
  /\ total = [r \in Requests |-> 0]
  /\ evicted = [r \in Requests |-> {}]
  /\ todo = [r \in Requests |-> {}]
  /\ gridset = [r \in Requests |-> NoFile]
  /\ buffer = [r \in Requests |-> {}]
  /\ answer = [r \in Requests |-> NoFile]
  /\ failed = 0
  /\ past = {}
  /\ unchecked = {}
  /\ covers = [r \in Requests |-> {}]
  /\ twins = {}

Goto(r, where) == pc' = [pc EXCEPT ![r] = where]

Notes(event) == past' = past \cup {event} /\ UNCHANGED failed

Fails(events) ==
  /\ failed < MaxFailures
  /\ failed' = failed + 1
  /\ past' = past \cup events

\* A request begins a call, perhaps while another is running.
Arrives(r, op) ==
  pc[r] = "new" /\ op \in Ops /\ \A q \in Requests : q < r => pc[q] # "new"

NotesOverlap == IF Quiet THEN UNCHANGED pastVars ELSE Notes("overlap")

-----------------------------------------------------------------------------
(* get                                                                     *)

\* path.exists()
Lookup(r) ==
  /\ Arrives(r, "get")
  /\ \E k \in Keys :
       /\ key' = [key EXCEPT ![r] = k]
       /\ Goto(r, IF files[k] = NoFile THEN "done" ELSE "stat")
  /\ NotesOverlap
  /\ UNCHANGED <<clock, dir, files, metas, removals, size, quotaVars, metaVars, answer, history>>

Expired(k) ==
  ExpireAfter > 0 /\ files[k] # NoFile /\ clock - files[k].mtime > ExpireAfter

\* An expired file is left to a task of its own to remove.
Stat(r) ==
  /\ pc[r] = "stat"
  /\ IF Expired(key[r])
     THEN Goto(r, "done") /\ removals' = removals \cup {key[r]}
     ELSE Goto(r, "read") /\ UNCHANGED removals
  /\ UNCHANGED <<clock, dir, files, metas, call, quotaVars, metaVars, answer, pastVars, history>>

\* fs::read.  It leaves the times the cache looks at as they are.
Read(r) ==
  /\ pc[r] = "read"
  /\ IF files[key[r]] = NoFile THEN UNCHANGED answer
     ELSE answer' = [answer EXCEPT ![r] = files[key[r]].size]
  /\ Goto(r, "done")
  /\ UNCHANGED <<clock, dir, files, metas, removals, call, quotaVars, metaVars, pastVars, history>>

\* The spawned task: whatever the file is by now, it is removed.
RemoveExpired(k) ==
  /\ k \in removals
  /\ removals' = removals \ {k}
  /\ files' = [files EXCEPT ![k] = NoFile]
  /\ Notes("expiry")
  /\ UNCHANGED <<clock, dir, metas, pc, call, quotaVars, metaVars, answer, history>>

-----------------------------------------------------------------------------
(* put                                                                     *)

\* fs::create_dir_all, and the first half of fs::write.
Truncate(r) ==
  /\ Arrives(r, "put")
  /\ clock' = clock + 1
  /\ dir' = TRUE
  /\ \E k \in Keys, n \in Sizes :
       /\ key' = [key EXCEPT ![r] = k]
       /\ size' = [size EXCEPT ![r] = n]
       /\ gridset' = [gridset EXCEPT ![r] = k[1]]
       /\ files' = [files EXCEPT ![k] =
                      [size |-> 0, mtime |-> clock',
                       writers |-> {r} \cup IF @ = NoFile THEN {} ELSE @.writers]]
  /\ Goto(r, "fill")
  /\ NotesOverlap
  /\ UNCHANGED <<metas, removals, quotaVars, buffer, answer, history>>

\* Tile k is written anew, and whoever has counted it has counted another.
Writes(k) ==
  /\ unchecked' = unchecked \cup {k}
  /\ covers' = [r \in Requests |-> covers[r] \ {k}]
  /\ twins' = twins \ {k}

\* The other half: into the file, unless it has been removed meanwhile.
Fill(r) ==
  LET f == files[key[r]] IN
  /\ pc[r] = "fill"
  /\ clock' = clock + 1
  /\ IF f # NoFile /\ r \in f.writers
     THEN /\ files' = [files EXCEPT ![key[r]] =
                         [size |-> size[r], mtime |-> clock',
                          writers |-> f.writers \ {r}]]
          /\ Writes(key[r])
     ELSE UNCHANGED <<files, history>>
  /\ Goto(r, "read_meta")
  /\ UNCHANGED <<dir, metas, removals, call, quotaVars, metaVars, answer, pastVars>>

\* The directory or the file cannot be written: the tile is not cached, though
\* a part of it may be on disk.
WriteFails(r) ==
  /\ \/ Arrives(r, "put") /\ UNCHANGED <<files, history>>
     \/ pc[r] = "fill" /\ UNCHANGED <<files, history>>
     \/ /\ pc[r] = "fill"
        /\ files[key[r]] # NoFile /\ r \in files[key[r]].writers
        /\ \E n \in Sizes : n < size[r] /\ files' = [files EXCEPT ![key[r]].size = n]
        /\ Writes(key[r])
  /\ Goto(r, "done")
  /\ Fails({"cut"})
  /\ UNCHANGED <<clock, dir, metas, removals, call, quotaVars, metaVars, answer>>

\* read_meta: what does not parse is as good as empty.
EntriesOf(g) ==
  IF metas[g] = NoFile \/ ~metas[g].parses THEN {} ELSE metas[g].entries

\* Slip: a tile that is listed already needs no check against the quota.
ReadMetaKnown(r) ==
  /\ pc[r] = "read_meta"
  /\ IF \E e \in EntriesOf(key[r][1]) : e.tile = key[r][2]
     THEN Goto(r, "done") /\ UNCHANGED buffer
     ELSE /\ buffer' = [buffer EXCEPT ![r] =
                          EntriesOf(key[r][1]) \cup {[tile |-> key[r][2], size |-> size[r]]}]
          /\ Goto(r, "trunc_meta")
  /\ UNCHANGED <<clock, dir, files, metas, removals, call, quotaVars, gridset, answer, pastVars, history>>

\* update_meta: the tile's entry replaces the one it had.
ReadMeta(r) ==
  /\ pc[r] = "read_meta"
  /\ buffer' = [buffer EXCEPT ![r] =
                  {e \in EntriesOf(key[r][1]) : e.tile # key[r][2]}
                  \cup {[tile |-> key[r][2], size |-> size[r]]}]
  /\ Goto(r, "trunc_meta")
  /\ UNCHANGED <<clock, dir, files, metas, removals, call, quotaVars, gridset, answer, pastVars, history>>

\* write_meta, for update_meta and for enforce_quota.
TruncMeta(r) ==
  LET g == gridset[r] IN
  /\ pc[r] = "trunc_meta"
  /\ metas' = [metas EXCEPT ![g] =
                 [entries |-> {}, parses |-> FALSE,
                  writers |-> {r} \cup IF @ = NoFile THEN {} ELSE @.writers]]
  /\ Goto(r, "fill_meta")
  /\ UNCHANGED <<clock, dir, files, removals, call, quotaVars, metaVars, answer, pastVars, history>>

FillMeta(r) ==
  LET g == gridset[r] IN
  /\ pc[r] = "fill_meta"
  /\ IF metas[g] # NoFile /\ r \in metas[g].writers
     THEN metas' = [metas EXCEPT ![g] =
                      [entries |-> buffer[r], parses |-> TRUE, writers |-> @.writers \ {r}]]
     ELSE UNCHANGED metas
  /\ Goto(r, IF evicted[r] = {} THEN "collect" ELSE "sync")
  /\ UNCHANGED <<clock, dir, files, removals, call, quotaVars, metaVars, answer, pastVars, history>>

\* write_meta does not tell whether it could write; the put goes on.
MetaFails(r) ==
  /\ pc[r] \in {"trunc_meta", "fill_meta"}
  /\ Goto(r, IF evicted[r] = {} THEN "collect" ELSE "sync")
  /\ Fails({"failure"})
  /\ UNCHANGED <<clock, dir, files, metas, removals, call, quotaVars, metaVars, answer, history>>

-----------------------------------------------------------------------------
(* enforce_quota, at the end of put                                        *)

\* collect_layer_files.  What is found within the quota is checked with that.
Collect(r) ==
  /\ pc[r] = "collect"
  /\ IF Quota = 0 \/ Bytes <= Quota
     THEN /\ Goto(r, "done")
          /\ unchecked' = {}
          /\ UNCHANGED <<listing, total, covers>>
     ELSE /\ Goto(r, "evict")
          /\ listing' = [listing EXCEPT ![r] =
                {[key |-> k, size |-> files[k].size, mtime |-> files[k].mtime] : k \in Present}]
          /\ total' = [total EXCEPT ![r] = Bytes]
          /\ covers' = [covers EXCEPT ![r] = Keys]
          /\ UNCHANGED unchecked
  /\ UNCHANGED <<clock, dir, files, metas, removals, call, evicted, todo, metaVars, answer, pastVars, twins>>

\* Slip: sorted the other way round.
Newest(r) == CHOOSE f \in listing[r] : \A e \in listing[r] : f.mtime >= e.mtime

Oldest(r) == CHOOSE f \in listing[r] : \A e \in listing[r] : f.mtime <= e.mtime

\* Slip: a file that cannot be removed is tried again.
EvictRetry(r) ==
  LET f == Oldest(r) IN
  /\ pc[r] = "evict" /\ total[r] > Quota /\ listing[r] # {}
  /\ IF files[f.key] = NoFile THEN UNCHANGED <<files, listing, total, evicted>>
     ELSE /\ listing' = [listing EXCEPT ![r] = @ \ {f}]
          /\ files' = [files EXCEPT ![f.key] = NoFile]
          /\ total' = [total EXCEPT ![r] = @ - f.size]
          /\ evicted' = [evicted EXCEPT ![r] = @ \cup {f.key[2]}]
  /\ UNCHANGED <<clock, dir, metas, removals, pc, call, todo, metaVars, answer, pastVars, history>>

\* The oldest file of the listing is removed.
Remove(r, f) ==
  /\ files' = [files EXCEPT ![f.key] = NoFile]
  /\ total' = [total EXCEPT ![r] = @ - f.size]
  /\ evicted' = [evicted EXCEPT ![r] = @ \cup {f.key[2]}]
  /\ twins' = twins \cup {k \in Keys : k[2] = f.key[2] /\ k # f.key}
  /\ UNCHANGED <<covers, pastVars>>

\* One that is gone already, or that cannot be removed, does not count; with the
\* latter the check misses its aim.
Evict(r) ==
  LET f == Oldest(r) IN
  /\ pc[r] = "evict" /\ total[r] > Quota /\ listing[r] # {}
  /\ listing' = [listing EXCEPT ![r] = @ \ {f}]
  /\ \/ files[f.key] # NoFile /\ Remove(r, f)
     \/ files[f.key] = NoFile /\ UNCHANGED <<files, total, evicted, covers, pastVars, twins>>
     \/ /\ files[f.key] # NoFile
        /\ Fails({"cut"})
        /\ covers' = [covers EXCEPT ![r] = {}]
        /\ UNCHANGED <<files, total, evicted, twins>>
  /\ UNCHANGED <<clock, dir, metas, removals, pc, call, todo, metaVars, answer, unchecked>>

\* Under the quota again, or nothing is left to remove.
EvictEnds(r) ==
  /\ pc[r] = "evict" /\ (total[r] <= Quota \/ listing[r] = {})
  /\ IF evicted[r] = {} THEN Goto(r, "done") /\ UNCHANGED todo
     ELSE /\ Goto(r, "sync")
          /\ todo' = [todo EXCEPT ![r] = {g \in Gridsets : metas[g] # NoFile}]
  /\ listing' = [listing EXCEPT ![r] = {}]
  /\ unchecked' = unchecked \ covers[r]
  /\ covers' = [covers EXCEPT ![r] = {}]
  /\ UNCHANGED <<clock, dir, files, metas, removals, call, total, evicted, metaVars, answer, pastVars, twins>>

\* Slip: the metastores are left as they are.
SyncReadNothing(r) ==
  /\ pc[r] = "sync"
  /\ Goto(r, "done")
  /\ UNCHANGED <<clock, dir, files, metas, removals, call, quotaVars, metaVars, answer, pastVars, history>>

\* From the metastore of every gridset, the tiles with the coordinates of
\* those evicted are dropped.
SyncRead(r) ==
  /\ pc[r] = "sync"
  /\ IF todo[r] = {}
     THEN Goto(r, "done") /\ UNCHANGED <<todo, metaVars>>
     ELSE \E g \in todo[r] :
            /\ todo' = [todo EXCEPT ![r] = @ \ {g}]
            /\ IF metas[g] = NoFile \/ ~metas[g].parses
               THEN UNCHANGED <<pc, metaVars>>
               ELSE /\ gridset' = [gridset EXCEPT ![r] = g]
                    /\ buffer' = [buffer EXCEPT ![r] =
                                    {e \in metas[g].entries : e.tile \notin evicted[r]}]
                    /\ Goto(r, "trunc_meta")
  /\ UNCHANGED <<clock, dir, files, metas, removals, call, listing, total, evicted, answer, pastVars, history>>

-----------------------------------------------------------------------------
(* clear_layer                                                             *)

StartClear(r) ==
  /\ Arrives(r, "clear")
  /\ Goto(r, IF dir THEN "clear" ELSE "done")
  /\ NotesOverlap
  /\ UNCHANGED <<clock, dir, files, metas, removals, call, quotaVars, metaVars, answer, history>>

\* remove_dir_all of the tiles.  It fails half way if a file appears in a
\* directory it has emptied, and then the metastores stay.
RemoveDir(r) ==
  /\ pc[r] = "clear"
  /\ \E gone \in SUBSET Present :
       /\ files' = [k \in Keys |-> IF k \in gone THEN NoFile ELSE files[k]]
       /\ dir' = (gone # Present)
       /\ \/ gone = Present /\ Goto(r, "clear_meta") /\ UNCHANGED pastVars
          \/ /\ gone # Present
             /\ Goto(r, "done")
             /\ \/ (\E q \in Requests \ {r} : ~Idle(q)) /\ Notes("failure")
                \/ Fails({"failure"})
  /\ UNCHANGED <<clock, metas, removals, call, quotaVars, metaVars, answer, history>>

\* remove_dir_all of the metastores.
RemoveMetas(r) ==
  /\ pc[r] = "clear_meta"
  /\ metas' = [g \in Gridsets |-> NoFile]
  /\ Goto(r, "done")
  /\ UNCHANGED <<clock, dir, files, removals, call, quotaVars, metaVars, answer, pastVars, history>>

-----------------------------------------------------------------------------
\* The call of r is dropped where it awaits: its request ran out of time, or its
\* client went away.  A write that has begun is not broken off by that: the
\* runtime carries it through on a thread of its own, as if the call had been
\* dropped after it.
Drop(r) ==
  /\ ~Idle(r) /\ pc[r] \notin {"fill", "fill_meta"}
  /\ Goto(r, "done")
  /\ Fails(CASE pc[r] \in {"stat", "read"} -> {}
             [] pc[r] \in {"clear", "clear_meta"} -> {"failure"}
             [] OTHER -> {"cut"})
  /\ covers' = [covers EXCEPT ![r] = {}]
  /\ UNCHANGED <<clock, dir, files, metas, removals, call, quotaVars, metaVars, answer,
                 unchecked, twins>>

\* The process ends at any moment; what is on disk stays as it is.
Crash ==
  /\ pc' = [r \in Requests |-> IF pc[r] = "new" THEN "new" ELSE "done"]
  /\ removals' = {}
  /\ covers' = [r \in Requests |-> {}]
  /\ Fails({"cut"})
  /\ UNCHANGED <<clock, dir, files, metas, call, quotaVars, metaVars, answer, unchecked, twins>>

Tick ==
  /\ clock < MaxClock
  /\ clock' = clock + 1
  /\ UNCHANGED <<dir, files, metas, removals, pc, call, quotaVars, metaVars, answer, pastVars, history>>

Arrive(r) == Lookup(r) \/ Truncate(r) \/ StartClear(r)

Go(r) ==
  \/ Stat(r) \/ Read(r)
  \/ Fill(r) \/ ReadMeta(r) \/ TruncMeta(r) \/ FillMeta(r)
  \/ Collect(r) \/ Evict(r) \/ EvictEnds(r) \/ SyncRead(r)
  \/ RemoveDir(r) \/ RemoveMetas(r)

Next ==
  \/ \E r \in Requests : Arrive(r) \/ Go(r) \/ WriteFails(r) \/ MetaFails(r) \/ Drop(r)
  \/ \E k \in Keys : RemoveExpired(k)
  \/ Crash \/ Tick

Spec == Init /\ [][Next]_vars

\* File operations return.
FairSpec == Spec /\ \A r \in Requests : WF_vars(Go(r))

-----------------------------------------------------------------------------
(* Every variable has its type.                                            *)
TypeOK ==
  /\ clock \in Nat /\ dir \in BOOLEAN
  /\ files \in [Keys -> File \cup {NoFile}]
  /\ metas \in [Gridsets -> Meta \cup {NoFile}]
  /\ removals \subseteq Keys
  /\ pc \in [Requests -> {"new", "stat", "read", "fill", "read_meta", "trunc_meta",
                          "fill_meta", "collect", "evict", "sync", "clear",
                          "clear_meta", "done"}]
  /\ key \in [Requests -> Keys \cup {NoFile}] /\ size \in [Requests -> Sizes \cup {0}]
  /\ listing \in [Requests -> SUBSET [key : Keys, size : Sizes \cup {0}, mtime : Nat]]
  /\ total \in [Requests -> Nat]
  /\ evicted \in [Requests -> SUBSET Tiles]
  /\ todo \in [Requests -> SUBSET Gridsets]
  /\ gridset \in [Requests -> Gridsets \cup {NoFile}]
  /\ buffer \in [Requests -> SUBSET Entries]
  /\ answer \in [Requests -> Sizes \cup {0, NoFile}]
  /\ failed \in Nat /\ past \subseteq {"overlap", "failure", "expiry", "cut"}
  /\ unchecked \subseteq Keys /\ twins \subseteq Keys
  /\ covers \in [Requests -> SUBSET Keys]

\* "Evict the oldest tiles until under quota", whatever puts, evictions, clears
\* and removals run against each other.  The tiles that a put has checked are
\* within the quota at all times, so that the first put that ends its check
\* makes good what crashes, dropped calls and failing files have left; and when
\* no call is running all are within it, unless a crash, a dropped put or a file
\* that could not be written or removed came between.
QuotaHeld ==
  Quota > 0 => /\ Cardinality(Checked) <= Quota
               /\ Quiet /\ "cut" \notin past => Bytes <= Quota

\* Every call that is not dropped ends by itself, even when others remove the
\* files it wants to remove, or they cannot be removed.
CallsEnd == \A r \in Requests : ~Idle(r) ~> Idle(r)

\* "Recording every cached tile (size + mtime)": after any number of puts,
\* evictions and clears, each begun after the one before had ended and none
\* dropped, failed or expired, the metastores list only tiles that are on disk,
\* with their sizes, and miss none, but for the tiles since whose writing one of
\* the same coordinates was evicted in another gridset: eviction forgets the
\* gridset.
MetaRecordsInTurn ==
  past = {} /\ Quiet => \A g \in Gridsets :
    /\ EntriesOf(g) \subseteq Listed(g)
    /\ \A e \in Listed(g) \ EntriesOf(g) : <<g, e.tile>> \in twins

\* "Evict the oldest tiles (by file mtime) until under quota": calls that do
\* not overlap evict only while the layer is over its quota, and what they
\* leave is at least as new as what they take.
EvictsOldestInTurn ==
  [][\A r \in Requests, k \in Keys :
       past = {} /\ listing'[r] # listing[r] /\ files[k] # NoFile /\ files'[k] = NoFile
       => /\ Bytes > Quota
          /\ \A j \in Keys : files'[j] # NoFile => files'[j].mtime >= files[k].mtime]_vars

\* "Look up a cached tile": a hit returns a tile, never the empty file of an
\* unfinished write.
HitIsWhole == \A r \in Requests : answer[r] # 0
=============================================================================
