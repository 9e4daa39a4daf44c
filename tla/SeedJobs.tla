------------------------------ MODULE SeedJobs ------------------------------
(***************************************************************************)
(* Tile seed jobs (src/service/src/utils/tile_seed.rs) and the handlers of *)
(* /tiles/seed (handlers/seed_handler.rs).                                 *)
(*                                                                         *)
(* A job is a row of the shared table AppState.seed_jobs and a background  *)
(* tokio task, its worker, that renders the tiles of the job one by one    *)
(* into the tile cache.  The worker takes the mutex of the table only for  *)
(* single reads and writes; between them the handlers may cancel the job   *)
(* or truncate the cache.                                                  *)
(***************************************************************************)
EXTENDS Naturals

CONSTANTS
  Jobs,        \* the jobs that may be created
  Layers,      \* published layers
  SeedGridsets,  \* gridset names
  Formats,     \* the formats asked for, among "png" and "jpeg"
  NTiles,      \* [SeedGridsets -> Nat]: the tiles of a job, in its zoom range
  PushEvery    \* the worker publishes its progress every so many tiles (32)

ASSUME SeedJobsAssumption ==
  /\ NTiles \in [SeedGridsets -> Nat]
  /\ PushEvery \in Nat \ {0}
  /\ Formats \subseteq {"png", "jpeg"}

VARIABLES
  request,    \* what a job was created for; fixed afterwards
  status,     \* the row: its status, "none" before the job exists,
  tilesTotal, \*   its number of tiles
  done,       \*   and its published progress
  worker,     \* where the worker of the job is; "stuck" for good if a render is
  count,      \* the worker's own count of tiles
  outcome,    \* what the worker found when it left its loop
  cancelled,  \* the jobs whose DELETE was answered with success
  cache,      \* the cached tiles, <<layer, gridset, tile>>
  lost        \* a history: which tiles of which jobs, <<job, tile>>, did not render
              \* or were JPEGs, or have left the cache since their job rendered them

seedVars == <<request, status, tilesTotal, done, worker, count, outcome, cancelled, cache, lost>>

SeedRequests == [layer : Layers, gridset : SeedGridsets, format : Formats]
AllTiles == UNION {{<<l, g, t>> : l \in Layers, t \in 1..NTiles[g]} : g \in SeedGridsets}

Size(j) == NTiles[request[j].gridset]
Tile(j, t) == <<request[j].layer, request[j].gridset, t>>

\* The tiles of job j that were rendered, the one not yet counted among them.
Rendered(j) == 1..(IF worker[j] = "count" THEN count[j] + 1 ELSE count[j])

SeedInit ==
  /\ request \in [Jobs -> SeedRequests]
  /\ status = [j \in Jobs |-> "none"]
  /\ tilesTotal = [j \in Jobs |-> 0]
  /\ done = [j \in Jobs |-> 0]
  /\ worker = [j \in Jobs |-> "none"]
  /\ count = [j \in Jobs |-> 0]
  /\ outcome = [j \in Jobs |-> "none"]
  /\ cancelled = {}
  /\ cache = {}
  /\ lost = {}

-----------------------------------------------------------------------------
(* The handlers.                                                           *)

\* create_seed_job, start_seed_job: insert the row and spawn the worker.
Create(j) ==
  /\ status[j] = "none"
  /\ status' = [status EXCEPT ![j] = "Pending"]
  /\ worker' = [worker EXCEPT ![j] = "spawned"]
  /\ UNCHANGED <<request, tilesTotal, done, count, outcome, cancelled, cache, lost>>

\* Slip: a job can be cancelled whatever its status is.
CancelAny(j) ==
  /\ status[j] # "none"
  /\ status' = [status EXCEPT ![j] = "Cancelled"]
  /\ cancelled' = cancelled \cup {j}
  /\ UNCHANGED <<request, tilesTotal, done, worker, count, outcome, cache, lost>>

\* cancel_seed_job
Cancel(j) ==
  /\ status[j] \in {"Pending", "Running"}
  /\ status' = [status EXCEPT ![j] = "Cancelled"]
  /\ cancelled' = cancelled \cup {j}
  /\ UNCHANGED <<request, tilesTotal, done, worker, count, outcome, cache, lost>>

\* The tiles S leave the cache.
Leave(S) ==
  /\ cache' = cache \ S
  /\ lost' = lost \cup UNION {{<<j, t>> : t \in {u \in Rendered(j) : Tile(j, u) \in S}} : j \in Jobs}
  /\ UNCHANGED <<request, status, tilesTotal, done, worker, count, outcome, cancelled>>

\* truncate_tiles: the gridset of the request is not looked at.
TruncateTiles(layer, gridset) == Leave({t \in cache : t[1] = layer})

\* The cache lets go of a tile: enforce_quota, at the end of whatever put, evicts
\* it, or get finds it too old.
Forget(tile) == tile \in cache /\ Leave({tile})

-----------------------------------------------------------------------------
(* The worker, run_seed_job.                                               *)

\* It reads the row, counts the tiles and marks the row Running.
Begin(j) ==
  /\ worker[j] = "spawned"
  /\ tilesTotal' = [tilesTotal EXCEPT ![j] = Size(j)]
  /\ status' = [status EXCEPT ![j] = "Running"]
  /\ worker' = [worker EXCEPT ![j] = "loop"]
  /\ UNCHANGED <<request, done, count, outcome, cancelled, cache, lost>>

\* Slip: the loop stops one tile short.
CheckTileShort(j) ==
  /\ worker[j] = "loop"
  /\ worker' = [worker EXCEPT ![j] =
                  IF count[j] + 1 >= Size(j) \/ status[j] = "Cancelled" THEN "leave" ELSE "render"]
  /\ UNCHANGED <<request, status, tilesTotal, done, count, outcome, cancelled, cache, lost>>

\* Slip: a cancelled job waits in its loop instead of leaving it.
CheckTileStuck(j) ==
  /\ worker[j] = "loop"
  /\ status[j] # "Cancelled"
  /\ worker' = [worker EXCEPT ![j] = IF count[j] = Size(j) THEN "leave" ELSE "render"]
  /\ UNCHANGED <<request, status, tilesTotal, done, count, outcome, cancelled, cache, lost>>

\* Between two tiles: all done, cancelled, or on to the next tile.
CheckTile(j) ==
  /\ worker[j] = "loop"
  /\ worker' = [worker EXCEPT ![j] =
                  IF count[j] = Size(j) \/ status[j] = "Cancelled" THEN "leave" ELSE "render"]
  /\ UNCHANGED <<request, status, tilesTotal, done, count, outcome, cancelled, cache, lost>>

\* Slip: tiles are numbered from zero, one off what the handlers ask for.
RenderTileFromZero(j) ==
  /\ worker[j] = "render"
  /\ \/ /\ request[j].format = "png"
        /\ cache' = cache \cup {Tile(j, count[j])}
        /\ UNCHANGED lost
     \/ lost' = lost \cup {<<j, count[j] + 1>>} /\ UNCHANGED cache
  /\ worker' = [worker EXCEPT ![j] = "count"]
  /\ UNCHANGED <<request, status, tilesTotal, done, count, outcome, cancelled>>

\* render_tile_bytes returns.  Its result is ignored; only a PNG tile that
\* rendered is in the cache.
RenderTile(j) ==
  /\ worker[j] = "render"
  /\ \/ /\ request[j].format = "png"
        /\ cache' = cache \cup {Tile(j, count[j] + 1)}
        /\ UNCHANGED lost
     \/ lost' = lost \cup {<<j, count[j] + 1>>} /\ UNCHANGED cache
  /\ worker' = [worker EXCEPT ![j] = "count"]
  /\ UNCHANGED <<request, status, tilesTotal, done, count, outcome, cancelled>>

\* render_tile_bytes never returns: it asks for the layers lock again under its
\* own guard, behind a writer that waits for that guard (see CatalogLocks), or
\* it panics.  The task has no timeout; the row stays as it is.
Hang(j) ==
  /\ worker[j] = "render"
  /\ worker' = [worker EXCEPT ![j] = "stuck"]
  /\ UNCHANGED <<request, status, tilesTotal, done, count, outcome, cancelled, cache, lost>>

\* The tile is counted; every PushEvery tiles the row gets the count.
CountTile(j) ==
  /\ worker[j] = "count"
  /\ count' = [count EXCEPT ![j] = @ + 1]
  /\ done' = [done EXCEPT ![j] = IF count'[j] % PushEvery = 0 \/ count'[j] = Size(j)
                                 THEN count'[j] ELSE @]
  /\ worker' = [worker EXCEPT ![j] = "loop"]
  /\ UNCHANGED <<request, status, tilesTotal, outcome, cancelled, cache, lost>>

\* The last look at the row, after the loop.
LeaveLoop(j) ==
  /\ worker[j] = "leave"
  /\ outcome' = [outcome EXCEPT ![j] =
                   IF status[j] = "Cancelled" THEN "Cancelled" ELSE "Completed"]
  /\ worker' = [worker EXCEPT ![j] = "report"]
  /\ UNCHANGED <<request, status, tilesTotal, done, count, cancelled, cache, lost>>

Report(j) ==
  /\ worker[j] = "report"
  /\ done' = [done EXCEPT ![j] = count[j]]
  /\ worker' = [worker EXCEPT ![j] = "finish"]
  /\ UNCHANGED <<request, status, tilesTotal, count, outcome, cancelled, cache, lost>>

\* The spawned task stores the outcome, whatever the row says by now.
Finish(j) ==
  /\ worker[j] = "finish"
  /\ status' = [status EXCEPT ![j] = outcome[j]]
  /\ worker' = [worker EXCEPT ![j] = "ended"]
  /\ UNCHANGED <<request, tilesTotal, done, count, outcome, cancelled, cache, lost>>

-----------------------------------------------------------------------------
Work(j) ==
  \/ Begin(j) \/ CheckTile(j) \/ RenderTile(j) \/ CountTile(j)
  \/ LeaveLoop(j) \/ Report(j) \/ Finish(j)

Handle ==
  \/ \E j \in Jobs : Create(j) \/ Cancel(j)
  \/ \E l \in Layers, g \in SeedGridsets : TruncateTiles(l, g)

SeedNext ==
  \/ Handle
  \/ \E tile \in AllTiles : Forget(tile)
  \/ \E j \in Jobs : Work(j) \/ Hang(j)

SeedSpec == SeedInit /\ [][SeedNext]_seedVars

\* The runtime polls a task that is ready.  A render returns unless it hangs for
\* good, which it may do at any tile.
SeedFairSpec == SeedSpec /\ \A j \in Jobs : WF_seedVars(Work(j))

-----------------------------------------------------------------------------
(* Every variable has its type.                                            *)
SeedTypeOK ==
  /\ request \in [Jobs -> SeedRequests]
  /\ status \in [Jobs -> {"none", "Pending", "Running", "Completed", "Cancelled"}]
  /\ tilesTotal \in [Jobs -> Nat] /\ done \in [Jobs -> Nat] /\ count \in [Jobs -> Nat]
  /\ worker \in [Jobs -> {"none", "spawned", "loop", "render", "stuck",
                          "count", "leave", "report", "finish", "ended"}]
  /\ outcome \in [Jobs -> {"none", "Completed", "Cancelled"}]
  /\ cancelled \subseteq Jobs
  /\ cache \subseteq AllTiles
  /\ lost \subseteq Jobs \X Nat

\* A job shown as Completed went through every one of its tiles, and its row
\* says so, however cancellations raced the worker.
CompletedIsWhole ==
  \A j \in Jobs : status[j] = "Completed" =>
    count[j] = Size(j) /\ tilesTotal[j] = Size(j) /\ done[j] = tilesTotal[j]

\* The published progress never runs ahead of the worker and is never taken
\* back.
ProgressSound == [][\A j \in Jobs : done'[j] >= done[j] /\ done'[j] <= count'[j]]_seedVars

\* "The worker checks the job status in the shared table between tiles and
\* stops as soon as it sees Cancelled": no tile is begun while the row says
\* Cancelled.
NoTileAfterCancel ==
  [][\A j \in Jobs : status[j] = "Cancelled" /\ worker[j] # "render"
       => worker'[j] # "render"]_seedVars

\* A cancellation that was answered with success is final.
CancelIsFinal == \A j \in cancelled : status[j] = "Cancelled"

\* Once its worker has ended, a job keeps its status and its progress; late
\* cancellations change nothing.
EndedIsFinal ==
  [][\A j \in Jobs : worker[j] = "ended" =>
       status'[j] = status[j] /\ done'[j] = done[j] /\ worker'[j] = "ended"]_seedVars

\* Every job that was created ends, cancelled or not, unless a render of its own
\* never returns; a job whose worker is stuck so holds up no other.
JobsEnd == \A j \in Jobs : status[j] # "none" ~> worker[j] \in {"ended", "stuck"}

\* "Pre-generates tiles into the tile cache": the tiles that a worker has
\* counted are cached, whatever other jobs and cancellations do, but for those
\* that did not render or are JPEGs and those that were truncated, evicted or
\* expired after the worker rendered them.
SeededIsCached ==
  \A j \in Jobs : \A t \in 1..count[j] : <<j, t>> \in lost \/ Tile(j, t) \in cache
=============================================================================
