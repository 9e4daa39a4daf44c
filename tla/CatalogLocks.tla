---------------------------- MODULE CatalogLocks ----------------------------
(***************************************************************************)
(* The locks of the in-memory catalogue (src/service/src/state.rs:         *)
(* AppState.layers, styles and styles_meta, three tokio RwLocks) and the   *)
(* code that holds more than one of them, or the same one twice.           *)
(*                                                                         *)
(* A tokio RwLock is fair: whoever must wait, reader or writer, waits in   *)
(* one queue, so that a reader also waits behind a writer that waits.  A   *)
(* guard is held across awaits until it is dropped, and a handler that is  *)
(* dropped at the request timeout drops its guards and its place in the    *)
(* queue.  The task of the periodic refresh and the worker of a seed job   *)
(* are spawned tasks, which no timeout reaches.                            *)
(***************************************************************************)
EXTENDS Naturals, Sequences, SequencesExt

CONSTANTS
  Requests,    \* slots for requests in flight, under the request timeout
  Refresher,   \* the tasks of the periodic refresh: one, or none
  Seeders,     \* the workers of seed jobs
  RequestOps,  \* what requests do
  RequestTimeouts  \* request_timeout_secs > 0

Tasks == Requests \cup Refresher \cup Seeders

Locks == {"layers", "styles", "meta"}

-----------------------------------------------------------------------------
(* What is locked, in which order.  At the end everything is let go.       *)

R(l) == [do |-> "read", lock |-> l]
W(l) == [do |-> "write", lock |-> l]
Let(l) == [do |-> "let go", lock |-> l]

\* render_tile_bytes, a vector layer that is not cached: while it holds the
\* three locks, query_layer_features locks the layers once more.
Tile == <<R("layers"), Let("layers"),
          R("layers"), R("styles"), R("meta"),
          R("layers"), Let("layers")>>

\* resolve_layer_metadata; so does a tile of a raster layer.
Map == <<R("layers"), R("styles"), R("meta")>>

GetStyles == <<R("styles"), R("layers")>>

Legend == <<R("layers"), R("styles")>>

Backup == <<R("styles"), R("meta")>>

\* add_layer, delete_layer
WriteLayer == <<W("layers")>>

\* Slip: the other order.
PutStyleMetaFirst == <<R("layers"), Let("layers"), W("meta"), W("styles")>>

\* put_layer_style
PutStyle == <<R("layers"), Let("layers"), W("styles"), W("meta")>>

\* refresh_catalog_from_store
RefreshScript == <<W("layers"), Let("layers"), W("styles"), W("meta")>>

Script == [tile |-> Tile, map |-> Map, get_styles |-> GetStyles,
           legend |-> Legend, backup |-> Backup, write_layer |-> WriteLayer,
           put_style |-> PutStyle, refresh |-> RefreshScript]

Ops == DOMAIN Script

ASSUME CatalogLocksAssumption ==
  /\ RequestOps \subseteq Ops /\ RequestTimeouts \in BOOLEAN
  /\ Requests \cap (Refresher \cup Seeders) = {} /\ Refresher \cap Seeders = {}

MayDo(t) ==
  IF t \in Refresher THEN {"refresh"} ELSE IF t \in Seeders THEN {"tile"} ELSE RequestOps

-----------------------------------------------------------------------------
VARIABLES
  op,       \* [Tasks -> Ops \cup {"none"}]: what a task is doing
  at,       \* the place in its script
  readers,  \* [Locks -> [Tasks -> Nat]]: the read guards a task holds
  writer,   \* [Locks -> SUBSET Tasks]: the task with the write guard
  queue     \* [Locks -> Seq(Tasks)]: who waits, the first one first

lockVars == <<op, at, readers, writer, queue>>

LocksInit ==
  /\ op = [t \in Tasks |-> "none"]
  /\ at = [t \in Tasks |-> 1]
  /\ readers = [l \in Locks |-> [t \in Tasks |-> 0]]
  /\ writer = [l \in Locks |-> {}]
  /\ queue = [l \in Locks |-> <<>>]

\* The step of its script that task t is at.
AtStep(t) == op[t] # "none" /\ at[t] <= Len(Script[op[t]])
Step(t) == Script[op[t]][at[t]]

Queued(t) == \E l \in Locks : Contains(queue[l], t)

Holders(l) == writer[l] \cup {t \in Tasks : readers[l][t] > 0}

Advance(t) == at' = [at EXCEPT ![t] = @ + 1]

Begin(t) ==
  /\ op[t] = "none"
  /\ \E o \in MayDo(t) : op' = [op EXCEPT ![t] = o]
  /\ UNCHANGED <<at, readers, writer, queue>>

\* read() or write() is called.
Ask(t) ==
  /\ AtStep(t) /\ Step(t).do \in {"read", "write"} /\ ~Queued(t)
  /\ queue' = [queue EXCEPT ![Step(t).lock] = Append(@, t)]
  /\ UNCHANGED <<op, at, readers, writer>>

\* The first in the queue gets its guard as soon as those that are held
\* allow it.
Grant(t) ==
  /\ AtStep(t) /\ Queued(t)
  /\ LET l == Step(t).lock IN
       /\ t = Head(queue[l])
       /\ writer[l] = {}
       /\ IF Step(t).do = "read"
          THEN readers' = [readers EXCEPT ![l][t] = @ + 1] /\ UNCHANGED writer
          ELSE /\ Holders(l) = {}
               /\ writer' = [writer EXCEPT ![l] = {t}] /\ UNCHANGED readers
       /\ queue' = [queue EXCEPT ![l] = Tail(@)]
  /\ Advance(t)
  /\ UNCHANGED op

\* A guard is dropped before the end.
LetGo(t) ==
  /\ AtStep(t) /\ Step(t).do = "let go"
  /\ LET l == Step(t).lock IN
       IF t \in writer[l]
       THEN writer' = [writer EXCEPT ![l] = {}] /\ UNCHANGED readers
       ELSE readers' = [readers EXCEPT ![l][t] = @ - 1] /\ UNCHANGED writer
  /\ Advance(t)
  /\ UNCHANGED <<op, queue>>

\* A queue without task t, who is in it once at most.
Without(q, t) ==
  IF Contains(q, t) THEN RemoveAt(q, CHOOSE i \in DOMAIN q : q[i] = t) ELSE q

\* Task t is through, or dropped: so are its guards and its place in a queue.
Leaves(t) ==
  /\ op' = [op EXCEPT ![t] = "none"]
  /\ at' = [at EXCEPT ![t] = 1]
  /\ readers' = [l \in Locks |-> [readers[l] EXCEPT ![t] = 0]]
  /\ writer' = [l \in Locks |-> writer[l] \ {t}]
  /\ queue' = [l \in Locks |-> Without(queue[l], t)]

End(t) ==
  /\ op[t] # "none" /\ ~AtStep(t)
  /\ Leaves(t)

\* Slip: the answer is sent, but the handler is not dropped: what it holds
\* stays held.
DropAnswerOnly(t) ==
  /\ RequestTimeouts /\ t \in Requests /\ op[t] # "none"
  /\ op' = [op EXCEPT ![t] = "none"]
  /\ at' = [at EXCEPT ![t] = 1]
  /\ queue' = [l \in Locks |-> Without(queue[l], t)]
  /\ UNCHANGED <<readers, writer>>

\* The request timeout.
DropHandler(t) ==
  /\ RequestTimeouts /\ t \in Requests /\ op[t] # "none"
  /\ Leaves(t)

Go(t) == Ask(t) \/ Grant(t) \/ LetGo(t) \/ End(t)

LocksNext == \E t \in Tasks : Begin(t) \/ Go(t) \/ DropHandler(t)

LocksSpec == LocksInit /\ [][LocksNext]_lockVars

\* Tasks that can go on do (what they await, holding guards, returns), and
\* the timeout strikes a request that is not through.
LocksFairSpec == LocksSpec /\ \A t \in Tasks : WF_lockVars(Go(t)) /\ WF_lockVars(DropHandler(t))

-----------------------------------------------------------------------------
(* Every variable has its type; a guard that writes is the only one.       *)
LocksTypeOK ==
  /\ op \in [Tasks -> Ops \cup {"none"}]
  /\ at \in [Tasks -> 1..8]
  /\ readers \in [Locks -> [Tasks -> 0..2]]
  /\ writer \in [Locks -> SUBSET Tasks]
  /\ queue \in [Locks -> Seq(Tasks)]
  /\ \A l \in Locks : writer[l] # {} => \E t \in Tasks : Holders(l) = {t}

\* Those that must do something before task t, which waits, can go on.
WaitsFor(t) ==
  LET l == Step(t).lock
      i == CHOOSE i \in DOMAIN queue[l] : queue[l][i] = t
  IN  {queue[l][j] : j \in 1..(i - 1)}
      \cup IF Step(t).do = "write" THEN Holders(l) ELSE writer[l]

\* Tasks wait for each other, each for some other of them.
Circle(S) == S # {} /\ \A t \in S : Queued(t) /\ WaitsFor(t) \cap S # {}

\* "An independent task that does not affect the request path": the refresh
\* and the requests wait for each other only if one of them is rendering a
\* tile, which locks the layers twice, or answers GetStyles, which locks them
\* last; those that lock layers, styles and metadata in this order never do.
OnlyDisorderDeadlocks ==
  \A S \in SUBSET Tasks : Circle(S) => \E t \in S : op[t] \in {"tile", "get_styles"}

\* Whoever begins is through at some time; no reader and no writer starves,
\* however the others keep coming.
AllGetThrough == \A t \in Tasks : op[t] # "none" ~> op[t] = "none"

\* "The worker checks the job status between tiles": the worker of a seed job
\* gets from one tile to the next.
SeedersGetThrough == \A t \in Seeders : op[t] # "none" ~> op[t] = "none"
=============================================================================
