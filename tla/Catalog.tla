------------------------------ MODULE Catalog -------------------------------
(***************************************************************************)
(* The layer catalogue: the metadata store that all replicas share, and    *)
(* the copy each replica serves from memory (src/service/src/state.rs:     *)
(* AppState.layers, refresh_catalog, add_layer, delete_layer; handlers/    *)
(* layer_handler.rs: create_layer, update_layer, delete_layer).            *)
(*                                                                         *)
(* A handler writes the store first and memory second, in two steps; an    *)
(* update, and the periodic task, refresh the whole copy: they read every  *)
(* row of the store, and only then take the lock of the copy and merge the *)
(* rows in, by name, never removing an entry.                              *)
(*                                                                         *)
(* The copy is a Vec that is searched from the front, so it is kept here   *)
(* as the sequence of entries of each name.                                *)
(***************************************************************************)
EXTENDS Naturals, Sequences

CONSTANTS
  Names,       \* layer names
  Titles,      \* the titles, which stand for all that a row says of a layer
  Replicas,    \* server processes
  Clients,     \* requests in flight, at most
  Home,        \* [Clients -> Replicas]: the replica a client talks to
  Periodic,    \* catalog_refresh_secs > 0
  StoreFails,  \* whether the store may be unavailable to a refresh
  Restarts,    \* whether replicas are restarted
  Timeouts,    \* whether the request timeout may strike
  MaxWrites,   \* how many write requests arrive
  NoRow        \* the store has no row of that name

ASSUME CatalogAssumption ==
  /\ Home \in [Clients -> Replicas]
  /\ Clients \cap Replicas = {} /\ Names # {}
  /\ MaxWrites \in Nat
  /\ {Periodic, StoreFails, Restarts, Timeouts} \subseteq BOOLEAN

\* Whoever refreshes: a request, or the task of a replica.
Actors == Clients \cup Replicas
Host(a) == IF a \in Replicas THEN a ELSE Home[a]

VARIABLES
  store,      \* the layers table: [Names -> Titles or NoRow]
  memory,     \* [Replicas -> [Names -> Seq(Titles)]]
  pc,         \* where an actor is; a client at "idle" has been answered
  name,       \* the layer its request is about
  row,        \* the row create_layer got back from the store
  snapshot,   \* the rows its refresh has read, NoRows when it has none
  writes,     \* the write requests so far
  stored      \* history: all the titles the store has held for a name

vars == <<store, memory, pc, name, row, snapshot, writes, stored>>

\* What AppState::new loads.  The catalogue has some layer outside Names, so
\* that start-up never seeds the built-in ones.
Loaded == [n \in Names |-> IF store[n] = NoRow THEN <<>> ELSE <<store[n]>>]

NoRows == [n \in Names |-> NoRow]

Init ==
  /\ store = NoRows
  /\ memory = [r \in Replicas |-> [n \in Names |-> <<>>]]
  /\ pc = [a \in Actors |-> "idle"]
  /\ name = [c \in Clients |-> CHOOSE n \in Names : TRUE]
  /\ row = [c \in Clients |-> NoRow]
  /\ snapshot = [a \in Actors |-> NoRows]
  /\ writes = 0
  /\ stored = [n \in Names |-> {}]

-----------------------------------------------------------------------------
(* create_layer, update_layer and delete_layer: the store, then memory.    *)

\* A client's next write request is about layer n.
Arrive(c, n, next) ==
  /\ pc[c] = "idle" /\ writes < MaxWrites
  /\ writes' = writes + 1
  /\ name' = [name EXCEPT ![c] = n]
  /\ pc' = [pc EXCEPT ![c] = next]

\* Slip: the layer is added to memory whether or not the insert succeeded.
CreateRowUnchecked(c) == \E n \in Names, t \in Titles :
  /\ Arrive(c, n, "add")
  /\ row' = [row EXCEPT ![c] = t]
  /\ store' = [store EXCEPT ![n] = IF @ = NoRow THEN t ELSE @]
  /\ stored' = [stored EXCEPT ![n] = IF store[n] = NoRow THEN @ \cup {t} ELSE @]
  /\ UNCHANGED <<memory, snapshot>>

\* The insert fails if the name is taken; the request then changes nothing.
CreateRow(c) == \E n \in Names, t \in Titles :
  /\ store[n] = NoRow
  /\ Arrive(c, n, "add")
  /\ row' = [row EXCEPT ![c] = t]
  /\ store' = [store EXCEPT ![n] = t]
  /\ stored' = [stored EXCEPT ![n] = @ \cup {t}]
  /\ UNCHANGED <<memory, snapshot>>

\* add_layer pushes without looking for the name.
AddLayer(c) ==
  /\ pc[c] = "add"
  /\ memory' = [memory EXCEPT ![Host(c)][name[c]] = Append(@, row[c])]
  /\ pc' = [pc EXCEPT ![c] = "idle"]
  /\ row' = [row EXCEPT ![c] = NoRow]
  /\ UNCHANGED <<store, name, snapshot, writes, stored>>

\* An UPDATE of some of the columns, of no row if there is none.
UpdateRow(c) == \E n \in Names, t \in Titles :
  /\ Arrive(c, n, "refresh")
  /\ IF store[n] = NoRow THEN UNCHANGED <<store, stored>>
     ELSE /\ store' = [store EXCEPT ![n] = t]
          /\ stored' = [stored EXCEPT ![n] = @ \cup {t}]
  /\ UNCHANGED <<memory, row, snapshot>>

DeleteRow(c) == \E n \in Names :
  /\ Arrive(c, n, "remove")
  /\ store' = [store EXCEPT ![n] = NoRow]
  /\ UNCHANGED <<memory, row, snapshot, stored>>

\* delete_layer removes the first entry of the name, if there is one.
RemoveLayer(c) ==
  /\ pc[c] = "remove"
  /\ memory' = [memory EXCEPT ![Host(c)][name[c]] = IF @ = <<>> THEN @ ELSE Tail(@)]
  /\ pc' = [pc EXCEPT ![c] = "idle"]
  /\ UNCHANGED <<store, name, row, snapshot, writes, stored>>

-----------------------------------------------------------------------------
(* refresh_catalog_from_store, for an update or at a tick of the task.     *)

MayRefresh(a) ==
  \/ a \in Clients /\ pc[a] = "refresh"
  \/ a \in Replicas /\ Periodic /\ pc[a] = "idle"

\* get_all_layers().await
ReadRows(a) ==
  /\ MayRefresh(a)
  /\ snapshot' = [snapshot EXCEPT ![a] = store]
  /\ pc' = [pc EXCEPT ![a] = "merge"]
  /\ UNCHANGED <<store, memory, name, row, writes, stored>>

\* The store is not available: the refresh is given up without a word.
ReadFails(a) ==
  /\ MayRefresh(a) /\ StoreFails
  /\ pc' = [pc EXCEPT ![a] = "idle"]
  /\ UNCHANGED <<store, memory, name, row, snapshot, writes, stored>>

\* Slip: entries that are there already are left as they are.
MergedAddOnly(entries, d) ==
  IF d = NoRow \/ entries # <<>> THEN entries ELSE <<d>>

\* Update the first entry of the name, or add one.
Merged(entries, d) ==
  IF d = NoRow THEN entries ELSE <<d>> \o (IF entries = <<>> THEN <<>> ELSE Tail(entries))

MergeRows(a) ==
  /\ pc[a] = "merge"
  /\ memory' = [memory EXCEPT ![Host(a)] =
                  [n \in Names |-> Merged(memory[Host(a)][n], snapshot[a][n])]]
  /\ pc' = [pc EXCEPT ![a] = "idle"]
  /\ snapshot' = [snapshot EXCEPT ![a] = NoRows]
  /\ UNCHANGED <<store, name, row, writes, stored>>

\* The request timeout drops a handler that waits for a lock or the store.
Drop(c) ==
  /\ Timeouts /\ pc[c] # "idle"
  /\ pc' = [pc EXCEPT ![c] = "idle"]
  /\ row' = [row EXCEPT ![c] = NoRow]
  /\ snapshot' = [snapshot EXCEPT ![c] = NoRows]
  /\ UNCHANGED <<store, memory, name, writes, stored>>

\* A replica is restarted: its requests are gone, its copy is loaded anew.
Restart(r) ==
  /\ Restarts
  /\ pc' = [a \in Actors |-> IF Host(a) = r THEN "idle" ELSE pc[a]]
  /\ row' = [c \in Clients |-> IF Home[c] = r THEN NoRow ELSE row[c]]
  /\ snapshot' = [a \in Actors |-> IF Host(a) = r THEN NoRows ELSE snapshot[a]]
  /\ memory' = [memory EXCEPT ![r] = Loaded]
  /\ UNCHANGED <<store, name, writes, stored>>

-----------------------------------------------------------------------------
Request(c) ==
  \/ CreateRow(c) \/ AddLayer(c) \/ UpdateRow(c)
  \/ DeleteRow(c) \/ RemoveLayer(c) \/ Drop(c)

Refresh(a) == ReadRows(a) \/ ReadFails(a) \/ MergeRows(a)

Next ==
  \/ \E c \in Clients : Request(c)
  \/ \E a \in Actors : Refresh(a)
  \/ \E r \in Replicas : Restart(r)

Spec == Init /\ [][Next]_vars

\* Handlers and tasks that can go on do, and the store is not unavailable at
\* every single refresh.
FairSpec ==
  /\ Spec
  /\ \A c \in Clients : WF_vars(AddLayer(c)) /\ WF_vars(RemoveLayer(c))
  /\ \A a \in Actors : SF_vars(ReadRows(a)) /\ WF_vars(MergeRows(a))

-----------------------------------------------------------------------------
(* Every variable has its type.                                            *)
TypeOK ==
  /\ store \in [Names -> Titles \cup {NoRow}]
  /\ memory \in [Replicas -> [Names -> Seq(Titles)]]
  /\ pc \in [Actors -> {"idle", "add", "remove", "refresh", "merge"}]
  /\ name \in [Clients -> Names]
  /\ row \in [Clients -> Titles \cup {NoRow}]
  /\ snapshot \in [Actors -> [Names -> Titles \cup {NoRow}]]
  /\ writes \in 0..MaxWrites
  /\ stored \in [Names -> SUBSET Titles]

\* What a replica finds when it looks a layer up.
Serves(r, n, t) == memory[r][n] # <<>> /\ Head(memory[r][n]) = t

\* All requests are answered and no refresh is under way.
Quiet == \A a \in Actors : pc[a] = "idle"

\* A replica never serves a title that the store did not hold at some time,
\* be it of a create that failed, or of a torn or mixed-up refresh.
NothingInvented ==
  \A r \in Replicas, n \in Names : \A i \in 1..Len(memory[r][n]) :
    memory[r][n][i] \in stored[n]

\* When the writes have stopped, every replica comes to serve every layer of
\* the store with its current title, whatever stale refreshes are still to
\* be merged.
Converges ==
  <>[](\A r \in Replicas, n \in Names :
         store[n] # NoRow => Serves(r, n, store[n]))

\* "Removed from the in-memory catalogue at once": a layer whose deletion was
\* answered is gone from memory.
DeletedIsGone ==
  Quiet => \A r \in Replicas, n \in Names : store[n] = NoRow => memory[r][n] = <<>>
=============================================================================
