----------------------------- MODULE DataSources -----------------------------
(***************************************************************************)
(* Data sources: their table, the connections that a replica caches by     *)
(* name, and the files of uploaded sources                                 *)
(* (src/service/src/handlers/data_source_handler.rs, upload_handler.rs,    *)
(* layer_handler.rs; get_pg_pool, get_mysql_pool, get_mongo_client and     *)
(* tile_cache_for in src/service/src/state.rs; SqliteStore).               *)
(*                                                                         *)
(* A request reads the row of its source, and later looks for a connection *)
(* under a name.  Pools of PostgreSQL ("pool"; those of MySQL are alike)   *)
(* are looked up and made under one lock; MongoDB clients and Redis tile   *)
(* caches are looked up, made, and put over what is there by then.         *)
(* Nothing removes a connection but a restart.                             *)
(*                                                                         *)
(* Uploads of GeoTIFF and GeoJSON are modelled, with the directory of a    *)
(* replica or one that replicas share.  Shapefiles, which are saved under  *)
(* the name that the client gives before any check, are not.               *)
(***************************************************************************)
EXTENDS Naturals

CONSTANTS
  Names,       \* of data sources, and of tables
  Tables,      \* the names among them that are names of tables
  Files,       \* of the directory of uploads
  FileOf,      \* [name]: its file; characters that a path may not have become
               \* "_", so that names share one
  Servers,     \* what connections lead to
  Contents,    \* what clients upload
  Replicas, Requests,
  MaxEvents,   \* bound of the model: calls and restarts
  None

Torn == "torn"
Links == {"pool", "mongo", "redis"}
Kinds == Links \cup {"file"}
Rows == [kind : Kinds, at : Servers \cup Contents]

ASSUME DataSourcesAssumption ==
  /\ Tables \subseteq Names /\ FileOf \in [Names -> Files] /\ MaxEvents \in Nat
  /\ Torn \notin Contents /\ None \notin Contents \cup Servers \cup Rows \cup {Torn}

VARIABLES
  row,     \* the data_sources table; at is the server, or what was uploaded
  conn,    \* [replica][kind][name]: the connection that is cached, or None
  file,    \* [file]: what it holds
  req,     \* what a request has read, or is about to write
  events,  \* calls and restarts so far
  changed, \* history, [replica]: names whose row changed while it ran
  shared   \* history: files that were not one upload's alone since it began

vars == <<row, conn, file, req, events, changed, shared>>

Idle == [step |-> "idle"]
NoConn == [k \in Links |-> [n \in Names |-> None]]

Init ==
  /\ row = [n \in Names |-> None]
  /\ conn = [p \in Replicas |-> NoConn]
  /\ file = [f \in Files |-> None]
  /\ req = [r \in Requests |-> Idle]
  /\ events = 0
  /\ changed = [p \in Replicas |-> {}]
  /\ shared = {}

Count == events < MaxEvents /\ events' = events + 1

SetRow(n, value) ==
  /\ row' = [row EXCEPT ![n] = value]
  /\ changed' = [p \in Replicas |-> changed[p] \cup {n}]

-----------------------------------------------------------------------------
(* The REST interface.  The name is the key of the table, so that a create *)
(* that has been overtaken since its check is refused.                     *)

Create(n, k, s) ==
  /\ Count
  /\ row[n] = None
  /\ SetRow(n, [kind |-> k, at |-> s])
  /\ UNCHANGED <<conn, file, req, shared>>

\* A connection, perhaps of another type; nothing if there is no row.
Update(n, k, s) ==
  /\ Count
  /\ row[n] # None
  /\ SetRow(n, [kind |-> k, at |-> s])
  /\ UNCHANGED <<conn, file, req, shared>>

\* The file of an uploaded source stays.
Delete(n) ==
  /\ Count
  /\ row[n] # None
  /\ SetRow(n, None)
  /\ UNCHANGED <<conn, file, req, shared>>

-----------------------------------------------------------------------------
(* Connections.                                                            *)

Step(r, q) == req' = [req EXCEPT ![r] = q]

\* A query of a layer on source n reads the row.  Its connection is cached
\* under key: the name of the source, or, for maps, the name of the table.
Query(r, p, n, key) ==
  /\ Count
  /\ req[r] = Idle
  /\ row[n] # None /\ row[n].kind \in {"pool", "mongo"}
  /\ key # n => row[n].kind = "pool" /\ key \in Tables
  /\ Step(r, [step |-> "look", p |-> p, n |-> n, key |-> key, kind |-> row[n].kind, at |-> row[n].at])
  /\ UNCHANGED <<row, conn, file, changed, shared>>

UsePool(r) ==
  LET q == req[r] IN
  /\ q.step = "look" /\ q.kind = "pool"
  /\ conn' = IF conn[q.p][q.kind][q.key] # None THEN conn
             ELSE [conn EXCEPT ![q.p][q.kind][q.key] = q.at]
  /\ Step(r, Idle)
  /\ UNCHANGED <<row, file, events, changed, shared>>

LookClient(r) ==
  LET q == req[r] IN
  /\ q.step = "look" /\ q.kind = "mongo"
  /\ Step(r, IF conn[q.p][q.kind][q.key] # None THEN Idle ELSE [q EXCEPT !.step = "connect"])
  /\ UNCHANGED <<row, conn, file, events, changed, shared>>

\* A tile of a layer with a cache of its own: the cache is looked for first.
Tile(r, p, n) ==
  /\ Count
  /\ req[r] = Idle
  /\ conn[p]["redis"][n] = None
  /\ Step(r, [step |-> "read", p |-> p, n |-> n])
  /\ UNCHANGED <<row, conn, file, changed, shared>>

\* Slip: a source of any type will do.
ReadCacheUntyped(r) ==
  LET q == req[r] IN
  /\ q.step = "read"
  /\ Step(r, IF row[q.n] = None THEN Idle
             ELSE [step |-> "connect", p |-> q.p, n |-> q.n, key |-> q.n,
                   kind |-> "redis", at |-> row[q.n].at])
  /\ UNCHANGED <<row, conn, file, events, changed, shared>>

\* A source that is not there, of another type or disabled leaves the request
\* with the cache on disk.
ReadCache(r) ==
  LET q == req[r] IN
  /\ q.step = "read"
  /\ Step(r, IF row[q.n] = None \/ row[q.n].kind # "redis" THEN Idle
             ELSE [step |-> "connect", p |-> q.p, n |-> q.n, key |-> q.n,
                   kind |-> "redis", at |-> row[q.n].at])
  /\ UNCHANGED <<row, conn, file, events, changed, shared>>

KeepClient(r) ==
  LET q == req[r] IN
  /\ q.step = "connect"
  /\ conn' = [conn EXCEPT ![q.p][q.kind][q.key] = q.at]
  /\ Step(r, Idle)
  /\ UNCHANGED <<row, file, events, changed, shared>>

-----------------------------------------------------------------------------
(* Uploads: the name must be free, unless the store fails to say so; the   *)
(* file is truncated and filled; the row is inserted, if the name still    *)
(* is free.                                                                *)

Uploading(f) ==
  {r \in Requests : req[r].step \in {"truncate", "fill", "insert"} /\ FileOf[req[r].n] = f}

\* The file of the name is at work in another upload, or another's, or that of
\* the source itself, which the store did not tell.
Shares(n, answered) ==
  \/ Uploading(FileOf[n]) # {}
  \/ \E m \in Names \ {n} : FileOf[m] = FileOf[n] /\ row[m] # None /\ row[m].kind = "file"
  \/ ~answered /\ row[n] # None

Begin(r, p, n, c, answered) ==
  /\ Count
  /\ req[r] = Idle
  /\ Step(r, [step |-> "truncate", p |-> p, n |-> n, content |-> c])
  /\ shared' = IF Shares(n, answered) THEN shared \cup {FileOf[n]} ELSE shared \ {FileOf[n]}
  /\ UNCHANGED <<row, conn, file, changed>>

\* Slip: the name is left to the insert to check.
UploadUnchecked(r, p, n, c) ==
  \E answered \in BOOLEAN : Begin(r, p, n, c, answered)

\* Only a store that answers with a source refuses the upload.
Upload(r, p, n, c) ==
  \E answered \in BOOLEAN :
    /\ answered => row[n] = None
    /\ Begin(r, p, n, c, answered)

Truncate(r) ==
  LET q == req[r] IN
  /\ q.step = "truncate"
  /\ file' = [file EXCEPT ![FileOf[q.n]] = Torn]
  /\ Step(r, [q EXCEPT !.step = "fill"])
  /\ UNCHANGED <<row, conn, events, changed, shared>>

\* A write that fails ends the upload; see Drop.
Fill(r) ==
  LET q == req[r] IN
  /\ q.step = "fill"
  /\ file' = [file EXCEPT ![FileOf[q.n]] = q.content]
  /\ Step(r, [q EXCEPT !.step = "insert"])
  /\ UNCHANGED <<row, conn, events, changed, shared>>

Insert(r) ==
  LET q == req[r] IN
  /\ q.step = "insert"
  /\ IF row[q.n] = None THEN SetRow(q.n, [kind |-> "file", at |-> q.content])
     ELSE UNCHANGED <<row, changed>>
  /\ Step(r, Idle)
  /\ UNCHANGED <<conn, file, events, shared>>

-----------------------------------------------------------------------------

\* The request timeout, a failure, or the end of the replica.
Drop(r) ==
  /\ req[r] # Idle
  /\ Step(r, Idle)
  /\ UNCHANGED <<row, conn, file, events, changed, shared>>

Restart(p) ==
  /\ Count
  /\ \A r \in Requests : req[r] # Idle => req[r].p # p
  /\ conn' = [conn EXCEPT ![p] = NoConn]
  /\ changed' = [changed EXCEPT ![p] = {}]
  /\ UNCHANGED <<row, file, req, shared>>

Rest(n) ==
  \/ \E k \in Links, s \in Servers : Create(n, k, s) \/ Update(n, k, s)
  \/ Delete(n)

Arrive(r, p, n) ==
  \/ \E key \in Names : Query(r, p, n, key)
  \/ Tile(r, p, n)
  \/ \E c \in Contents : Upload(r, p, n, c)

Continue(r) ==
  \/ UsePool(r) \/ LookClient(r) \/ ReadCache(r) \/ KeepClient(r)
  \/ Truncate(r) \/ Fill(r) \/ Insert(r) \/ Drop(r)

Next ==
  \/ \E n \in Names : Rest(n)
  \/ \E r \in Requests : Continue(r) \/ \E p \in Replicas, n \in Names : Arrive(r, p, n)
  \/ \E p \in Replicas : Restart(p)

Spec == Init /\ [][Next]_vars

-----------------------------------------------------------------------------
(* Properties.                                                             *)

\* The types of the variables: a request holds what its step needs.
TypeOK ==
  /\ row \in [Names -> [kind : Links, at : Servers] \cup [kind : {"file"}, at : Contents] \cup {None}]
  /\ conn \in [Replicas -> [Links -> [Names -> Servers \cup {None}]]]
  /\ file \in [Files -> Contents \cup {Torn, None}]
  /\ req \in [Requests ->
       {Idle} \cup [step : {"read"}, p : Replicas, n : Names]
       \cup [step : {"look", "connect"}, p : Replicas, n : Names, key : Names, kind : Links, at : Servers]
       \cup [step : {"truncate", "fill", "insert"}, p : Replicas, n : Names, content : Contents]]
  /\ events \in 0..MaxEvents
  /\ changed \in [Replicas -> SUBSET Names]
  /\ shared \in SUBSET Files

\* A connection that is cached under the name of a source leads where its row
\* says, however requests that read the row, looked for the connection and
\* made it overlapped, unless the row has changed since the replica started,
\* or the name is that of a table, whose maps may have led elsewhere.
ConnFits ==
  \A p \in Replicas, k \in Links, n \in Names :
    conn[p][k][n] # None /\ n \notin changed[p] /\ (k = "pool" => n \notin Tables)
      => row[n] = [kind |-> k, at |-> conn[p][k][n]]

\* A replica makes one pool for a name, whatever requests look for it at once:
\* until it restarts, nothing replaces or removes the pool.
OnePool ==
  [][\A p \in Replicas, n \in Names :
       conn[p]["pool"][n] # None =>
         conn'[p]["pool"][n] = conn[p]["pool"][n] \/ conn'[p] = NoConn]_vars

\* The file of an uploaded source is what its client sent, however uploads
\* were refused, cut off or repeated, and sources deleted: except when, since
\* the file's last upload that had it to itself began, another upload has
\* begun that was not alone with it.  Such an upload found another at work on
\* the file, or the name of a second source has the same file ("a/b" and
\* "a_b"), or the source was there and the store failed to say so.
AsUploaded ==
  \A n \in Names :
    row[n] # None /\ row[n].kind = "file" /\ FileOf[n] \notin shared => file[FileOf[n]] = row[n].at
=============================================================================
