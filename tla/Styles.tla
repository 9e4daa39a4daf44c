------------------------------- MODULE Styles -------------------------------
(***************************************************************************)
(* Styles: two maps in the memory of a replica, contents and metadata,     *)
(* each behind a lock of its own, and the styles table                     *)
(* (src/service/src/handlers/style_handler.rs: put_layer_style,            *)
(* create_style, update_style_by_name, delete_style_by_name;               *)
(* src/service/src/handlers/ogc_styles_handler.rs; the styles part of      *)
(* AppState::new and refresh_catalog_from_store in                         *)
(* src/service/src/state.rs; SqliteStore).                                 *)
(*                                                                         *)
(* A write goes to the contents, then to the metadata, then to the table,  *)
(* whose errors are ignored; a request may be dropped in between.  The     *)
(* refresh reads the table and then merges what it has read.               *)
(***************************************************************************)
EXTENDS Naturals

CONSTANTS
  Names,          \* of styles
  Contents,       \* what clients send as a style
  Formats,        \* SLD, CSS, YSLD, MBStyle
  FormatOf,       \* detect_style_format of a content
  BuiltIn,        \* the names of the built-in styles
  BuiltInContent, \* the content they all have here, in SLD
  Replicas,
  Requests,       \* slots for requests in flight
  MaxEvents,      \* bound of the model: requests and restarts
  None

All == Contents \cup {BuiltInContent}
Rows == [content : All, format : Formats]

ASSUME StylesAssumption ==
  /\ BuiltIn \subseteq Names /\ FormatOf \in [All -> Formats]
  /\ MaxEvents \in Nat /\ None \notin All \cup Formats \cup Rows

VARIABLES
  row,        \* the styles table
  text,       \* [replica][name]: AppState.styles
  meta,       \* [replica][name]: the format in AppState.styles_meta
  req,        \* what a request is about to write, where, and how
  snap,       \* [replica]: the rows its refresh has read, or None
  events,     \* requests and restarts so far
  misfit      \* history: names whose row was last written by a request that did
              \* not give a content and the format it is in

vars == <<row, text, meta, req, snap, events, misfit>>

Idle == [step |-> "idle"]

\* A replica that starts: the built-in styles, and the rows of other names.
LoadedText ==
  [n \in Names |-> IF n \in BuiltIn THEN BuiltInContent
                   ELSE IF row[n] = None THEN None ELSE row[n].content]
LoadedMeta ==
  [n \in Names |-> IF n \in BuiltIn THEN FormatOf[BuiltInContent]
                   ELSE IF row[n] = None THEN None ELSE row[n].format]

Init ==
  /\ row = [n \in Names |-> None]
  /\ text = [p \in Replicas |-> LoadedText]
  /\ meta = [p \in Replicas |-> LoadedMeta]
  /\ req = [r \in Requests |-> Idle]
  /\ snap = [p \in Replicas |-> None]
  /\ events = 0
  /\ misfit = {}

-----------------------------------------------------------------------------
(* Requests.                                                               *)

\* The checks of a handler are over and its writes begin.  kind is what is
\* done to the metadata and to the table; given is the format it writes to
\* the table, None where it leaves the one that is there.
Begin(r, p, n, kind, step, content, format, given) ==
  /\ req[r] = Idle
  /\ events < MaxEvents
  /\ events' = events + 1
  /\ req' = [req EXCEPT ![r] = [step |-> step, p |-> p, n |-> n, kind |-> kind,
                                content |-> content, format |-> format, given |-> given]]
  /\ UNCHANGED <<row, text, meta, snap, misfit>>

\* Without a format, with "SLD" or an unknown one, a new style gets the format it
\* is found to be in; CSS, YSLD and MBStyle are taken as given, whatever it is.
FormatFor(c, f) == IF f \in {None, FormatOf[BuiltInContent]} THEN FormatOf[c] ELSE f

\* create_style finds the name free; the handler of OGC API Styles does not
\* look, and names no format.
Create(r, p, n, c, f) ==
  Begin(r, p, n, "insert", "text", c, FormatFor(c, f), FormatFor(c, f))

\* handle_ogc_styles_put: the content with the format it is found to be in
Replace(r, p, n, c) ==
  /\ text[p][n] # None
  /\ Begin(r, p, n, "modify", "text", c, FormatOf[c], FormatOf[c])

\* update_style_by_name with a content: "SLD" and unknown formats are detected
\* for the metadata and go to the table as they are; none leaves both alone.
UpdateContent(r, p, n, c, f) ==
  /\ text[p][n] # None
  /\ Begin(r, p, n, "modify", "text", c,
           IF f = FormatOf[BuiltInContent] THEN FormatOf[c] ELSE f, f)

\* update_style_by_name without a content touches the table only.
UpdateFormat(r, p, n, f) ==
  /\ text[p][n] # None
  /\ Begin(r, p, n, "modify", "row", None, None, f)

Delete(r, p, n) ==
  /\ text[p][n] # None
  /\ Begin(r, p, n, "delete", "text", None, None, None)

\* AppState::add_style, or the removal of the content
WriteText(r) ==
  LET q == req[r] IN
  /\ q.step = "text"
  /\ text' = [text EXCEPT ![q.p][q.n] = q.content]
  /\ req' = [req EXCEPT ![r].step = "meta"]
  /\ UNCHANGED <<row, meta, snap, events, misfit>>

\* insert; entry().and_modify(), which leaves a missing entry missing, and
\* which an update without a format does not do; or remove
WriteMeta(r) ==
  LET q == req[r] IN
  /\ q.step = "meta"
  /\ meta' = IF q.kind = "modify" /\ (meta[q.p][q.n] = None \/ q.format = None)
             THEN meta ELSE [meta EXCEPT ![q.p][q.n] = q.format]
  /\ req' = [req EXCEPT ![r].step = "row"]
  /\ UNCHANGED <<row, text, snap, events, misfit>>

Or(value, old) == IF value = None THEN old ELSE value

\* Slip: an update keeps the format of the row.
UpdatedKeepingFormat(v, q) ==
  [content |-> Or(q.content, v.content), format |-> v.format]

\* UPDATE sets the fields that are given.
Updated(v, q) ==
  [content |-> Or(q.content, v.content), format |-> Or(q.given, v.format)]

\* The statement of the request in the table: INSERT OR REPLACE, UPDATE, which
\* may find no row, or DELETE.
NewRow(q) ==
  CASE q.kind = "insert" -> [content |-> q.content, format |-> q.given]
    [] q.kind = "modify" -> IF row[q.n] = None THEN None ELSE Updated(row[q.n], q)
    [] q.kind = "delete" -> None

\* A request gives a content, and the format it is in.
GivesBoth(q) == q.content # None /\ q.given = FormatOf[q.content]

\* The store is written, and the answer is success, or fails alike.
WriteRow(r) ==
  LET q == req[r] IN
  /\ q.step = "row"
  /\ \/ /\ row' = [row EXCEPT ![q.n] = NewRow(q)]
        /\ misfit' = IF q.kind = "delete" \/ GivesBoth(q) THEN misfit \ {q.n}
                     ELSE misfit \cup {q.n}
     \/ UNCHANGED <<row, misfit>>
  /\ req' = [req EXCEPT ![r] = Idle]
  /\ UNCHANGED <<text, meta, snap, events>>

\* put_layer_style holds both locks until the store has answered.  It may be
\* dropped before the second lock or in the store.
PutLayerStyle(p, n, c) ==
  LET v == [content |-> c, format |-> FormatOf[c]] IN
  /\ events < MaxEvents
  /\ events' = events + 1
  /\ text' = [text EXCEPT ![p][n] = c]
  /\ \/ UNCHANGED <<meta, row, misfit>>
     \/ /\ meta' = IF meta[p][n] = None THEN meta ELSE [meta EXCEPT ![p][n] = v.format]
        /\ \/ UNCHANGED <<row, misfit>>
           \/ row' = [row EXCEPT ![n] = v] /\ misfit' = misfit \ {n}
  /\ UNCHANGED <<req, snap>>

\* The client, the request timeout or a crash ends a handler.
Drop(r) ==
  /\ req[r] # Idle
  /\ req' = [req EXCEPT ![r] = Idle]
  /\ UNCHANGED <<row, text, meta, snap, events, misfit>>

-----------------------------------------------------------------------------
(* The refresh, periodic and after layers are updated, and restarts.       *)

ReadRows(p) ==
  /\ snap[p] = None
  /\ snap' = [snap EXCEPT ![p] = row]
  /\ UNCHANGED <<row, text, meta, req, events, misfit>>

\* Slip: styles that are there are left as they are.
MergedMissing(p) ==
  [n \in Names |-> IF snap[p][n] = None \/ text[p][n] # None THEN text[p][n]
                   ELSE snap[p][n].content]

Merged(p) ==
  [n \in Names |-> IF snap[p][n] = None THEN text[p][n] ELSE snap[p][n].content]
MergedMeta(p) ==
  [n \in Names |-> IF snap[p][n] = None THEN meta[p][n] ELSE snap[p][n].format]

MergeRows(p) ==
  /\ snap[p] # None
  /\ text' = [text EXCEPT ![p] = Merged(p)]
  /\ meta' = [meta EXCEPT ![p] = MergedMeta(p)]
  /\ snap' = [snap EXCEPT ![p] = None]
  /\ UNCHANGED <<row, req, events, misfit>>

Restart(p) ==
  /\ events < MaxEvents
  /\ events' = events + 1
  /\ \A r \in Requests : req[r] # Idle => req[r].p # p
  /\ text' = [text EXCEPT ![p] = LoadedText]
  /\ meta' = [meta EXCEPT ![p] = LoadedMeta]
  /\ snap' = [snap EXCEPT ![p] = None]
  /\ UNCHANGED <<row, req, misfit>>

Arrive(r, p) ==
  \E n \in Names :
    \/ \E c \in Contents : Replace(r, p, n, c)
    \/ \E c \in Contents, f \in Formats \cup {None} :
         Create(r, p, n, c, f) \/ UpdateContent(r, p, n, c, f)
    \/ \E f \in Formats : UpdateFormat(r, p, n, f)
    \/ Delete(r, p, n)

Write(r) == WriteText(r) \/ WriteMeta(r) \/ WriteRow(r)

Next ==
  \/ \E r \in Requests : (\E p \in Replicas : Arrive(r, p)) \/ Write(r) \/ Drop(r)
  \/ \E p \in Replicas :
       \/ \E n \in Names, c \in Contents : PutLayerStyle(p, n, c)
       \/ ReadRows(p) \/ MergeRows(p) \/ Restart(p)

Spec == Init /\ [][Next]_vars

\* Handlers go on, and the refresh is a task that is never cancelled.
Fairness ==
  /\ \A r \in Requests : WF_vars(Write(r))
  /\ \A p \in Replicas : WF_vars(ReadRows(p)) /\ WF_vars(MergeRows(p))

FairSpec == Spec /\ Fairness

-----------------------------------------------------------------------------
(* Properties.                                                             *)

Contained(p, n) ==
  row[n] # None => text[p][n] = row[n].content /\ meta[p][n] = row[n].format

\* Once clients are done, every replica comes to serve, for good, every style
\* of the table with its content and its format, however the two maps and the
\* table were torn apart by requests that overlapped, failed or were dropped,
\* by refreshes that merged old rows over them, and by restarts.
Converges == \A p \in Replicas, n \in Names : <>[]Contained(p, n)

\* The table has every content under the format it is in, however the requests
\* overlap, fail and are dropped: except a style that was last written by a
\* create or an update which named another format (neither looks), or by an
\* update that gave a content alone or a format alone.
RowsFit ==
  \A n \in Names : row[n] # None /\ n \notin misfit =>
    row[n].format = FormatOf[row[n].content]
=============================================================================
