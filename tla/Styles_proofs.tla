---------------------------- MODULE Styles_proofs ----------------------------
(***************************************************************************)
(* Proofs about Styles: however requests that write the two maps and the   *)
(* table overlap, fail and are dropped, a row has its content under the    *)
(* format that is in, if the request that wrote it last gave both.         *)
(***************************************************************************)
EXTENDS Styles, TLAPS

\* What a request may be about to write.
Request ==
  [step : {"text", "meta", "row"}, p : Replicas, n : Names,
   kind : {"insert", "modify", "delete"}, content : All \cup {None},
   format : Formats \cup {None}, given : Formats \cup {None}]

\* Every variable has its type.
StylesTypeOK ==
  /\ row \in [Names -> Rows \cup {None}]
  /\ text \in [Replicas -> [Names -> All \cup {None}]]
  /\ meta \in [Replicas -> [Names -> Formats \cup {None}]]
  /\ req \in [Requests -> Request \cup {Idle}]
  /\ snap \in [Replicas -> [Names -> Rows \cup {None}] \cup {None}]
  /\ misfit \subseteq Names
  /\ events \in 0..MaxEvents

\* A row is put whole only with a content and a format.
InsertsWhole ==
  \A r \in Requests : req[r] # Idle /\ req[r].kind = "insert" =>
    req[r].content \in All /\ req[r].given \in Formats

\* The inductive invariant.
StylesInv == StylesTypeOK /\ InsertsWhole /\ RowsFit

-----------------------------------------------------------------------------
\* One entry of a map of one replica is replaced.
LEMMA MapUpdated ==
  ASSUME NEW S, NEW T, NEW V, NEW m \in [S -> [T -> V]], NEW a \in S, NEW b \in T, NEW v \in V
  PROVE  [m EXCEPT ![a][b] = v] \in [S -> [T -> V]]
  OBVIOUS

LEMMA IdleIsNoRequest == Idle \notin Request
  BY DEF Idle, Request

\* What the statement of a request makes of a row is a row.
LEMMA NewRowIsRow ==
  ASSUME row \in [Names -> Rows \cup {None}], NEW q \in Request,
         q.kind = "insert" => q.content \in All /\ q.given \in Formats
  PROVE  NewRow(q) \in Rows \cup {None}
  <1>0. q.n \in Names /\ row[q.n] \in Rows \cup {None}
    BY DEF Request
  <1>1. CASE q.kind = "insert"
    BY <1>1, StylesAssumption DEF NewRow, Rows, Request
  <1>2. CASE q.kind = "modify" /\ row[q.n] # None
    <2>1. row[q.n].content \in All /\ row[q.n].format \in Formats
      BY <1>0, <1>2 DEF Rows
    <2>2. Updated(row[q.n], q) \in Rows
      BY <1>2, <2>1 DEF Updated, Or, Rows, Request
    <2>. QED  BY <1>2, <2>2 DEF NewRow
  <1>3. CASE q.kind = "modify" /\ row[q.n] = None
    BY <1>3 DEF NewRow
  <1>4. CASE q.kind = "delete"
    BY <1>4 DEF NewRow
  <1>. QED  BY <1>1, <1>2, <1>3, <1>4 DEF Request

\* A request that gives a content and its format leaves a row that fits.
LEMMA NewRowFits ==
  ASSUME row \in [Names -> Rows \cup {None}], NEW q \in Request, GivesBoth(q), NewRow(q) # None
  PROVE  NewRow(q).format = FormatOf[NewRow(q).content]
  <1>0. q.given # None /\ q.content # None /\ q.given = FormatOf[q.content]
    BY StylesAssumption DEF GivesBoth, Request
  <1>1. CASE q.kind = "insert"
    BY <1>0, <1>1 DEF NewRow
  <1>2. CASE q.kind = "modify"
    <2>1. NewRow(q) = Updated(row[q.n], q)
      BY <1>2 DEF NewRow
    <2>. QED  BY <1>0, <2>1 DEF Updated, Or
  <1>3. CASE q.kind = "delete"
    BY <1>3 DEF NewRow
  <1>. QED  BY <1>1, <1>2, <1>3 DEF Request

\* A replica that starts has loaded styles.
LEMMA LoadedIsText ==
  ASSUME row \in [Names -> Rows \cup {None}]
  PROVE  LoadedText \in [Names -> All \cup {None}] /\ LoadedMeta \in [Names -> Formats \cup {None}]
  BY StylesAssumption DEF LoadedText, LoadedMeta, Rows, All

\* Whatever begins keeps the invariant, if what it is to put whole fits.
LEMMA BeginKeeps ==
  ASSUME StylesInv, NEW r \in Requests, NEW p \in Replicas, NEW n \in Names,
         NEW kind \in {"insert", "modify", "delete"}, NEW step \in {"text", "row"},
         NEW content \in All \cup {None}, NEW format \in Formats \cup {None},
         NEW given \in Formats \cup {None},
         kind = "insert" => content \in All /\ given \in Formats,
         Begin(r, p, n, kind, step, content, format, given)
  PROVE  StylesInv'
  <1> DEFINE q == [step |-> step, p |-> p, n |-> n, kind |-> kind,
                   content |-> content, format |-> format, given |-> given]
  <1>1. q \in Request /\ q.kind = kind /\ q.content = content /\ q.given = given
    BY DEF Request
  <1>2. req' = [req EXCEPT ![r] = q] /\ UNCHANGED <<row, text, meta, snap, misfit>>
    BY DEF Begin
  <1>3. events' \in 0..MaxEvents
    BY StylesAssumption DEF Begin, StylesInv, StylesTypeOK
  <1> HIDE DEF q
  <1>4. StylesTypeOK'
    BY <1>1, <1>2, <1>3 DEF StylesInv, StylesTypeOK
  <1>5. InsertsWhole'
    BY <1>1, <1>2 DEF StylesInv, StylesTypeOK, InsertsWhole
  <1>. QED  BY <1>2, <1>4, <1>5 DEF StylesInv, RowsFit

-----------------------------------------------------------------------------
LEMMA StylesInvInit == Init => StylesInv
  <1> SUFFICES ASSUME Init PROVE StylesInv
    OBVIOUS
  <1>1. row \in [Names -> Rows \cup {None}]
    BY DEF Init
  <1>2. StylesTypeOK
    BY <1>1, LoadedIsText, StylesAssumption DEF Init, StylesTypeOK
  <1>. QED  BY <1>2 DEF Init, StylesInv, InsertsWhole, RowsFit

LEMMA StylesInvStep == StylesInv /\ [Next]_vars => StylesInv'
  <1> SUFFICES ASSUME StylesInv, [Next]_vars PROVE StylesInv'
    OBVIOUS
  <1>a. StylesTypeOK /\ InsertsWhole /\ RowsFit
    BY DEF StylesInv
  <1>b. \A r \in Requests : req[r] # Idle => req[r] \in Request
    BY <1>a DEF StylesTypeOK
  <1>c. /\ \A c \in Contents : c \in All /\ FormatOf[c] \in Formats
        /\ MaxEvents \in Nat
    BY StylesAssumption DEF All
  <1>1. ASSUME NEW r \in Requests, NEW p \in Replicas, Arrive(r, p) PROVE StylesInv'
    <2>1. PICK n \in Names :
            \/ \E c \in Contents : Replace(r, p, n, c)
            \/ \E c \in Contents, f \in Formats \cup {None} :
                 Create(r, p, n, c, f) \/ UpdateContent(r, p, n, c, f)
            \/ \E f \in Formats : UpdateFormat(r, p, n, f)
            \/ Delete(r, p, n)
      BY <1>1 DEF Arrive
    <2>2. ASSUME NEW c \in Contents, NEW f \in Formats \cup {None}, Create(r, p, n, c, f)
          PROVE  StylesInv'
      <3>1. FormatFor(c, f) \in Formats
        BY <1>c DEF FormatFor
      <3>. QED  BY <2>2, <3>1, <1>c, BeginKeeps DEF Create
    <2>3. ASSUME NEW c \in Contents, Replace(r, p, n, c) PROVE StylesInv'
      BY <2>3, <1>c, BeginKeeps DEF Replace
    <2>4. ASSUME NEW c \in Contents, NEW f \in Formats \cup {None}, UpdateContent(r, p, n, c, f)
          PROVE  StylesInv'
      BY <2>4, <1>c, BeginKeeps DEF UpdateContent
    <2>5. ASSUME NEW f \in Formats, UpdateFormat(r, p, n, f) PROVE StylesInv'
      BY <2>5, BeginKeeps DEF UpdateFormat
    <2>6. CASE Delete(r, p, n)
      BY <2>6, BeginKeeps DEF Delete
    <2>. QED  BY <2>1, <2>2, <2>3, <2>4, <2>5, <2>6
  <1>2. ASSUME NEW r \in Requests, WriteText(r) PROVE StylesInv'
    <2>1. req[r] # Idle /\ req[r] \in Request
      BY <1>2, <1>b DEF WriteText, Idle
    <2>2. [req[r] EXCEPT !.step = "meta"] \in Request \ {Idle}
      BY <2>1, IdleIsNoRequest DEF Request
    <2>3. req' = [req EXCEPT ![r] = [req[r] EXCEPT !.step = "meta"]]
      BY <1>2 DEF WriteText
    <2>4. /\ text' = [text EXCEPT ![req[r].p][req[r].n] = req[r].content]
          /\ UNCHANGED <<row, meta, snap, events, misfit>>
      BY <1>2 DEF WriteText
    <2>5. text' \in [Replicas -> [Names -> All \cup {None}]]
      BY <1>a, <2>1, <2>4 DEF Request, StylesTypeOK
    <2>6. StylesTypeOK'
      BY <1>a, <2>2, <2>3, <2>4, <2>5 DEF StylesTypeOK
    <2>7. InsertsWhole'
      BY <1>a, <2>1, <2>2, <2>3 DEF InsertsWhole, StylesTypeOK, Request
    <2>. QED  BY <1>a, <2>4, <2>6, <2>7 DEF StylesInv, RowsFit
  <1>3. ASSUME NEW r \in Requests, WriteMeta(r) PROVE StylesInv'
    <2>1. req[r] # Idle /\ req[r] \in Request
      BY <1>3, <1>b DEF WriteMeta, Idle
    <2>2. [req[r] EXCEPT !.step = "row"] \in Request \ {Idle}
      BY <2>1, IdleIsNoRequest DEF Request
    <2>3. req' = [req EXCEPT ![r] = [req[r] EXCEPT !.step = "row"]]
      BY <1>3 DEF WriteMeta
    <2>4. /\ \/ meta' = meta
             \/ meta' = [meta EXCEPT ![req[r].p][req[r].n] = req[r].format]
          /\ UNCHANGED <<row, text, snap, events, misfit>>
      BY <1>3 DEF WriteMeta
    <2>5. meta' \in [Replicas -> [Names -> Formats \cup {None}]]
      <3>1. /\ meta \in [Replicas -> [Names -> Formats \cup {None}]]
            /\ req[r].p \in Replicas /\ req[r].n \in Names /\ req[r].format \in Formats \cup {None}
        BY <1>a, <2>1 DEF Request, StylesTypeOK
      <3>2. [meta EXCEPT ![req[r].p][req[r].n] = req[r].format] \in [Replicas -> [Names -> Formats \cup {None}]]
        BY <3>1, MapUpdated
      <3>3. meta' = meta \/ meta' = [meta EXCEPT ![req[r].p][req[r].n] = req[r].format]
        BY <2>4
      <3>. QED  BY <3>1, <3>2, <3>3
    <2>6. StylesTypeOK'
      BY <1>a, <2>2, <2>3, <2>4, <2>5 DEF StylesTypeOK
    <2>7. InsertsWhole'
      BY <1>a, <2>1, <2>2, <2>3 DEF InsertsWhole, StylesTypeOK, Request
    <2>. QED  BY <1>a, <2>4, <2>6, <2>7 DEF StylesInv, RowsFit
  <1>4. ASSUME NEW r \in Requests, WriteRow(r) PROVE StylesInv'
    <2> DEFINE q == req[r]
    <2>1. q # Idle /\ q \in Request /\ q.n \in Names
      BY <1>4, <1>b DEF WriteRow, Idle, Request
    <2>2. q.kind = "insert" => q.content \in All /\ q.given \in Formats
      BY <1>a, <2>1 DEF InsertsWhole
    <2>3. /\ req' = [req EXCEPT ![r] = Idle]
          /\ UNCHANGED <<text, meta, snap, events>>
      BY <1>4 DEF WriteRow
    <2>4. \/ /\ row' = [row EXCEPT ![q.n] = NewRow(q)]
             /\ misfit' = IF q.kind = "delete" \/ GivesBoth(q) THEN misfit \ {q.n}
                          ELSE misfit \cup {q.n}
          \/ UNCHANGED <<row, misfit>>
      BY <1>4 DEF WriteRow
    <2>5. NewRow(q) \in Rows \cup {None}
      BY <1>a, <2>1, <2>2, NewRowIsRow DEF StylesTypeOK
    <2>6. NewRow(q) # None /\ (q.kind = "delete" \/ GivesBoth(q)) =>
            NewRow(q).format = FormatOf[NewRow(q).content]
      <3>1. q.kind = "delete" => NewRow(q) = None
        BY DEF NewRow
      <3>. QED  BY <1>a, <2>1, <3>1, NewRowFits DEF StylesTypeOK
    <2> HIDE DEF q
    <2>7. StylesTypeOK'
      BY <1>a, <2>1, <2>3, <2>4, <2>5 DEF StylesTypeOK
    <2>8. InsertsWhole'
      BY <1>a, <2>3 DEF InsertsWhole, StylesTypeOK
    <2>9. RowsFit'
      BY <1>a, <2>1, <2>4, <2>6 DEF RowsFit, StylesTypeOK
    <2>. QED  BY <2>7, <2>8, <2>9 DEF StylesInv
  <1>5. ASSUME NEW r \in Requests, Drop(r) PROVE StylesInv'
    BY <1>a, <1>5 DEF Drop, StylesInv, StylesTypeOK, InsertsWhole, RowsFit
  <1>6. ASSUME NEW p \in Replicas, NEW n \in Names, NEW c \in Contents, PutLayerStyle(p, n, c)
        PROVE  StylesInv'
    <2> DEFINE v == [content |-> c, format |-> FormatOf[c]]
    <2>1. v \in Rows /\ v.content = c /\ v.format = FormatOf[c]
      BY <1>c DEF Rows
    <2>2. /\ text' = [text EXCEPT ![p][n] = c]
          /\ \/ meta' = meta
             \/ meta' = [meta EXCEPT ![p][n] = v.format]
          /\ \/ UNCHANGED <<row, misfit>>
             \/ row' = [row EXCEPT ![n] = v] /\ misfit' = misfit \ {n}
          /\ UNCHANGED <<req, snap>>
          /\ events < MaxEvents /\ events' = events + 1
      BY <1>6 DEF PutLayerStyle
    <2> HIDE DEF v
    <2>3. text' \in [Replicas -> [Names -> All \cup {None}]]
      BY <1>a, <1>c, <2>2 DEF StylesTypeOK
    <2>6. v.format \in Formats
      BY <1>c, <2>1
    <2>7. meta' \in [Replicas -> [Names -> Formats \cup {None}]]
      <3>1. meta \in [Replicas -> [Names -> Formats \cup {None}]]
        BY <1>a DEF StylesTypeOK
      <3>2. [meta EXCEPT ![p][n] = v.format] \in [Replicas -> [Names -> Formats \cup {None}]]
        BY <2>6, <3>1, MapUpdated
      <3>3. meta' = meta \/ meta' = [meta EXCEPT ![p][n] = v.format]
        BY <2>2
      <3>. QED  BY <3>1, <3>2, <3>3
    <2>4. StylesTypeOK'
      BY <1>a, <1>c, <2>1, <2>2, <2>3, <2>7 DEF StylesTypeOK
    <2>5. RowsFit'
      BY <1>a, <2>1, <2>2 DEF RowsFit, StylesTypeOK
    <2>. QED  BY <1>a, <2>2, <2>4, <2>5 DEF StylesInv, InsertsWhole
  <1>7. ASSUME NEW p \in Replicas, ReadRows(p) PROVE StylesInv'
    BY <1>a, <1>7 DEF ReadRows, StylesInv, StylesTypeOK, InsertsWhole, RowsFit
  <1>8. ASSUME NEW p \in Replicas, MergeRows(p) PROVE StylesInv'
    <2>1. snap[p] \in [Names -> Rows \cup {None}]
      BY <1>a, <1>8 DEF MergeRows, StylesTypeOK
    <2>2. /\ Merged(p) \in [Names -> All \cup {None}]
          /\ MergedMeta(p) \in [Names -> Formats \cup {None}]
      BY <1>a, <2>1 DEF Merged, MergedMeta, Rows, StylesTypeOK
    <2>3. StylesTypeOK'
      BY <1>a, <1>8, <2>2 DEF MergeRows, StylesTypeOK
    <2>. QED  BY <1>a, <1>8, <2>3 DEF MergeRows, StylesInv, InsertsWhole, RowsFit
  <1>9. ASSUME NEW p \in Replicas, Restart(p) PROVE StylesInv'
    <2>1. LoadedText \in [Names -> All \cup {None}] /\ LoadedMeta \in [Names -> Formats \cup {None}]
      BY <1>a, LoadedIsText DEF StylesTypeOK
    <2>2. StylesTypeOK'
      BY <1>a, <1>c, <1>9, <2>1 DEF Restart, StylesTypeOK
    <2>. QED  BY <1>a, <1>9, <2>2 DEF Restart, StylesInv, InsertsWhole, RowsFit
  <1>10. CASE UNCHANGED vars
    BY <1>a, <1>10 DEF vars, StylesInv, StylesTypeOK, InsertsWhole, RowsFit
  <1>. QED
    BY <1>1, <1>2, <1>3, <1>4, <1>5, <1>6, <1>7, <1>8, <1>9, <1>10 DEF Next, Write

-----------------------------------------------------------------------------
LEMMA StylesInvHolds == Spec => []StylesInv
  BY StylesInvInit, StylesInvStep, PTL DEF Spec

\* Every variable of the styles, the requests and the refresh keeps its type.
THEOREM StylesTypeCorrect == Spec => []StylesTypeOK
  <1>1. StylesInv => StylesTypeOK
    BY DEF StylesInv
  <1>. QED  BY <1>1, StylesInvHolds, PTL

\* A row has its content under the format that is in, however many requests
\* overlap and wherever they are dropped, unless the one that wrote it last named
\* another format, or did not give both (create_style, update_style_by_name,
\* put_layer_style, handle_ogc_styles_put).
THEOREM StylesRowsFit == Spec => []RowsFit
  <1>1. StylesInv => RowsFit
    BY DEF StylesInv
  <1>. QED  BY <1>1, StylesInvHolds, PTL
=============================================================================
