--------------------------------- MODULE Backup ---------------------------------
(***************************************************************************)
(* Export and import of the configuration, backup.rs. The configuration of *)
(* a server is a record                                                    *)
(*   rows         the named tables: for each section a function from the   *)
(*                names in it to what is stored                            *)
(*   permissions  the table of permissions, which has no key               *)
(*   layers, styles, groups   what the server has in memory: sequences of  *)
(*                layers and groups, a function of styles                  *)
(*   report       of the last import: how much was done and refused        *)
(* A backup is what is written, item by item: an import that is cut off    *)
(* has done a prefix of it.                                                *)
(***************************************************************************)
EXTENDS Integers, Sequences, SequencesExt, Functions

\* The tables that refuse a name they have; those of styles and groups replace.
Keyed == {"workspaces", "sources", "layers", "namespaces", "views", "users"}
Sections == Keyed \cup {"styles", "groups"}

\* The types of data sources import_backup knows.
KnownTypes == {"shapefile", "geotiff", "geopackage", "worldimage", "cascaded_wms",
               "redis", "arcgrid", "postgis"}

Item(section, name, value) == [section |-> section, name |-> name, value |-> value]

TableItems(section, table) ==
    LET names == SetToSeq(DOMAIN table)
    IN  [i \in DOMAIN names |-> Item(section, names[i], table[names[i]])]

\* The tables are read one after the other; styles and groups from memory.
export_backup(srv) ==
    LET Of(section) == TableItems(section, srv.rows[section])
        text == [n \in DOMAIN srv.styles |->
                    [title |-> srv.styles[n].title, content |-> srv.styles[n].content,
                     format |-> srv.styles[n].format]]
    IN  Of("workspaces") \o Of("sources") \o Of("layers") \o TableItems("styles", text)
        \o Of("namespaces")
        \o [i \in DOMAIN srv.groups |->
               Item("groups", srv.groups[i].name, [layers |-> srv.groups[i].layers])]
        \o Of("views")
        \o [i \in DOMAIN srv.permissions |-> Item("permissions", "", srv.permissions[i])]
        \o Of("users")

\* What an item becomes on its way into the store.
Stored(item) ==
    CASE item.section = "workspaces" -> [item.value EXCEPT !.enabled = TRUE]
      [] item.section = "sources" ->
            [item.value EXCEPT !.type = IF @ \in KnownTypes THEN @ ELSE "postgis"]
      \* the format of a style is guessed if it is SLD
      [] item.section = "styles" ->
            [title |-> item.value.title, content |-> item.value.content, builtin |-> FALSE,
             format |-> IF item.value.format = "SLD" THEN item.value.content.looks
                        ELSE item.value.format]
      [] item.section = "groups" -> [layers |-> item.value.layers, styles |-> <<>>]
      [] OTHER -> item.value

WithRow(table, item) ==
    [n \in DOMAIN table \cup {item.name} |-> IF n = item.name THEN Stored(item) ELSE table[n]]

SetRow(srv, item) ==
    [srv EXCEPT !.rows[item.section] = WithRow(@, item), !.report.done = @ + 1]

Refuse(srv) == [srv EXCEPT !.report.refused = @ + 1]

\* A name that is taken is refused. A layer is new in memory too, enabled.
ImportRow(srv, item) ==
    IF item.name \in DOMAIN srv.rows[item.section] THEN Refuse(srv)
    ELSE IF item.section # "layers" THEN SetRow(srv, item)
    ELSE [SetRow(srv, item) EXCEPT !.layers = Append(@, [name |-> item.name, enabled |-> TRUE])]

ImportStyle(srv, item) ==
    [SetRow(srv, item) EXCEPT !.styles = WithRow(@, item)]

ImportGroup(srv, item) ==
    [SetRow(srv, item) EXCEPT !.groups =
        Append(@, [name |-> item.name, layers |-> item.value.layers, styles |-> <<>>])]

ImportPermission(srv, item) ==
    [srv EXCEPT !.permissions = Append(@, item.value), !.report.done = @ + 1]

ImportItem(srv, item) ==
    CASE item.section \in Keyed        -> ImportRow(srv, item)
      [] item.section = "styles"       -> ImportStyle(srv, item)
      [] item.section = "groups"       -> ImportGroup(srv, item)
      [] item.section = "permissions"  -> ImportPermission(srv, item)

Reset(srv) == [srv EXCEPT !.report = [done |-> 0, refused |-> 0]]

\* Slip: what comes after a name that is taken is not imported.
import_backup_until_refused(srv, backup) ==
    LET after[k \in 0 .. Len(backup)] ==
            IF k = 0 THEN Reset(srv)
            ELSE LET s == after[k - 1]
                 IN  IF s.report.refused > 0 THEN s ELSE ImportItem(s, backup[k])
    IN  after[Len(backup)]

import_backup(srv, backup) ==
    LET after[k \in 0 .. Len(backup)] ==
            IF k = 0 THEN Reset(srv) ELSE ImportItem(after[k - 1], backup[k])
    IN  after[Len(backup)]

-----------------------------------------------------------------------------
\* A configuration of which a backup loses nothing.
Portable(srv) ==
    /\ \A n \in DOMAIN srv.rows.workspaces : srv.rows.workspaces[n].enabled
    /\ \A n \in DOMAIN srv.rows.sources : srv.rows.sources[n].type \in KnownTypes
    /\ \A n \in DOMAIN srv.rows.styles :
          LET style == srv.rows.styles[n]
          IN  ~style.builtin /\ (style.format = "SLD" => style.content.looks = "SLD")
    /\ \A n \in DOMAIN srv.rows.groups : srv.rows.groups[n].styles = <<>>

\* A server whose memory is what its tables say.
InStep(srv) ==
    /\ {srv.layers[i].name : i \in DOMAIN srv.layers} = DOMAIN srv.rows.layers
    /\ \A i, j \in DOMAIN srv.layers : srv.layers[i].name = srv.layers[j].name => i = j
    /\ srv.styles = srv.rows.styles
=============================================================================
