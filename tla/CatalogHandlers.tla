---------------------------- MODULE CatalogHandlers ----------------------------
(***************************************************************************)
(* The routes by which the catalogue is administered: workspaces,          *)
(* namespaces, stores, data sources, SQL views, layers and permissions     *)
(* (src/service/src/handlers/workspace_handler.rs, namespace_handler.rs,   *)
(* store_handler.rs, data_source_handler.rs, sql_view_handler.rs,          *)
(* layer_handler.rs, permission_handler.rs). Several of them read and      *)
(* write the same tables.                                                  *)
(*                                                                         *)
(* A server is [db, the tables, memory]: db tells whether the metadata     *)
(* store could be opened, memory is the set of layers that maps are drawn  *)
(* from (it is only without a store that the first of a name is asked for, *)
(* and then there is one of each). A route that writes answers with the    *)
(* server and a status, a list with a set of names, a detail with <<row>>, *)
(* or <<>> if not found.                                                   *)
(***************************************************************************)
EXTENDS SqlTables, SequencesExt

Table == INSTANCE SqliteStore

Answer(srv, status) == [srv |-> srv, status |-> status]

\* What a route answers that needs the store: what came of its statement, or a
\* failure, also when the store could not be opened.
Stored(srv, table, done, status) ==
    IF ~srv.db \/ done.refused THEN Answer(srv, "failed")
    ELSE Answer([srv EXCEPT ![table] = done.table], status)

Found(srv, table, name) ==
    IF srv.db /\ name \in DOMAIN srv[table] THEN <<srv[table][name]>> ELSE <<>>

-----------------------------------------------------------------------------
\* Workspaces. Each is given a namespace of its name; that this may fail is ignored.
list_workspaces(srv) == IF srv.db THEN DOMAIN srv.workspaces ELSE {}
get_workspace(srv, name) == Found(srv, "workspaces", name)

create_workspace(srv, name) ==
    LET done == Table!create_workspace(srv.workspaces, name, [title |-> <<>>], 0)
        spaces == Table!create_namespace(srv.namespaces, name,
                      [uri |-> name, isolated |-> FALSE, workspace |-> <<name>>], 0)
        answer == Stored(srv, "workspaces", done, "created")
    IN  IF answer.status = "failed" THEN answer
        ELSE [answer EXCEPT !.srv.namespaces = spaces.table]

update_workspace(srv, name, given) ==
    Stored(srv, "workspaces", Table!update_workspace(srv.workspaces, name, given, 0), "ok")

\* Nothing of what is in the workspace goes with it.
delete_workspace(srv, name) ==
    Stored(srv, "workspaces", Table!delete_workspace(srv.workspaces, name), "ok")

\* Namespaces.
list_namespaces(srv) == IF srv.db THEN DOMAIN srv.namespaces ELSE {}
get_namespace(srv, prefix) == Found(srv, "namespaces", prefix)

create_namespace(srv, prefix, given) ==
    IF get_namespace(srv, prefix) # <<>> THEN Answer(srv, "conflict")
    ELSE Stored(srv, "namespaces", Table!create_namespace(srv.namespaces, prefix, given, 0), "created")

update_namespace(srv, prefix, given) ==
    Stored(srv, "namespaces", Table!update_namespace(srv.namespaces, prefix, given, 0), "ok")

delete_namespace(srv, prefix) ==
    Stored(srv, "namespaces", Table!delete_namespace(srv.namespaces, prefix), "ok")

-----------------------------------------------------------------------------
\* Stores: data sources under the names GeoServer has for them. The metadata store
\* itself is a data source that has no row.
METADATA_DATA_SOURCE == "metadata"

is_builtin_metadata(name) == name = METADATA_DATA_SOURCE

ds_type_to_store_type(type) ==
    CASE type \in {"geotiff", "worldimage", "arcgrid", "image_mosaic", "image_pyramid"} -> "CoverageStore"
      [] type = "cascaded_wms" -> "CascadedStore"
      [] type = "redis"        -> "RedisCacheStore"
      [] OTHER                 -> "DataStore"

StoreOf(row) == [type |-> ds_type_to_store_type(row.type), workspace |-> row.workspace]

Sources(srv) == IF srv.db THEN Table!read_data_sources(srv.sources) ELSE <<>>

list_stores(srv) == DOMAIN Sources(srv)

list_workspace_stores(srv, w) == {n \in DOMAIN Sources(srv) : Sources(srv)[n].workspace = <<w>>}

get_store(srv, name) == IF name \in list_stores(srv) THEN <<StoreOf(Sources(srv)[name])>> ELSE <<>>

get_workspace_store(srv, w, name) == IF name \in list_workspace_stores(srv, w) THEN get_store(srv, name) ELSE <<>>

InsertStore(srv, body, w) ==
    IF is_builtin_metadata(body.name) \/ get_store(srv, body.name) # <<>> THEN Answer(srv, "conflict")
    ELSE Stored(srv, "sources", Table!create_data_source(srv.sources, body.name, [body EXCEPT !.workspace = w], 0), "created")

\* The workspace is what the body says, and need not be there.
create_store(srv, body) == InsertStore(srv, body, body.workspace)

\* Slip: the workspace of the body is kept.
create_workspace_store_of_body(srv, w, body) ==
    IF srv.db /\ get_workspace(srv, w) = <<>> THEN Answer(srv, "not found")
    ELSE InsertStore(srv, body, IF body.workspace = <<>> THEN <<w>> ELSE body.workspace)

\* The workspace is that of the path, whatever the body says.
create_workspace_store(srv, w, body) ==
    IF srv.db /\ get_workspace(srv, w) = <<>> THEN Answer(srv, "not found")
    ELSE InsertStore(srv, body, <<w>>)

update_store(srv, name, given) ==
    IF is_builtin_metadata(name) THEN Answer(srv, "bad request")
    ELSE Stored(srv, "sources", Table!update_data_source(srv.sources, name, given, 0), "ok")

delete_store(srv, name) ==
    IF is_builtin_metadata(name) THEN Answer(srv, "bad request")
    ELSE Stored(srv, "sources", Table!delete_data_source(srv.sources, name), "ok")

\* The stores of a workspace that are of one type; the workspace must be there.
list_workspace_stores_filtered(srv, w, type) ==
    IF get_workspace(srv, w) = <<>> THEN {}
    ELSE {n \in list_workspace_stores(srv, w) : StoreOf(Sources(srv)[n]).type = type}

list_workspace_datastores(srv, w) == list_workspace_stores_filtered(srv, w, "DataStore")
list_workspace_coveragestores(srv, w) == list_workspace_stores_filtered(srv, w, "CoverageStore")

\* The routes of the data sources put the one that has no row before the others.
builtin_metadata_data_source(srv) == [type |-> srv.builtin, workspace |-> <<>>]

list_data_sources(srv) ==
    IF srv.db THEN <<METADATA_DATA_SOURCE>> \o SetToSeq(DOMAIN Sources(srv)) ELSE <<>>

get_data_source(srv, name) ==
    IF is_builtin_metadata(name) THEN <<builtin_metadata_data_source(srv)>>
    ELSE IF name \in DOMAIN Sources(srv)
         THEN <<[c \in {"type", "workspace"} |-> Sources(srv)[name][c]]>> ELSE <<>>

-----------------------------------------------------------------------------
\* Layers are listed from their rows, or from memory if there is no store.
Named(row, name) == [name |-> name, workspace |-> row.workspace]

LayersShown(srv) == IF srv.db THEN {Named(srv.layers[n], n) : n \in DOMAIN srv.layers} ELSE srv.memory

list_layers(srv) == LayersShown(srv)

get_layer(srv, name) ==
    IF srv.db THEN IF name \in DOMAIN srv.layers THEN <<Named(srv.layers[name], name)>> ELSE <<>>
    ELSE LET named == {l \in srv.memory : l.name = name}
         IN  IF named = {} THEN <<>> ELSE <<CHOOSE l \in named : TRUE>>

list_workspace_layers(srv, w) ==
    IF get_workspace(srv, w) = <<>> THEN {} ELSE {l \in list_layers(srv) : l.workspace = w}

\* Memory as the next start fills it.
Restarted(srv) == [srv EXCEPT !.memory = {Named(srv.layers[n], n) : n \in DOMAIN srv.layers}]

\* SQL views. A view is published as a layer of the same name, in memory only.
list_sql_views(srv) == IF srv.db THEN DOMAIN srv.views ELSE {}
get_sql_view(srv, name) == Found(srv, "views", name)

create_sql_view(srv, name, body) ==
    IF get_sql_view(srv, name) # <<>> THEN Answer(srv, "conflict")
    ELSE LET answer == Stored(srv, "views", Table!create_sql_view(srv.views, name, body, 0), "created")
         IN  IF answer.status = "failed" THEN answer
             ELSE [answer EXCEPT !.srv.memory = @ \cup {Named(body, name)}]

update_sql_view(srv, name, given) ==
    Stored(srv, "views", Table!update_sql_view(srv.views, name, given, 0), "ok")

\* All layers of the name go from memory, whether there is such a view or not.
delete_sql_view(srv, name) ==
    LET answer == Stored(srv, "views", Table!delete_sql_view(srv.views, name), "ok")
    IN  IF answer.status = "failed" THEN answer
        ELSE [answer EXCEPT !.srv.memory = {l \in @ : l.name # name}]

\* A query holds the names of its parameters, and finds some rows. Those given are
\* replaced in the query, but not in the one that is asked for its columns.
preview_sql_view(srv, store, query, given) ==
    CASE store \notin list_stores(srv) -> [status |-> "not found"]
      [] store \in list_stores(srv) /\ Sources(srv)[store].type # "postgis" -> [status |-> "bad request"]
      [] OTHER ->
           IF ~(query.parameters \subseteq given) THEN [status |-> "failed"]
           ELSE [status |-> "ok", rows |-> query.rows,
                 columns |-> IF query.rows = 0 \/ query.parameters # {} THEN {} ELSE query.columns]

-----------------------------------------------------------------------------
\* Permissions. What is left open stands for everything, a mode that is not known
\* for read, an effect that is not known for allow.
RuleOf(body) ==
    [username |-> Or(body.username, "*"), role |-> Or(body.role, "*"), type |-> body.type,
     name |-> Or(body.name, "*"),
     mode |-> IF body.mode \in {<<"write">>, <<"admin">>} THEN body.mode[1] ELSE "read",
     effect |-> IF body.effect = <<"deny">> THEN "deny" ELSE "allow",
     priority |-> Or(body.priority, 0)]

list_permissions(srv) == Table!get_permissions(srv.permissions)

create_permission(srv, body) ==
    Stored(srv, "permissions", Table!create_permission(srv.permissions, RuleOf(body)), "created")

delete_permission(srv, id) ==
    Stored(srv, "permissions", Table!delete_permission(srv.permissions, id), "ok")

\* Without a mode it is read that is asked for.
check_permission_handler(srv, who, type, name, mode) ==
    IF ~srv.db THEN {} ELSE Table!check_permission(srv.permissions, who.username, who.role, type, name, Or(mode, "read"))
=================================================================================
