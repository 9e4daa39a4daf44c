------------------------------ MODULE PostgresStore ------------------------------
(***************************************************************************)
(* The metadata store in PostgreSQL, store/postgres_store.rs, which replicas*)
(* share: the operations of SqliteStore, written once more for another     *)
(* database. Every method is one statement.                                *)
(***************************************************************************)
EXTENDS SqlTables, SequencesExt

Types == {"postgis", "mysql", "mongo", "shapefile", "geotiff", "geopackage", "geojson", "worldimage",
          "cascaded_wms", "redis", "image_mosaic", "image_pyramid", "arcgrid"}

\* What every store has: administrators may do everything.
DefaultRule == [username |-> "*", role |-> "admin", type |-> "*", name |-> "*",
                mode |-> "admin", effect |-> "allow", priority |-> 100]

NoTables ==
    [workspaces |-> <<>>, namespaces |-> <<>>, data_sources |-> <<>>, layers |-> <<>>,
     sql_views |-> <<>>, users |-> <<>>, audit_log |-> <<>>,
     permissions |-> [rows |-> <<>>, last |-> 0], styles |-> <<>>, layer_groups |-> <<>>,
     sessions |-> <<>>, service_settings |-> <<>>]

\* The columns that came later, each looked for at every start, with what old
\* rows get there.
LaterInSources ==
    [s3_endpoint |-> <<>>, s3_region |-> <<>>, s3_bucket |-> <<>>, s3_access_key |-> <<>>,
     s3_secret_key |-> <<>>, replica_set |-> <<>>]

LaterInLayers == [cache_store |-> <<>>]

Migrated(db) == [db EXCEPT !.data_sources = AddColumns(@, LaterInSources),
                           !.layers = AddColumns(@, LaterInLayers)]

LikeDefault(rule) == [rule EXCEPT !.priority = 0] = [DefaultRule EXCEPT !.priority = 0]

\* The statements of a start are one transaction. The default rule is inserted
\* where there is none like it, of whatever priority.
init_db(db) ==
    LET new == Migrated(db)
        id  == new.permissions.last + 1
    IN  IF \E i \in DOMAIN new.permissions.rows : LikeDefault(new.permissions.rows[i]) THEN new
        ELSE [new EXCEPT !.permissions = [rows |-> Put(@.rows, id, DefaultRule), last |-> id]]

-----------------------------------------------------------------------------
\* Workspaces.
read_workspaces(t) == t

create_workspace(t, name, given, now) ==
    Insert(t, name, [title |-> Or(given.title, name), enabled |-> TRUE,
                     created |-> now, modified |-> now])

update_workspace(t, name, given, now) ==
    Update(t, name, [title |-> given.title, enabled |-> given.enabled, modified |-> <<now>>])

delete_workspace(t, name) == Delete(t, name)

\* Namespaces.
read_namespaces(t) == t

create_namespace(t, prefix, given, now) ==
    Insert(t, prefix, [uri |-> given.uri, isolated |-> given.isolated,
                       workspace |-> given.workspace, created |-> now, modified |-> now])

update_namespace(t, prefix, given, now) ==
    Update(t, prefix, [uri |-> given.uri, isolated |-> given.isolated,
                       workspace |-> Nullable(given.workspace), modified |-> <<now>>])

delete_namespace(t, prefix) == Delete(t, prefix)

-----------------------------------------------------------------------------
\* Data sources. A connection is a function from ConnColumns. A type that is not
\* in the list is read as postgis; without a schema it is "public".
parse_ds_type(type) == IF type \in Types THEN type ELSE "postgis"

read_data_sources(t) ==
    [n \in DOMAIN t |-> [t[n] EXCEPT !["type"] = parse_ds_type(@),
                                     !["schema_name"] = <<Or(@, "public")>>]]

create_data_source(t, name, given, now) ==
    Insert(t, name, Over([type |-> given.type, workspace |-> given.workspace,
                          enabled |-> given.enabled, created |-> now, modified |-> now],
                         given.connection))

update_data_source(t, name, given, now) ==
    Update(t, name, Over([type |-> given.type, enabled |-> given.enabled,
                          workspace |-> Nullable(given.workspace), modified |-> <<now>>],
                         IF given.connection = <<>> THEN <<>>
                         ELSE [c \in DOMAIN given.connection[1] |-> <<given.connection[1][c]>>]))

delete_data_source(t, name) == Delete(t, name)

-----------------------------------------------------------------------------
\* Layers. cache_store may be set to NULL.
read_layers(t) == t

create_layer(t, name, given, now) ==
    Insert(t, name, [title |-> given.title, native_name |-> given.native_name,
                     enabled |-> given.enabled, cache_store |-> given.cache_store,
                     created |-> now, modified |-> now])

update_layer(t, name, given, now) ==
    Update(t, name, [title |-> given.title, native_name |-> Nullable(given.native_name),
                     enabled |-> given.enabled, cache_store |-> given.cache_store,
                     modified |-> <<now>>])

delete_layer(t, name) == Delete(t, name)

\* SQL views.
read_sql_views(t) == t

create_sql_view(t, name, given, now) ==
    Insert(t, name, [sql |-> given.sql, parameters |-> given.parameters,
                     description |-> given.description, created |-> now, modified |-> now])

update_sql_view(t, name, given, now) ==
    Update(t, name, [sql |-> given.sql, parameters |-> given.parameters,
                     description |-> Nullable(given.description), modified |-> <<now>>])

delete_sql_view(t, name) == Delete(t, name)

-----------------------------------------------------------------------------
\* Users. A role that is not in the list is read as that of a user.
read_users(t) ==
    [n \in DOMAIN t |-> [t[n] EXCEPT !["role"] =
        IF @ \in {"admin", "manager", "guest"} THEN @ ELSE "user"]]

create_user(t, name, given, now) ==
    Insert(t, name, [password |-> given.password, role |-> given.role,
                     enabled |-> given.enabled, created |-> now, modified |-> now])

update_user(t, name, given, now) ==
    Update(t, name, [role |-> given.role, enabled |-> given.enabled,
                     password |-> given.password, modified |-> <<now>>])

delete_user(t, name) == Delete(t, name)

\* The audit log is a sequence; it is read from its end.
audit_log(t, entry) == Done(Append(t, entry))

get_audit_logs(t, limit, offset) ==
    LET newest == Reverse(t)
        last   == offset + limit
    IN  SubSeq(newest, offset + 1, IF last < Len(t) THEN last ELSE Len(t))

-----------------------------------------------------------------------------
\* Permissions: [rows, last], where last is the latest id.
get_permissions(t) == t.rows

create_permission(t, rule) ==
    Done([rows |-> Put(t.rows, t.last + 1, rule), last |-> t.last + 1])

delete_permission(t, id) == Done([t EXCEPT !.rows = Restrict(@, DOMAIN @ \ {id})])

\* What may be answered: the database takes any of the matching rules of the
\* highest priority. Without a rule, an admin may.
check_permission(t, username, role, type, name, mode) ==
    LET matching == {i \in DOMAIN t.rows :
            /\ t.rows[i].username \in {username, "*"} /\ t.rows[i].role \in {role, "*"}
            /\ t.rows[i].type \in {type, "*"} /\ t.rows[i].name \in {name, "*"}
            /\ t.rows[i].mode \in {mode, "admin"}}
        first == {i \in matching : \A j \in matching : t.rows[j].priority <= t.rows[i].priority}
    IN  IF matching = {} THEN {role = "admin"} ELSE {t.rows[i].effect = "allow" : i \in first}

-----------------------------------------------------------------------------
\* Styles, layer groups, sessions and settings are replaced.
read_styles(t) == t

\* Slip: a style that is there refuses a new one.
create_style_once(t, name, given, now) ==
    Insert(t, name, [title |-> given.title, format |-> given.format, is_builtin |-> given.is_builtin,
                     content |-> given.content, created |-> now, modified |-> now])

create_style(t, name, given, now) ==
    Upsert(t, name, [title |-> given.title, format |-> given.format, is_builtin |-> given.is_builtin,
                     content |-> given.content, created |-> now, modified |-> now],
           {"title", "format", "is_builtin", "content", "modified"})

update_style(t, name, given, now) ==
    Update(t, name, [title |-> given.title, format |-> given.format, content |-> given.content,
                     is_builtin |-> given.is_builtin, modified |-> <<now>>])

delete_style(t, name) == Delete(t, name)

read_layer_groups(t) == t

create_layer_group(t, name, given, now) ==
    Upsert(t, name, [title |-> given.title, layers |-> given.layers,
                     created |-> now, modified |-> now],
           {"title", "layers", "modified"})

delete_layer_group(t, name) == Delete(t, name)

get_session(t, jti) == IF jti \in DOMAIN t THEN <<t[jti]>> ELSE <<>>

create_session(t, jti, given, now) ==
    Upsert(t, jti, [username |-> given.username, expires_at |-> given.expires_at, last_seen_at |-> now],
           {"username", "expires_at", "last_seen_at"})

delete_session(t, jti) == Delete(t, jti)

delete_user_sessions(t, username) == DeleteAll(t, {k \in DOMAIN t : t[k]["username"] = username})

cleanup_expired_sessions(t, now) == DeleteAll(t, {k \in DOMAIN t : t[k]["expires_at"] < now})

get_service_settings(t) == t

save_service_settings(t, service, given) ==
    Upsert(t, service, [title |-> given.title, keywords |-> given.keywords],
           {"title", "keywords"})
=================================================================================
