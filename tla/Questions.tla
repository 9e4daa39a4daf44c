-------------------------------- MODULE Questions --------------------------------
(***************************************************************************)
(* Questions about the algorithms, those that are proved for all inputs. A *)
(* state is a question: what it is about, and the input.                   *)
(***************************************************************************)
EXTENDS Integers, Sequences, SequencesExt, FiniteSets, Functions, AccessRules, TileGrid, Backup

VARIABLE question

Unasked == question = [about |-> "nothing"]

Asks(about, input) == question.about = "nothing" /\ question' = [about |-> about, input |-> input]

-----------------------------------------------------------------------------
\* Access rules.
CONSTANTS
    RuleLists,  \* lists of rules
    Contexts    \* who asks for what

\* Rules as the store has them, whatever their subjects, resources and modes.
AreRules(T) == \A p \in T : p.priority \in Int /\ p.effect \in {"allow", "deny"}

ASSUME RulesAssumption ==
    \A rules \in RuleLists : rules \in Seq(ToSet(rules)) /\ AreRules(ToSet(rules))

AskRules == \E rules \in RuleLists : Asks("rules", rules)

\* The rules that decide are those that the comment of geofence.rs (10-13)
\* promises, whatever the order in which the store lists them: the most specific
\* ones that apply, of these the ones of the highest priority, and any of these
\* may deny. Except where a rule with a wildcard applies beside one with a name
\* of the same or a lower type, as "*" beside "roads" of type layer: the comment
\* has the name win, while evaluate ranks a wildcard of a type like a name of it
\* and lets priorities decide. Of this case nothing is said here.
BestRulesDecide ==
    question.about = "rules" =>
        \A ctx \in Contexts :
            ~WildcardRanksWithNames(question.input, ctx) =>
                /\ Evaluate(question.input, ctx) = PromisedAllow(question.input, ctx)
                /\ EnforceLayerAccess(TRUE, TRUE, question.input, ctx)
                      = (ctx.role # "admin" => PromisedAllow(question.input, ctx))

-----------------------------------------------------------------------------
\* Tile grids: the two of powers of two, and registered ones.
CONSTANT Grids

ASSUME GridsAssumption == \A grid \in Grids : IsCustom(grid) /\ grid.spans \in Seq(Nat)

PowerGrids == {[kind |-> k, spans |-> <<>>] : k \in {"geodetic", "mercator"}}

AskGrid == \E grid \in PowerGrids \cup Grids, z \in 0 .. MAX_ZOOM : Asks("grid", [grid |-> grid, z |-> z])

\* No level before z has its tiles.
FirstOfItsSpan(grid, z) == IsCustom(grid) => \A k \in 0 .. z - 1 : Span(grid, k) # Span(grid, z)

\* Where tile_bounds counts rows from the north, as tile_grid.rs (4-5, 138-139)
\* says of all grids. Not in EPSG:4326, whose rows it counts from the south, and
\* not in EPSG:3857 from level 2 on, where the formula of mercator_lat gives the
\* edges of the southern rows as northern ones.
RowsFromNorth(grid, z) == IsCustom(grid) \/ (grid.kind = "mercator" /\ z < 2)

\* What holds of a level of a grid.
GridFits(grid, z) ==
    LET w    == matrix_width(grid, z)
        h    == matrix_height(grid, z)
        East == GridBox(grid, z, w - 1, 0)
        South == GridBox(grid, z, 0, h - 1)
        DrawnAt(row, col, y) == tile_bounds(grid, z, col, y) = <<DegreeBox(grid, z, col, row)>>
        DrawnByTms(row, col, y) == render_tms_tile(grid, z, col, y) = <<DegreeBox(grid, z, col, row)>>
    IN  /\ tile_bounds(grid, z, w, 0) = NoTile /\ tile_bounds(grid, z, 0, h) = NoTile
        /\ w > 0 => /\ East.minx < World /\ World <= East.maxx
                    /\ South.miny <= 0 /\ 0 < South.maxy
        /\ w > 0 /\ FirstOfItsSpan(grid, z) =>
              \A col \in -1 .. w, row \in -1 .. h :
                 handle_tiled_get_map(grid, GridBox(grid, z, col, row))
                    = IF col = w \/ row = h THEN NoTile ELSE <<z, AtLeast(col, 0), AtLeast(row, 0)>>
        /\ \A col \in 0 .. w - 1, row \in 0 .. h - 1 :
              /\ tile_bounds(grid, z, col, row)[1].minx = GridBox(grid, z, col, row).minx
              /\ tile_bounds(grid, z, col, row)[1].maxx = GridBox(grid, z, col, row).maxx
              /\ RowsFromNorth(grid, z) => DrawnAt(row, col, row) /\ DrawnByTms(row, col, h - 1 - row)
              /\ grid.kind = "geodetic" =>
                    (\E y \in 0 .. h - 1 : DrawnAt(row, col, y)) /\ (\E y \in 0 .. h - 1 : DrawnByTms(row, col, y))

\* The tile protocols and the bounds of the tiles describe one grid
\* (tile_grid.rs): the tiles of a level cover the world and no tile lies outside
\* of it; the box of a tile leads WMS-C back to this tile and its level, and a
\* box that begins west or north of the world to the tile at its edge; bounds
\* are the columns of the grid, and its rows, counted from the north, by TMS from
\* the south (187-188 and the test at 363). Except for the rows of EPSG:4326,
\* which code and comments count from different ends: of these only that every
\* tile of the grid is drawn for some row, by TMS, too; and for those of EPSG:3857
\* from level 2 on, which are not the grid's.
TilesFit == question.about = "grid" => GridFits(question.input.grid, question.input.z)

-----------------------------------------------------------------------------
\* Backups.
CONSTANTS
    Saved,  \* servers that are saved
    Others  \* servers on which they are restored

IsTable(table) == table = [n \in DOMAIN table |-> table[n]]

IsServer(srv) ==
    /\ srv = [rows |-> srv.rows, permissions |-> srv.permissions, layers |-> srv.layers,
              styles |-> srv.styles, groups |-> srv.groups, report |-> srv.report]
    /\ srv.rows = [section \in Sections |-> srv.rows[section]]
    /\ \A section \in Sections : IsTable(srv.rows[section])
    /\ srv.permissions \in Seq(ToSet(srv.permissions)) /\ srv.layers \in Seq(ToSet(srv.layers))
    /\ srv.groups \in Seq(ToSet(srv.groups))
    /\ srv.report \in [done : Nat, refused : Nat]

\* What the columns of a row can be: of a layer, a view, a user anything.
IsConfiguration(rows) ==
    /\ \A n \in DOMAIN rows.workspaces :
          LET w == rows.workspaces[n] IN w = [w EXCEPT !.enabled = w.enabled] /\ w.enabled \in BOOLEAN
    /\ \A n \in DOMAIN rows.sources :
          LET s == rows.sources[n] IN s = [s EXCEPT !.type = s.type]
    /\ \A n \in DOMAIN rows.styles :
          LET s == rows.styles[n]
          IN  s = [title |-> s.title, content |-> s.content, builtin |-> s.builtin, format |-> s.format]
              /\ s.builtin \in BOOLEAN
    /\ \A n \in DOMAIN rows.groups :
          LET g == rows.groups[n] IN g = [layers |-> g.layers, styles |-> g.styles]

\* The styles and groups in memory are those of the tables.
ASSUME BackupAssumption ==
    /\ \A srv \in Saved :
          /\ IsServer(srv) /\ IsConfiguration(srv.rows) /\ srv.styles = srv.rows.styles
          /\ \A section \in Sections : IsFiniteSet(DOMAIN srv.rows[section])
          /\ ToSet(srv.groups) = {[name |-> n, layers |-> srv.rows.groups[n].layers,
                                   styles |-> srv.rows.groups[n].styles] : n \in DOMAIN srv.rows.groups}
    /\ \A srv \in Others : IsServer(srv)

EmptyServer ==
    [rows |-> [section \in Sections |-> <<>>], permissions |-> <<>>, layers |-> <<>>,
     styles |-> <<>>, groups |-> <<>>, report |-> [done |-> 0, refused |-> 0]]

AskBackup == \E srv \in Saved, other \in Others : Asks("backup", [saved |-> srv, other |-> other])

\* A backup restores every name of every section, and every row as it was if the
\* configuration is of the kind a backup can hold; on a server that has some of
\* the names these keep their rows and the rest is restored all the same; an
\* import that was cut off anywhere can be run again and comes to the same rows
\* (backup.rs). Permissions have no names and are there twice then.
RestoredAsSaved ==
    question.about = "backup" =>
        LET srv    == question.input.saved
            other  == question.input.other
            backup == export_backup(srv)
            fresh  == import_backup(EmptyServer, backup)
            onto   == import_backup(other, backup)
        IN  /\ \A section \in Sections : DOMAIN fresh.rows[section] = DOMAIN srv.rows[section]
            /\ Portable(srv) => fresh.rows = srv.rows
            /\ fresh.permissions = srv.permissions
            /\ InStep(fresh)
            /\ onto.report.done + onto.report.refused = Len(backup)
            /\ \A section \in Keyed :
                  LET old == other.rows[section]
                      new == fresh.rows[section]
                  IN  onto.rows[section] = [n \in DOMAIN old \cup DOMAIN new |->
                                               IF n \in DOMAIN old THEN old[n] ELSE new[n]]
            /\ \A k \in 0 .. Len(backup) :
                  import_backup(import_backup(EmptyServer, SubSeq(backup, 1, k)), backup).rows
                      = fresh.rows

-----------------------------------------------------------------------------
\* The metadata stores: the same calls to both, on one of their tables, with
\* starts of the server in between.
Lite == INSTANCE SqliteStore
Pg == INSTANCE PostgresStore

CONSTANTS
    MaxCalls,    \* how many calls there are, a start being one
    RowNames,       \* the names of rows
    Tokens,      \* those of sessions
    Bodies,      \* what each call may be given
    OldSources,  \* the data sources of a database of the first version
    OldLayers    \* its layers

TableNames == DOMAIN Lite!NoTables

\* A connection has all its columns, and the limits are there.
ASSUME StoresAssumption ==
    /\ MaxCalls \in Nat
    /\ \A g \in Bodies.create_data_source : DOMAIN Lite!LaterInSources \subseteq DOMAIN g.connection

\* The first version of each: PostgreSQL has had some columns from the beginning.
FirstLite == [Lite!NoTables EXCEPT !.data_sources = OldSources, !.layers = OldLayers]

FirstPg ==
    [Pg!NoTables EXCEPT
        !.data_sources = Pg!AddColumns(OldSources, [schema_name |-> <<"public">>, file_path |-> <<>>,
                                                    file_storage_type |-> <<"local">>]),
        !.layers = Pg!AddColumns(OldLayers, [native_name |-> <<>>])]

AskStores ==
    /\ question.about = "nothing"
    /\ \E table \in TableNames, old \in BOOLEAN :
        question' = [about |-> "stores", table |-> table, calls |-> 1, alike |-> TRUE,
                     lite |-> Lite!init_db(IF old THEN FirstLite ELSE Lite!NoTables),
                     pg |-> Pg!init_db(IF old THEN FirstPg ELSE Pg!NoTables)]

Goes(alike, lite, pg) ==
    question' = [about |-> "stores", table |-> question.table, calls |-> question.calls + 1,
                 alike |-> alike, lite |-> lite, pg |-> pg]

StartAgain == Goes(TRUE, Lite!init_db(question.lite), Pg!init_db(question.pg))

\* A call comes to the same in both.
Call(lite, pg) ==
    Goes(lite.refused = pg.refused,
         [question.lite EXCEPT ![question.table] = lite.table],
         [question.pg EXCEPT ![question.table] = pg.table])

CallWorkspaces(l, p, now) ==
    \E n \in RowNames :
        \/ \E g \in Bodies.create_workspace : Call(Lite!create_workspace(l, n, g, now), Pg!create_workspace(p, n, g, now))
        \/ \E g \in Bodies.update_workspace : Call(Lite!update_workspace(l, n, g, now), Pg!update_workspace(p, n, g, now))
        \/ Call(Lite!delete_workspace(l, n), Pg!delete_workspace(p, n))

CallNamespaces(l, p, now) ==
    \E n \in RowNames :
        \/ \E g \in Bodies.create_namespace : Call(Lite!create_namespace(l, n, g, now), Pg!create_namespace(p, n, g, now))
        \/ \E g \in Bodies.update_namespace : Call(Lite!update_namespace(l, n, g, now), Pg!update_namespace(p, n, g, now))
        \/ Call(Lite!delete_namespace(l, n), Pg!delete_namespace(p, n))

CallDataSources(l, p, now) ==
    \E n \in RowNames :
        \/ \E g \in Bodies.create_data_source : Call(Lite!create_data_source(l, n, g, now), Pg!create_data_source(p, n, g, now))
        \/ \E g \in Bodies.update_data_source : Call(Lite!update_data_source(l, n, g, now), Pg!update_data_source(p, n, g, now))
        \/ Call(Lite!delete_data_source(l, n), Pg!delete_data_source(p, n))

CallLayers(l, p, now) ==
    \E n \in RowNames :
        \/ \E g \in Bodies.create_layer : Call(Lite!create_layer(l, n, g, now), Pg!create_layer(p, n, g, now))
        \/ \E g \in Bodies.update_layer : Call(Lite!update_layer(l, n, g, now), Pg!update_layer(p, n, g, now))
        \/ Call(Lite!delete_layer(l, n), Pg!delete_layer(p, n))

CallSqlViews(l, p, now) ==
    \E n \in RowNames :
        \/ \E g \in Bodies.create_sql_view : Call(Lite!create_sql_view(l, n, g, now), Pg!create_sql_view(p, n, g, now))
        \/ \E g \in Bodies.update_sql_view : Call(Lite!update_sql_view(l, n, g, now), Pg!update_sql_view(p, n, g, now))
        \/ Call(Lite!delete_sql_view(l, n), Pg!delete_sql_view(p, n))

CallUsers(l, p, now) ==
    \E n \in RowNames :
        \/ \E g \in Bodies.create_user : Call(Lite!create_user(l, n, g, now), Pg!create_user(p, n, g, now))
        \/ \E g \in Bodies.update_user : Call(Lite!update_user(l, n, g, now), Pg!update_user(p, n, g, now))
        \/ Call(Lite!delete_user(l, n), Pg!delete_user(p, n))

\* No rule is made that differs from the default one in nothing but its priority,
\* and none of several default ones is deleted.
CallPermissions(l, p) ==
    \/ \E rule \in Bodies.create_permission :
        /\ Pg!LikeDefault(rule) => rule = Pg!DefaultRule
        /\ Call(Lite!create_permission(l, rule), Pg!create_permission(p, rule))
    \/ \E i \in DOMAIN l.rows, j \in DOMAIN p.rows :
        /\ l.rows[i] = p.rows[j]
        /\ l.rows[i] = Pg!DefaultRule => \A k \in DOMAIN l.rows : l.rows[k] = Pg!DefaultRule => k = i
        /\ Call(Lite!delete_permission(l, i), Pg!delete_permission(p, j))

CallStyles(l, p, now) ==
    \E n \in RowNames :
        \/ \E g \in Bodies.create_style : Call(Lite!create_style(l, n, g, now), Pg!create_style(p, n, g, now))
        \/ \E g \in Bodies.update_style : Call(Lite!update_style(l, n, g, now), Pg!update_style(p, n, g, now))
        \/ Call(Lite!delete_style(l, n), Pg!delete_style(p, n))

CallLayerGroups(l, p, now) ==
    \E n \in RowNames :
        \/ \E g \in Bodies.create_layer_group : Call(Lite!create_layer_group(l, n, g, now), Pg!create_layer_group(p, n, g, now))
        \/ Call(Lite!delete_layer_group(l, n), Pg!delete_layer_group(p, n))

CallSessions(l, p, now) ==
    \/ \E jti \in Tokens, user \in Bodies.create_session :
        LET g == [username |-> user, expires_at |-> now + 1]
        IN  Call(Lite!create_session(l, jti, g, now), Pg!create_session(p, jti, g, now))
    \/ \E jti \in Tokens : Call(Lite!delete_session(l, jti), Pg!delete_session(p, jti))
    \/ \E user \in Bodies.create_session : Call(Lite!delete_user_sessions(l, user), Pg!delete_user_sessions(p, user))
    \/ Call(Lite!cleanup_expired_sessions(l, now), Pg!cleanup_expired_sessions(p, now))

CallSettings(l, p) ==
    \E n \in RowNames, g \in Bodies.save_service_settings :
        Call(Lite!save_service_settings(l, n, g), Pg!save_service_settings(p, n, g))

\* The calls so far are the time.
CallStores ==
    /\ question.about = "stores" /\ question.calls < MaxCalls
    /\ LET table == question.table
           l == question.lite[table]
           p == question.pg[table]
           now == question.calls
       IN  \/ StartAgain
           \/ table = "workspaces" /\ CallWorkspaces(l, p, now)
           \/ table = "namespaces" /\ CallNamespaces(l, p, now)
           \/ table = "data_sources" /\ CallDataSources(l, p, now)
           \/ table = "layers" /\ CallLayers(l, p, now)
           \/ table = "sql_views" /\ CallSqlViews(l, p, now)
           \/ table = "users" /\ CallUsers(l, p, now)
           \/ table = "audit_log" /\ Call(Lite!audit_log(l, now), Pg!audit_log(p, now))
           \/ table = "permissions" /\ CallPermissions(l, p)
           \/ table = "styles" /\ CallStyles(l, p, now)
           \/ table = "layer_groups" /\ CallLayerGroups(l, p, now)
           \/ table = "sessions" /\ CallSessions(l, p, now)
           \/ table = "service_settings" /\ CallSettings(l, p)

\* Rows without the time of their creation, of which a row that replaces another
\* has its own in one store and the old one in the other.
Uncreated(t) == [k \in DOMAIN t |-> [c \in DOMAIN t[k] \ {"created"} |-> t[k][c]]]

\* Whatever the calls and restarts, and from a database of an old version, a server
\* on PostgreSQL refuses the calls that one on SQLite refuses and reads the same
\* after them; of several copies of the default rule none is deleted
\* (sqlite_store.rs, postgres_store.rs).
StoresAgree ==
    question.about = "stores" =>
        LET l == question.lite
            p == question.pg
        IN  /\ question.alike
            /\ Lite!read_workspaces(l.workspaces) = Pg!read_workspaces(p.workspaces)
            /\ Lite!read_namespaces(l.namespaces) = Pg!read_namespaces(p.namespaces)
            /\ Lite!read_data_sources(l.data_sources) = Pg!read_data_sources(p.data_sources)
            /\ Lite!read_layers(l.layers) = Pg!read_layers(p.layers)
            /\ Lite!read_sql_views(l.sql_views) = Pg!read_sql_views(p.sql_views)
            /\ Lite!read_users(l.users) = Pg!read_users(p.users)
            /\ \A limit, offset \in 0 .. MaxCalls :
                  Lite!get_audit_logs(l.audit_log, limit, offset) = Pg!get_audit_logs(p.audit_log, limit, offset)
            /\ Range(Lite!get_permissions(l.permissions)) = Range(Pg!get_permissions(p.permissions))
            /\ \A g \in Bodies.check_permission :
                  Lite!check_permission(l.permissions, g.username, g.role, g.type, g.name, g.mode)
                    = Pg!check_permission(p.permissions, g.username, g.role, g.type, g.name, g.mode)
            /\ Uncreated(Lite!read_styles(l.styles)) = Uncreated(Pg!read_styles(p.styles))
            /\ Uncreated(Lite!read_layer_groups(l.layer_groups)) = Uncreated(Pg!read_layer_groups(p.layer_groups))
            /\ \A jti \in Tokens : Lite!get_session(l.sessions, jti) = Pg!get_session(p.sessions, jti)
            /\ Lite!get_service_settings(l.service_settings) = Pg!get_service_settings(p.service_settings)

-----------------------------------------------------------------------------
\* The routes of the administration: an administrator calls them one after the
\* other, and keeps an account of what the answers say is there.
Admin == INSTANCE CatalogHandlers

CONSTANTS
    MaxRoutes,    \* how many calls there are
    Workspaces,   \* the workspaces that are made and removed
    Hearsay,      \* those that the body of a store may name
    SourceNames,  \* the names of stores
    SourceTypes,  \* their types
    ViewNames,    \* the names of SQL views
    LayersThere,  \* the rows of layers, which the routes of views leave alone
    AdminRules,   \* the bodies of rules
    Askers        \* who asks for which layer, for what

VectorTypes == {"postgis", "mysql", "mongo", "shapefile", "geopackage", "geojson"}
RasterTypes == {"geotiff", "worldimage", "arcgrid", "image_mosaic", "image_pyramid"}

Opt(S) == {<<>>} \cup {<<x>> : x \in S}
IsGiven(value) == value = <<>> \/ value = <<value[1]>>

\* Stores are of the types that there are. Each part of a rule but its type may be absent.
ASSUME RoutesAssumption ==
    /\ SourceTypes \subseteq VectorTypes \cup RasterTypes \cup {"cascaded_wms", "redis"}
    /\ \A body \in AdminRules : IsGiven(body.username) /\ IsGiven(body.role) /\ IsGiven(body.name)

NoneTold == [workspaces |-> {}, namespaces |-> {}, sources |-> <<>>, views |-> {}, published |-> {}, rules |-> <<>>]

StartedRoutes(db) ==
    [db |-> db, builtin |-> "metadata", workspaces |-> <<>>, namespaces |-> <<>>, sources |-> <<>>, views |-> <<>>,
     permissions |-> [rows |-> <<>>, last |-> 0], layers |-> LayersThere,
     memory |-> {Admin!Named(LayersThere[n], n) : n \in DOMAIN LayersThere}]

RoutesGo(subject, calls, srv, told) ==
    question' = [about |-> "routes", subject |-> subject, calls |-> calls, srv |-> srv, told |-> told]

AskRoutes ==
    /\ question.about = "nothing"
    /\ \E db \in BOOLEAN, subject \in {"places", "views", "rules"} :
        \/ RoutesGo(subject, 0, StartedRoutes(db), NoneTold)
        \/ \E w \in Workspaces :
            RoutesGo(subject, 0, Admin!create_workspace(StartedRoutes(db), w).srv,
                     IF db THEN [NoneTold EXCEPT !.workspaces = {w}, !.namespaces = {w}] ELSE NoneTold)

\* The answer came with this status, after which the account is told.
Routed(answer, statuses, told) ==
    answer.status \in statuses /\ RoutesGo(question.subject, question.calls + 1, answer.srv, told)

Told(answer, status, told) ==
    \/ Routed(answer, {status}, told)
    \/ Routed(answer, {"conflict", "failed", "not found", "bad request"}, question.told)

RouteWorkspaces(srv, told) ==
    \E w \in Workspaces :
        \/ Told(Admin!create_workspace(srv, w), "created",
                [told EXCEPT !.workspaces = @ \cup {w}, !.namespaces = @ \cup {w}])
        \/ Told(Admin!update_workspace(srv, w, [title |-> <<"t">>, enabled |-> <<>>]), "ok", told)
        \/ Told(Admin!delete_workspace(srv, w), "ok", [told EXCEPT !.workspaces = @ \ {w}])

RouteNamespaces(srv, told) ==
    \E w \in Workspaces :
        \/ Told(Admin!create_namespace(srv, w, [uri |-> "u", isolated |-> FALSE, workspace |-> <<>>]), "created",
                [told EXCEPT !.namespaces = @ \cup {w}])
        \/ Told(Admin!update_namespace(srv, w, [uri |-> <<"v">>, isolated |-> <<TRUE>>, workspace |-> <<>>]), "ok", told)
        \/ Told(Admin!delete_namespace(srv, w), "ok", [told EXCEPT !.namespaces = @ \ {w}])

\* The account of stores with n of this type, in these workspaces.
Believe(told, n, type, ws) == [told EXCEPT !.sources = Admin!Put(@, n, [type |-> type, workspace |-> ws])]

RouteStores(srv, told) ==
    \E n \in SourceNames :
        \/ \E type \in SourceTypes, ws \in Opt(Hearsay) :
             LET body == [name |-> n, type |-> type, workspace |-> ws, enabled |-> TRUE,
                          connection |-> [schema_name |-> <<"public">>]]
             IN  \/ Told(Admin!create_store(srv, body), "created", Believe(told, n, type, ws))
                 \/ \E w \in Workspaces :
                      Told(Admin!create_workspace_store(srv, w, body), "created", Believe(told, n, type, <<w>>))
        \/ \E type \in Opt(SourceTypes), ws \in Opt(Hearsay) :
             Told(Admin!update_store(srv, n, [type |-> type, workspace |-> ws, enabled |-> <<>>, connection |-> <<>>]), "ok",
                  IF n \notin DOMAIN told.sources THEN told
                  ELSE Believe(told, n, IF type = <<>> THEN told.sources[n].type ELSE type[1],
                               IF ws = <<>> THEN told.sources[n].workspace ELSE ws))
        \/ Told(Admin!delete_store(srv, n), "ok", [told EXCEPT !.sources = Restrict(@, DOMAIN @ \ {n})])

RouteViews(srv, told) ==
    \/ \E n \in ViewNames, w \in Hearsay :
        \/ Told(Admin!create_sql_view(srv, n, [sql |-> "q", parameters |-> <<>>, description |-> <<>>, workspace |-> w]), "created",
                [told EXCEPT !.views = @ \cup {n}, !.published = @ \cup {n}])
        \/ Told(Admin!update_sql_view(srv, n, [sql |-> <<"r">>, parameters |-> <<>>, description |-> <<>>]), "ok", told)
        \/ Told(Admin!delete_sql_view(srv, n), "ok", [told EXCEPT !.views = @ \ {n}, !.published = @ \ {n}])
    \/ Routed(Admin!Answer(Admin!Restarted(srv), "ok"), {"ok"}, [told EXCEPT !.published = {}])

RoutePermissions(srv, told) ==
    \/ \E body \in AdminRules :
        Told(Admin!create_permission(srv, body), "created",
             [told EXCEPT !.rules = Admin!Put(@, srv.permissions.last + 1, body)])
    \/ \E id \in DOMAIN told.rules :
        Told(Admin!delete_permission(srv, id), "ok", [told EXCEPT !.rules = Restrict(@, DOMAIN @ \ {id})])

CallRoutes ==
    /\ question.about = "routes" /\ question.calls < MaxRoutes
    /\ LET srv == question.srv
           told == question.told
       IN  \/ question.subject = "places" /\ (RouteWorkspaces(srv, told) \/ RouteNamespaces(srv, told) \/ RouteStores(srv, told))
           \/ question.subject = "views" /\ RouteViews(srv, told)
           \/ question.subject = "rules" /\ RoutePermissions(srv, told)

\* What a body says of who asks: what is left open says nothing, and so does a star.
Speaks(body, who, name, mode) ==
    /\ body.username \in {<<>>, <<"*">>, <<who.username>>} /\ body.role \in {<<>>, <<"*">>, <<who.role>>}
    /\ body.type \in {"*", "layer"} /\ body.name \in {<<>>, <<"*">>, <<name>>}
    /\ body.mode = <<"admin">> \/ mode = IF body.mode = <<"write">> THEN "write" ELSE "read"

\* What the routes show of workspaces, each of which came with its namespace.
PlacesSeen(srv, told) ==
    /\ Admin!list_workspaces(srv) = told.workspaces /\ Admin!list_namespaces(srv) = told.namespaces
    /\ \A w \in Workspaces :
          /\ (Admin!get_workspace(srv, w) # <<>>) = (w \in told.workspaces)
          /\ (Admin!get_namespace(srv, w) # <<>>) = (w \in told.namespaces)

\* Of stores, which are data sources as well.
StoresSeen(srv, told) ==
    LET stores == told.sources
        In(w) == {n \in DOMAIN stores : stores[n].workspace = <<w>>}
    IN  /\ Admin!list_stores(srv) = DOMAIN stores
        /\ \A n \in SourceNames \ {"metadata"} :
              Admin!get_data_source(srv, n) = IF n \in DOMAIN stores THEN <<stores[n]>> ELSE <<>>
        /\ srv.db => /\ ToSet(Admin!list_data_sources(srv)) = DOMAIN stores \cup {"metadata"}
                     /\ Len(Admin!list_data_sources(srv)) = Cardinality(DOMAIN stores) + 1
        /\ Admin!get_data_source(srv, "metadata") = <<[type |-> "metadata", workspace |-> <<>>]>>
        /\ Admin!get_store(srv, "metadata") = <<>>
        /\ \A w \in Workspaces \cup Hearsay :
              /\ Admin!list_workspace_stores(srv, w) = In(w)
              /\ {n \in SourceNames : Admin!get_workspace_store(srv, w, n) # <<>>} = In(w)
              /\ Admin!list_workspace_datastores(srv, w)
                    = IF w \in told.workspaces THEN {n \in In(w) : stores[n].type \in VectorTypes} ELSE {}
              /\ Admin!list_workspace_coveragestores(srv, w)
                    = IF w \in told.workspaces THEN {n \in In(w) : stores[n].type \in RasterTypes} ELSE {}
        /\ \A n \in SourceNames, given \in SUBSET {"p"} :
              Admin!preview_sql_view(srv, n, [parameters |-> {"p"}, rows |-> 1, columns |-> {"c"}], given).status = "ok"
                 <=> n \in DOMAIN stores /\ stores[n].type = "postgis" /\ "p" \in given

\* Of layers and of SQL views.
LayersSeen(srv, told) ==
    /\ Admin!list_sql_views(srv) = told.views
    /\ \A n \in ViewNames :
          LET OnMap == {l \in srv.memory : l.name = n}
          IN  /\ (Admin!get_sql_view(srv, n) # <<>>) = (n \in told.views)
              /\ n \in told.published => OnMap # {}
              /\ n \notin DOMAIN LayersThere /\ n \notin told.views => OnMap = {}
    /\ \A n \in DOMAIN LayersThere : Admin!get_layer(srv, n) # <<>>
    /\ \A w \in Workspaces \cup Hearsay :
          Admin!list_workspace_layers(srv, w)
             = IF w \in told.workspaces THEN {l \in Admin!list_layers(srv) : l.workspace = w} ELSE {}

\* And of rules, by what they let who do: those that speak of who asks, and among
\* these the ones of the highest priority.
Heard(rules, who) == {i \in DOMAIN rules : Speaks(rules[i], who, who.name, Admin!Or(who.mode, "read"))}

Foremost(rules, who) ==
    {i \in Heard(rules, who) : \A j \in Heard(rules, who) :
        Admin!Or(rules[j].priority, 0) <= Admin!Or(rules[i].priority, 0)}

RulesSeen(srv, told) ==
    /\ DOMAIN Admin!list_permissions(srv) = DOMAIN told.rules
    /\ srv.db => \A who \in Askers :
          Admin!check_permission_handler(srv, who, "layer", who.name, who.mode)
            = IF Heard(told.rules, who) = {} THEN {who.role = "admin"}
              ELSE {told.rules[i].effect # <<"deny">> : i \in Foremost(told.rules, who)}

\* Who goes by the answers of the routes alone knows what is there, and all routes
\* show it: workspaces, each of which came with its namespace; stores, under the
\* workspace that was named and of the type that was given, and as data sources next
\* to the one of the server itself, which no call makes, changes or removes; SQL views,
\* published under their names until the server starts again; and rules, which apply
\* to everything that was left open (handlers of workspaces, namespaces, stores, data
\* sources, SQL views, layers and permissions).
OneView ==
    question.about = "routes" =>
        /\ PlacesSeen(question.srv, question.told) /\ StoresSeen(question.srv, question.told)
        /\ LayersSeen(question.srv, question.told) /\ RulesSeen(question.srv, question.told)

-----------------------------------------------------------------------------
\* Files: what a source offers, and what its layers open.
Disk == INSTANCE LayerFiles

CONSTANT FileSources  \* sources of files, each with the files that are there

IsName(name) ==
    name = [stem |-> name.stem, ext |-> name.ext] /\ name.stem # <<>> /\ name.stem \in Seq(ToSet(name.stem))

AreNames(names) == names \in Seq(ToSet(names)) /\ \A name \in ToSet(names) : IsName(name)

IsConnection(conn) ==
    /\ conn = [storage |-> conn.storage, path |-> conn.path]
    /\ conn.path # <<>> => /\ conn.path = <<[parts |-> conn.path[1].parts, slash |-> conn.path[1].slash]>>
                           /\ AreNames(conn.path[1].parts) /\ conn.path[1].slash \in BOOLEAN

\* Files have names, and on disk there is nothing below a file.
ASSUME FilesAssumption ==
    \A s \in FileSources :
        /\ IsConnection(s.ds.conn)
        /\ \A f \in s.w.local \cup s.w.bucket : f # <<>> /\ AreNames(f) /\ AreNames(s.w.tables[f])
        /\ \A f, g \in s.w.local : ~IsStrictPrefix(f, g)

AskFiles == \E s \in FileSources : Asks("files", s)

FromDisk(s) == Disk!storage_type(s.ds.conn) = "local"
OfDirectory(s) == Disk!is_directory_connection(s.w, s.ds.conn)
Directory(s) == IF s.ds.conn.path = <<>> THEN <<>> ELSE s.ds.conn.path[1].parts

Beneath(files, dir) == {f \in files : Len(f) = Len(dir) + 1 /\ IsPrefix(dir, f)}

\* A name that is read as it was offered: tables are, but for blanks; a file is, unless
\* another directory has one of this stem, for the keys of a prefix are put into one.
Proper(s, name) ==
    /\ ~Contains(name.stem, " ")
    /\ OfDirectory(s) =>
          /\ ~Contains(name.stem, "\\")
          /\ \A f \in Disk!FilesOf(s.w, s.ds.conn) :
                Len(f) > Len(Directory(s)) + 1 => Last(f).stem # name.stem

\* A layer of this name shows this file, with the companions beside it, and this table, if any;
\* its bounds and its feature type are read from there as well.
OpensAs(s, name, file, table) ==
    LET reads  == Disk!Reads(s.w, s.ds, <<name>>)
        bounds == Disk!compute_layer_bounds(s.w, s.ds, <<name>>)
        typed  == Disk!get_layer_feature_type(s.w, s.ds, <<name>>)
    IN  /\ reads.main = {file}
        /\ s.ds.type \in {"shapefile", "worldimage"} =>
              reads.beside = {f \in Beneath(Disk!FilesOf(s.w, s.ds.conn), Directory(s)) : f # file /\ Last(f).stem = name.stem}
        /\ s.ds.type = "geopackage" =>
              /\ reads.table = table
              /\ typed = IF table = <<>> THEN <<>> ELSE <<[file |-> {file}, table |-> table[1]]>>
              /\ Disk!update_layer_feature_type(s.w, s.ds, <<name>>) \in {<<>>, typed}
        /\ FromDisk(s) => bounds.main = reads.main /\ bounds.table = reads.table

OfferedOpen(s) ==
    \A name \in {name \in Disk!get_data_source_tables(s.w, s.ds) : Proper(s, name)} :
        IF OfDirectory(s)
        THEN LET file == Append(Directory(s), name)
                 tables == s.w.tables[file]
             IN  OpensAs(s, name, file, IF tables = <<>> THEN <<>> ELSE <<tables[1]>>)
        ELSE OpensAs(s, name, Directory(s), <<name>>)

\* A source whose test says that it is connected has something to show.
TestedShows(s) ==
    Disk!test_datasource_connection(s.w, s.ds) =>
        IF s.ds.type \in Disk!DirectoryTypes
        THEN FromDisk(s) => /\ Disk!ReadsGranules(s.w, s.ds) = Disk!compute_layer_bounds(s.w, s.ds, <<>>).main
                            /\ Disk!ReadsGranules(s.w, s.ds) # {}
        ELSE IF OfDirectory(s) THEN Disk!get_data_source_tables(s.w, s.ds) # {}
        ELSE Disk!Reads(s.w, s.ds, <<>>).main # {}

\* So has a coverage store of a directory in which all names are proper.
FoundShows(s) ==
    LET offered == Disk!get_data_source_tables(s.w, s.ds)
    IN  OfDirectory(s) /\ offered # {} /\ (\A name \in offered : Proper(s, name)) =>
            \A native \in Disk!resolve_raster_native_name(s.w, s.ds, <<>>) : Disk!Reads(s.w, s.ds, native).main # {}

\* A path that is shown as one of a directory makes a connection to a directory.
BrowsedConnects(s) ==
    LET dir == IF OfDirectory(s) THEN Directory(s) ELSE <<>>
    IN  \A e \in IF FromDisk(s) THEN Disk!browse_local(s.w, dir) ELSE Disk!browse_s3(s.w, dir) :
            e.is_dir <=> Disk!is_directory_connection(s.w, [s.ds.conn EXCEPT !.path = <<e.path>>])

\* What is offered opens: a layer of a name that the tables of a source list shows
\* the file, or the table, of this name with the companions beside it; its bounds
\* and its feature type are read from there as well; a source whose test says that
\* it is connected has something to show; and browsing tells directories from
\* files. Not so for names in blanks, and for keys of a bucket whose last name is
\* there in two directories (file_resolver.rs, data_source_handler.rs).
OfferedOpens ==
    question.about = "files" =>
        LET s == question.input
        IN  OfferedOpen(s) /\ TestedShows(s) /\ FoundShows(s) /\ BrowsedConnects(s)

-----------------------------------------------------------------------------
\* Whoever asks one of these questions, and goes on with calls to the stores and the routes.
ProvedNext == AskRules \/ AskGrid \/ AskBackup \/ AskStores \/ CallStores \/ AskRoutes \/ CallRoutes
              \/ AskFiles

ProvedSpec == Unasked /\ [][ProvedNext]_question
=================================================================================
