------------------------------ MODULE MCAlgorithms ------------------------------
(***************************************************************************)
(* The algorithms without a state, each asked about every input of a set   *)
(* of inputs. A state is a question: which algorithm, and the input.       *)
(***************************************************************************)
EXTENDS Questions, FilterReaders, FeatureQueries, TLC

CONSTANTS MaxFeatures, CoverageSize

SeqsUpTo(S, n) == UNION {[1 .. k -> S] : k \in 0 .. n}

-----------------------------------------------------------------------------
\* Access rules: all pairs of rules, and all lists of three of a few of them.
Resources == {<<"layer", "roads">>, <<"layer", "topo:roads">>, <<"layer", "*">>,
              <<"store", "pg">>, <<"workspace", "topo">>, <<"service", "">>}

Rule(u, r, type, name, mode, effect, priority) ==
    [username |-> u, role |-> r, type |-> type, name |-> name, mode |-> mode,
     effect |-> effect, priority |-> priority]

Rules == {Rule(u, r, res[1], res[2], m, e, p) :
            u \in {"ann", "*"}, r \in {"user", "*"}, res \in Resources,
            m \in {"read"}, e \in {"allow", "deny"}, p \in {0, 1}}
         \cup {Rule("ann", "*", "layer", "roads", "write", e, 0) : e \in {"allow", "deny"}}

FewRules == {r \in Rules : r.username = "*" /\ r.role = "*" /\ r.mode = "read" /\ r.type \in {"layer", "store"}
                           /\ r.name # "topo:roads"}

PairsAndTriples == (Rules \X Rules) \cup (FewRules \X FewRules \X FewRules)

Asking == {[username |-> "ann", role |-> "user", workspace |-> "topo", store |-> "pg",
            layer |-> "roads", mode |-> m] : m \in {"read", "write"}}

-----------------------------------------------------------------------------
\* The metadata stores: what each call is given.
Conn(host, schema) ==
    [host |-> <<host>>, schema_name |-> schema, file_path |-> <<>>, file_storage_type |-> <<"local">>,
     replica_set |-> <<>>, s3_endpoint |-> <<>>, s3_region |-> <<>>, s3_bucket |-> <<>>,
     s3_access_key |-> <<>>, s3_secret_key |-> <<>>]

SomeBodies ==
    [create_workspace |-> [title : Opt({"t", "u"}), enabled : Opt({FALSE})],
     update_workspace |-> [title : Opt({"t", "u"}), enabled : Opt({FALSE})],
     create_namespace |-> [uri : {"a", "b"}, isolated : BOOLEAN, workspace : Opt({"w"})],
     update_namespace |-> [uri : Opt({"b"}), isolated : Opt(BOOLEAN), workspace : Opt({"w"})],
     create_data_source |-> [type : {"mysql", "metadata"}, workspace : Opt({"w"}), enabled : {TRUE},
                             connection : {Conn("h", schema) : schema \in Opt({"s"})}],
     update_data_source |-> [type : Opt({"geojson"}), workspace : Opt({"v"}), enabled : Opt({FALSE}),
                             connection : Opt({Conn("i", <<>>)})],
     create_layer |-> [title : {"t"}, native_name : Opt({"t"}), enabled : BOOLEAN, cache_store : Opt({"redis"})],
     update_layer |-> [title : Opt({"u"}), native_name : Opt({"v"}), enabled : Opt({FALSE}), cache_store : Opt(Opt({"r"}))],
     create_sql_view |-> [sql : {"s"}, parameters : {<<>>, <<"p">>}, description : Opt({"d"})],
     update_sql_view |-> [sql : Opt({"r"}), parameters : Opt({<<>>, <<"q">>}), description : Opt({"e"})],
     create_user |-> [password : {"x"}, role : {"admin", "user"}, enabled : {TRUE}],
     update_user |-> [password : Opt({"y"}), role : Opt({"guest"}), enabled : Opt({FALSE})],
     create_permission |-> {Rule("*", "user", "*", "*", m, e, p) : m \in {"read", "admin"}, e \in {"allow", "deny"}, p \in {0, 100}}
                           \cup {Rule("*", "admin", "*", "*", "admin", "allow", p) : p \in {0, 100}},
     check_permission |-> [username : {"ann"}, role : {"admin", "user"}, type : {"layer"}, name : {"roads"}, mode : {"read", "write"}],
     create_style |-> [title : {"t"}, format : {"SLD", "CSS"}, is_builtin : {FALSE}, content : {"c"}],
     update_style |-> [title : Opt({"u"}), format : Opt({"CSS"}), content : Opt({"d"}), is_builtin : Opt({TRUE})],
     create_layer_group |-> [title : {"t"}, layers : {<<>>, <<"l">>}],
     create_session |-> {"ann", "bob"},
     save_service_settings |-> [title : Opt({"t"}), keywords : {<<>>, <<"k">>}]]

OneOldSource == "d" :> [type |-> "mysql", workspace |-> <<"w">>, enabled |-> TRUE, created |-> 0, modified |-> 0, host |-> <<"h">>]
OneOldLayer == "d" :> [title |-> "t", enabled |-> TRUE, created |-> 0, modified |-> 0]

-----------------------------------------------------------------------------
\* Filters: trees of two levels of operators over a few leaves.
Numeral == "1" :> 1 @@ "2" :> 2 @@ "10" :> 10
Ranks == "1" :> 1 @@ "10" :> 2 @@ "2" :> 3 @@ "x" :> 4 @@ "y" :> 5
Shades == [t \in {"808080", "000000", "333333", "ff0000", "00ff00", "0000FF"} |-> <<t>>] @@ "orange" :> <<>>
Capitals == "n" :> "N" @@ "s" :> "S" @@ "ID" :> "ID" @@ "color" :> "COLOR" @@ "brand" :> "BRAND"
Endings == "color" :> "OR" @@ "brand" :> "AND"

Number(t) == [kind |-> "number", text |-> t]
Text(t) == [kind |-> "text", text |-> t]

Leaves == {[op |-> "cmp", attr |-> "n", rel |-> rel, lit |-> Number("2")] : rel \in {"<>", "<", ">="}}
          \cup {[op |-> "cmp", attr |-> a, rel |-> "=", lit |-> Text("x")] : a \in {"s", "color", "brand"}}
          \cup {[op |-> "between", attr |-> a, low |-> "1", high |-> "2"] : a \in {"n", "brand"}}
          \cup {[op |-> "among", attr |-> "s", texts |-> {"y", "z"}],
                [op |-> "null", attr |-> "ID"], [op |-> "notnull", attr |-> "ID"],
                [op |-> "null", attr |-> "s"], [op |-> "null", attr |-> "color"]}

Not(S) == {[op |-> "not", args |-> <<n>>] : n \in S}
Both(S, n) == {[op |-> op, args |-> args] : op \in {"and", "or"}, args \in [1 .. n -> S]}

Simple == Leaves \cup Not(Leaves) \cup Both(Leaves, 2)
FewLeaves == {l \in Leaves : \/ l.op = "between" /\ l.attr = "n"
                             \/ l.op = "cmp" /\ l.rel \in {"=", ">="} /\ l.attr # "color"}
FewSimple == FewLeaves \cup Not(FewLeaves) \cup Both(FewLeaves, 2)
Nodes == Simple \cup Not(Simple) \cup Both(FewSimple, 2) \cup Both(FewLeaves, 3)

FilterFeatures == {[props |-> ("n" :> Number(n) @@ "s" :> Text(s) @@ "color" :> Text("x") @@ "brand" :> Number(n)),
                    place |-> "inside"] : n \in {"1", "2", "10"}, s \in {"x", "y"}}

AskFilter == \E node \in Nodes : Asks("filter", node)

RECURSIVE LeavesOf(_)
LeavesOf(node) == IF node.op \in {"and", "or", "not"}
                  THEN UNION {LeavesOf(node.args[i]) : i \in DOMAIN node.args} ELSE {node}

RECURSIVE BetweenUnderAnd(_)
BetweenUnderAnd(node) ==
    /\ node.op \in {"and", "or", "not"}
    /\ \/ node.op = "and" /\ \E l \in LeavesOf(node) : l.op = "between"
       \/ \E i \in DOMAIN node.args : BetweenUnderAnd(node.args[i])

\* What the author of the filter means.
RECURSIVE Meaning(_, _)
Meaning(f, node) ==
    CASE node.op = "and" -> \A i \in DOMAIN node.args : Meaning(f, node.args[i])
      [] node.op = "or"  -> \E i \in DOMAIN node.args : Meaning(f, node.args[i])
      [] node.op = "not" -> ~Meaning(f, node.args[1])
      [] OTHER           -> EvaluateCql(f, node)

\* The filters that CQL does not read as they are meant:
\*   - BETWEEN beneath an AND, as a text with a BETWEEN is not split at AND
\*     (cql_filter.rs:156-157);
\*   - IS NULL and IS NOT NULL of an attribute whose name is not in capitals, as
\*     the name is taken from the capitalised text (195-202);
\*   - an attribute whose name ends in "or" or "and", as the keyword is looked
\*     for without its left edge (836-837): such a filter cannot be read at all,
\*     but for "and" before a BETWEEN.
TornLeaf(l) == l.attr \in DOMAIN Endings /\ ~(l.op = "between" /\ Endings[l.attr] = "AND")
CapitalLost(l) == l.op \in {"null", "notnull"} /\ Capitals[l.attr] # l.attr

\* Splitting a text again and again at keywords, brackets apart, reads every
\* other CQL filter as it is meant: AND before OR, NOT before both, brackets
\* first, wherever they stand (cql_filter.rs, parse_cql). A filter with a torn
\* name is never read as something else: WFS refuses it and WMS draws every
\* feature (wms_handler.rs).
ParsedAsWritten ==
    question.about = "filter" /\ ~BetweenUnderAnd(question.input) =>
        LET leaves == LeavesOf(question.input)
            read   == ParseCql(CqlText(question.input))
        IN  IF \E l \in leaves : TornLeaf(l) THEN read = Error
            ELSE (\A l \in leaves : ~CapitalLost(l)) =>
                    read # Error /\ \A f \in FilterFeatures : EvaluateCql(f, read) = Meaning(f, question.input)

\* A filter on attributes that every feature has keeps the same features as CQL,
\* as an OGC filter in WFS and as a filter of a rule of a style, though each has
\* a reader and an evaluator of its own (cql_filter.rs, wfs.rs, sld_parser.rs).
OneMeaning ==
    question.about = "filter" /\ (\A l \in LeavesOf(question.input) : l.op \notin {"null", "notnull"}) =>
        LET read == ReadRule(Events(question.input))
            rule == [filters |-> read, min |-> {}, max |-> {}]
        IN  /\ Len(read) = 1
            /\ \A f \in FilterFeatures :
                  /\ ValidateFilter(f, NodeToFilter(question.input)) = Meaning(f, question.input)
                  /\ MatchRule(rule, f, {}) = Meaning(f, question.input)

-----------------------------------------------------------------------------
\* LIKE: all short texts and patterns of two letters.
AskLike ==
    \E text \in SeqsUpTo({"a", "b"}, 4),
       pattern \in SeqsUpTo({"a", "b", "%", "_"}, 4) \cup [1 .. 5 -> {"a", "b", "%"}] :
        Asks("like", [text |-> text, pattern |-> pattern])

Letters(pattern) == Cardinality({i \in DOMAIN pattern : pattern[i] # "%"})

\* wildcard_match of WFS and styles finds every text in which the "%" of the
\* pattern stand for no more than one character in all, and decides rightly on
\* all texts no longer than the pattern without its "%". The LIKE of CQL misses
\* nothing that SQL finds if the pattern has no "_", and is right on patterns
\* that begin and end with "%" (wfs.rs, sld_parser.rs, cql_filter.rs).
LikeSound ==
    question.about = "like" =>
        LET text    == question.input.text
            pattern == question.input.pattern
            like    == SqlLike(text, pattern)
        IN  /\ Len(text) <= Letters(pattern) => WildcardMatch(text, pattern) = like
            /\ like /\ Len(text) <= Letters(pattern) + 1 => WildcardMatch(text, pattern)
            /\ (\A i \in DOMAIN pattern : pattern[i] # "_") =>
                  /\ like => RegexLike(text, pattern)
                  /\ pattern # <<>> /\ pattern[1] = "%" /\ pattern[Len(pattern)] = "%"
                        => RegexLike(text, pattern) = like


-----------------------------------------------------------------------------
\* Registered grids of two levels, whose tiles do and do not divide the world.
CustomGrids == {[kind |-> "custom", spans |-> <<a, b>>] : a \in {72, 50, 36, 25, 20}, b \in {24, 18, 10, 7, 5}}
               \cup {[kind |-> "custom", spans |-> <<25, 0, 25>>]}

-----------------------------------------------------------------------------
\* Pages: sources of up to three records, of every place, with and without ids.
Records(n) ==
    {[i \in 1 .. n |-> [key |-> i, name |-> IF named[i] THEN <<"p", "q", "r">>[i] ELSE NoName, place |-> places[i]]] :
        named \in [1 .. n -> BOOLEAN], places \in [1 .. n -> {"in", "out", "across", "away"}]}

AskPages ==
    \E kind \in Files \cup Databases \cup {"geotiff"}, n \in 0 .. 3 :
        \E rows \in Records(n) : Asks("pages", [kind |-> kind, rows |-> rows])

\* The rows a source shows: a GeoJSON file those with an id, a raster none.
RowsShown(kind, rows) ==
    CASE kind = "geojson" -> SelectSeq(rows, LAMBDA r : r.name # NoName)
      [] kind \in Pictures -> <<>>
      [] OTHER -> rows

\* No row twice, and as many of those that are shown as the limit allows.
SomeOf(keys, shown, limit) ==
    IsInjective(keys) /\ ToSet(keys) \subseteq ToSet(Keys(shown)) /\ Len(keys) = Len(Take(shown, limit))

\* What the reads of one client may list, and whether they list alike.
Reads(kind, rows) ==
    IF kind \in Databases THEN [1 .. DefaultLimit -> Listings(kind, rows)]
    ELSE [1 .. Len(rows) + 1 -> Listings(kind, rows)]
Alike(listed) == \A p \in DOMAIN listed : listed[p] = listed[1]

\* Whoever asks page after page gets every row that the source shows once, in
\* the order of the source: with limit and offset from GeoJSON files and shapes,
\* with the next links of the OGC API from all sources, and with WFS if the count
\* includes what is skipped (features.rs, ogc_features.rs, wfs_handler.rs).
\* Except that
\*   - of a database only the first DefaultLimit rows are ever read (features.rs
\*     411, 520, 600), and if two reads do not list them alike, as they need not
\*     without an ORDER BY (398-420, 509-531, 601-605), a walk still has as many
\*     features as it should, but may miss rows and repeat others, and so may
\*     two requests to WFS;
\*   - the next link forgets the box (ogc_features.rs:150-161): a walk with a box
\*     is right if what is in the box fits on its first page, and that page is
\*     right in any case.
PagesCoverOnce ==
    question.about = "pages" =>
        LET kind  == question.input.kind
            rows  == question.input.rows
            shown == RowsShown(kind, rows)
            limit == IF kind \in Databases THEN <<DefaultLimit>> ELSE <<>>
            \* a point out of the box is left out, and an area kept
            Near(r)  == r.place # "out"
            \* the OGC API looks at the box of an area
            Meets(r) == r.place \in {"in", "across"}
        IN  /\ \A n \in 1 .. 2, box \in BOOLEAN :
                  kind \in {"geojson", "shapefile"} =>
                     RestPages(kind, rows, box, n) = Keys(IF box THEN SelectSeq(shown, Near) ELSE shown)
            /\ \A n \in 1 .. 2, list \in Listings(kind, rows) :
                  SomeOf(Keys(query_layer_features(kind, list, FALSE, <<n>>, <<>>, 1)), shown, <<n>>)
            /\ \A n \in 1 .. 2, listed \in Reads(kind, rows) :
                  LET first == Take(RowsShown(kind, listed[1]), limit)
                      found == SelectSeq(first, Meets)
                      walk  == Keys(Walk(kind, listed, 1, FALSE, <<n>>, <<>>))
                      boxed == Keys(Walk(kind, listed, 1, TRUE, <<n>>, <<>>))
                  IN  /\ Alike(listed) => walk = Keys(first)
                      /\ Len(walk) = Len(first) /\ ToSet(walk) \subseteq ToSet(Keys(shown))
                      /\ Len(found) <= n => boxed = Keys(found)
                      /\ IsPrefix(Keys(Take(found, <<n>>)), boxed)
            /\ \A n \in 1 .. 2, start \in 0 .. 2, box \in BOOLEAN, list \in Listings(kind, rows) :
                  LET first == Take(RowsShown(kind, list), limit)
                      whole == IF box THEN SelectSeq(first, Near) ELSE first
                  IN  Keys(query_features(kind, list, box, <<>>, <<start + n>>, <<start>>, 1))
                         = Keys(Take(Skip(whole, <<start>>), <<n>>))

\* The id of a feature names it at the next read: the feature is found by it, and
\* a lock holds for exactly the features that were asked for (features.rs,
\* wfs_handler.rs). Not so for shapes and for tables of PostGIS without an id
\* that is a text, which are named anew at every read. The ids of MySQL and
\* Mongo are places in the answer (features.rs:558, 646) and those of PostGIS
\* may be beyond the limit next time: they last only as long as the reads list
\* the rows alike, or all rows of PostGIS are read.
IdsLast ==
    question.about = "pages" /\ KeepsIds(question.input.kind, question.input.rows) =>
        LET kind == question.input.kind
            rows == question.input.rows
            lists == Listings(kind, rows)
            reads == IF kind = "postgis" /\ Len(rows) <= DefaultLimit THEN [1 .. 3 -> lists]
                     ELSE {[p \in 1 .. 3 |-> list] : list \in lists}
        IN  \A listed \in reads :
              LET all == All(kind, listed[1], 1)
              IN  /\ \A i \in DOMAIN all : get_feature(kind, listed[2], all[i].id, 2) = <<all[i]>>
                  /\ \A box \in BOOLEAN :
                        LET locked == ToSet(query_layer_fids(kind, listed[1], box, <<>>, 1))
                        IN  ToSet(query_features(kind, listed[2], FALSE, <<locked>>, <<>>, <<>>, 2))
                              = ToSet(query_features(kind, listed[3], box, <<>>, <<>>, <<>>, 3))

\* Features are there once, and at the next read under the same name, but for
\* what is listed above.
PagesKeep == PagesCoverOnce /\ IdsLast

-----------------------------------------------------------------------------
\* Backups: servers with at most one name in each section, in several variants.
Tables(name, variants) == {<<>>} \cup {name :> v : v \in variants}

Looks(l) == [text |-> "text", looks |-> l]
StyleRow(format, looks, builtin) ==
    [title |-> "title", content |-> Looks(looks), builtin |-> builtin, format |-> format]

Server(rows, groups, permissions) ==
    [rows |-> rows, permissions |-> permissions, groups |-> groups, styles |-> rows.styles,
     layers |-> IF DOMAIN rows.layers = {} THEN <<>> ELSE <<[name |-> "l", enabled |-> TRUE]>>,
     report |-> [done |-> 0, refused |-> 0]]

GroupsOf(table) == IF DOMAIN table = {} THEN <<>>
                   ELSE <<[name |-> "g", layers |-> table.g.layers, styles |-> table.g.styles]>>

SomeServers ==
    {Server([workspaces |-> w, sources |-> s, layers |-> l, styles |-> st, groups |-> g,
             namespaces |-> <<>>, views |-> v, users |-> u], GroupsOf(g), p) :
        w \in Tables("w", {[enabled |-> e] : e \in BOOLEAN}),
        s \in Tables("s", {[type |-> t] : t \in {"postgis", "mysql"}}),
        l \in Tables("l", {[enabled |-> FALSE]}),
        st \in Tables("st", {StyleRow("CSS", "CSS", FALSE), StyleRow("SLD", "CSS", FALSE),
                             StyleRow("SLD", "SLD", TRUE), StyleRow("SLD", "SLD", FALSE)}),
        g \in Tables("g", {[layers |-> <<"l">>, styles |-> x] : x \in {<<>>, <<"st">>}}),
        v \in {"v" :> "view"}, u \in {"u" :> "user"}, p \in {<<>>, <<"rule">>}}

\* A server that has some of the names already.
OtherServer ==
    Server([EmptyServer.rows EXCEPT !.sources = "s" :> [type |-> "redis"],
                                    !.layers = "l" :> [enabled |-> TRUE],
                                    !.users = "u" :> "other user"], <<>>, <<"other rule">>)

OneOtherServer == {OtherServer}

-----------------------------------------------------------------------------
Import == INSTANCE Imports

-----------------------------------------------------------------------------
\* Files: what may be there of each type, in two directories of which one has a
\* name with which the other begins.
File(dir, stem, ext) == Append(dir, [stem |-> stem, ext |-> ext])

Top == <<>>
Dir == File(Top, <<"d">>, "")
A == <<"a">>

Pool(type) ==
    CASE type = "shapefile"    -> {File(Top, A, "shp"), File(Dir, A, "shp"), File(Dir, A, "dbf"), File(Dir, <<"a", "b">>, "shp"),
                                   File(Dir, <<"a", "b">>, "dbf"), File(File(Dir, A, ""), A, "shp"), File(Dir, <<" ", "a">>, "shp")}
      [] type = "worldimage"   -> {File(Top, A, "png"), File(Dir, A, "png"), File(Dir, A, "tif"), File(Dir, A, "wld"),
                                   File(Dir, <<"a", "\\">>, "png"), File(File(Dir, A, ""), <<"b">>, "wld")}
      [] type = "geopackage"   -> {File(dir, stem, "gpkg") : dir \in {Top, Dir}, stem \in {A, <<"b">>}}
      [] type \in Import!DirectoryTypes ->
            {File(dir, A, "tif") : dir \in {Dir, File(Dir, <<"0">>, ""), File(Dir, <<"1">>, "")}} \cup {File(Dir, A, "wld")}
      [] OTHER                 -> {File(dir, A, ext) : dir \in {Top, Dir}, ext \in {"json", "tif", "asc"}}

Connections(type) ==
    {[storage |-> storage, path |-> path] : storage \in {<<>>, <<"s3">>},
        path \in {<<>>} \cup {<<[parts |-> Dir, slash |-> FALSE]>>}
                        \cup {<<[parts |-> parts, slash |-> TRUE]>> : parts \in {Top, Dir}}
                        \cup {<<[parts |-> f, slash |-> FALSE]>> : f \in {f \in Pool(type) : Len(f) = 1}}}

SomeFileSources ==
    UNION {{[ds |-> [name |-> "ds", type |-> type, conn |-> conn],
             w |-> [local |-> files, bucket |-> files,
                    tables |-> [f \in files |-> [i \in DOMAIN tables |-> [stem |-> tables[i], ext |-> ""]]]]] :
                files \in SUBSET Pool(type), conn \in Connections(type),
                tables \in IF type = "geopackage" THEN {<<>>, <<A>>, <<A, <<"b">>>>} ELSE {<<A>>}} :
            type \in Import!FileTypes}

-----------------------------------------------------------------------------
\* Imports: archives of up to three members, some of which take one name, on
\* servers that have none, one or the other of these names.
Members ==
    {<<[stem |-> m[1], ext |-> m[2]]>> : m \in {<<A, "json">>, <<A, "tif">>, <<A, "dbf">>, <<A, "shp">>, <<A, "txt">>,
        <<<<"b", ":">>, "gpkg">>, <<<<"b", "_">>, "gpkg">>, <<<<"_">>, "json">>, <<<<"1">>, "tif">>}}
    \cup {<<Dir[1], [stem |-> <<"e">>, ext |-> "json"]>>}

Archives == {s \in SeqsUpTo(Members, 3) : s # <<>> /\ Import!IsInjective(s)}

ImportInto == {[workspaces |-> {}, namespaces |-> {}, sources |-> sources, layers |-> layers] :
                 sources \in {<<>>, A :> [type |-> "postgis", conn |-> [storage |-> <<>>, path |-> <<>>]]},
                 layers \in {<<>>, A :> [store |-> <<"x">>, native |-> <<>>]}}

EmptyDisk == [local |-> {}, bucket |-> {}, tables |-> <<>>]

AskImports == \E archive \in Archives, st \in ImportInto : Asks("import", [archive |-> archive, st |-> st])

Once == <<[stem |-> <<"u">>, ext |-> ""]>>
Again == <<[stem |-> <<"v">>, ext |-> ""]>>

ImportedOpens ==
    question.about = "import" =>
        LET archive == question.input.archive
            st      == question.input.st
            top     == Import!TopOf(archive, Once)
            disk    == [EmptyDisk EXCEPT !.tables = [f \in Import!UnpackedTo(archive, Once) |-> <<[stem |-> <<"t">>, ext |-> ""]>>]]
        IN  \A order \in SetToSeqs(top) :
              LET first   == Import!run_import(disk, st, "ws", archive, Once, order)
                  second  == Import!run_import(first.w, first.st, "ws", archive, Again, order)
                  created == {e \in ToSet(first.entries) : e.status = "created"}
                  names   == {e.layer[1] : e \in created}
              IN  /\ Len(first.entries) = Cardinality({e.file : e \in ToSet(first.entries)})
                  /\ {e.file : e \in ToSet(first.entries)} = {f \in top : f.ext \notin Import!Companions}
                  /\ Cardinality(names) = Cardinality(created)
                  /\ DOMAIN first.st.layers = DOMAIN st.layers \cup names
                  /\ \A name \in DOMAIN st.layers : first.st.layers[name] = st.layers[name]
                  /\ \A name \in DOMAIN st.sources : first.st.sources[name] = st.sources[name]
                  /\ \A e \in created :
                        LET layer == first.st.layers[e.layer[1]]
                            shown == Import!Reads(first.w, first.st.sources[layer.store], layer.native)
                        IN  /\ shown.main = {Append(Once, e.file)}
                            /\ shown.table # <<>> <=> e.file.ext = "gpkg"
                            /\ e.file.ext = "shp" =>
                                  shown.beside = {Append(Once, f) : f \in {f \in top : f.stem = e.file.stem /\ f # e.file}}
                  /\ second.st = first.st
                  /\ \A e \in ToSet(second.entries) : e.status = "skipped"

-----------------------------------------------------------------------------
\* Samples: a first start with all or some of the files, cut off after any step,
\* and started again.
AskSamples ==
    \E bundled \in SUBSET ToSet(Import!SampleDatasets), cut \in 0 .. Len(Import!SampleSteps) + 1,
       workspaces \in SUBSET {"demo"} :
        Asks("samples", [bundled |-> bundled, cut |-> cut, workspaces |-> workspaces])

SeedingResumes ==
    question.about = "samples" =>
        LET srv == [w |-> EmptyDisk, bundled |-> question.input.bundled, fresh |-> FALSE,
                    st |-> [workspaces |-> question.input.workspaces, namespaces |-> question.input.workspaces,
                            sources |-> <<>>, layers |-> <<>>]]
            all == Len(Import!SampleSteps) + 1
            cut == Import!Start(srv, Once, question.input.cut)
            again == Import!Start(cut, Once, all)
            whole == Import!Start(srv, Once, all)
        IN  /\ \A name \in DOMAIN again.st.layers :
                  LET layer == again.st.layers[name]
                  IN  name # Import!WorldLayer =>
                        Import!Reads(again.w, again.st.sources[layer.store], layer.native).main
                            = {Append(Once, layer.native[1])}
            /\ DOMAIN cut.st.layers = {} =>
                  /\ again.st.layers = whole.st.layers /\ again.st.sources = whole.st.sources
                  /\ again.st.workspaces = whole.st.workspaces
                  /\ ~cut.fresh => again.st.namespaces = whole.st.namespaces
            /\ Import!Start(again, Once, all) = again

\* An import reports each file once, and what it reports as created shows the file;
\* nothing that was there is changed, and the same archive sent again changes
\* nothing (importer.rs). A first start that was cut off before its first layer
\* comes to what an undisturbed one comes to when it is started again; only the
\* namespace of a workspace may be missing (samples.rs, state.rs).
ImportsOpen == ImportedOpens /\ SeedingResumes

-----------------------------------------------------------------------------
Maps == INSTANCE MapRequests

-----------------------------------------------------------------------------
\* Maps: a catalogue in which two workspaces have a layer of one name, and requests
\* for up to two of its layers.
MapLayers ==
    <<[name |-> <<"roads">>, workspace |-> "topo", store |-> "gj", styles |-> <<"blue">>],
      [name |-> <<"roads">>, workspace |-> "base", store |-> "pg", styles |-> <<"css">>],
      [name |-> <<"dem">>, workspace |-> "topo", store |-> "tif", styles |-> <<>>],
      [name |-> <<"far">>, workspace |-> "topo", store |-> "wms", styles |-> <<"gone">>]>>

Geometry(kind, parts) == [kind |-> kind, parts |-> parts]

MapRow(key, place, hit, n, time, kind) ==
    [key |-> key, name |-> "feat_" \o ToString(key), place |-> place, hit |-> hit, time |-> time, height |-> <<>>,
     props |-> "n" :> Number(n), geometry |-> Geometry(kind, <<key>>)]

RoadRows == <<MapRow(1, "in", TRUE, "1", <<1>>, "Point"), MapRow(2, "across", TRUE, "2", <<>>, "Polygon"),
              MapRow(3, "in", FALSE, "2", <<2>>, "Point"), MapRow(4, "out", FALSE, "1", <<1>>, "Point")>>

MapRule(filters, min, max, z) == [filters |-> filters, min |-> min, max |-> max, z |-> z]
NIs(text) == [op |-> "cmp", attr |-> "n", rel |-> "=", lit |-> Number(text)]

MapStyles ==
    "blue" :> [sld |-> TRUE, rules |-> <<MapRule(<<NIs("1")>>, {}, {10}, 1), MapRule(<<>>, {5}, {}, 0)>>]
    @@ "css" :> [sld |-> FALSE, rules |-> <<MapRule(<<>>, {}, {}, -1)>>]

Worlds ==
    {[layers |-> IF turned THEN <<MapLayers[2], MapLayers[1], MapLayers[3], MapLayers[4]>> ELSE MapLayers,
      styles |-> MapStyles, denied |-> denied,
      sources |-> "gj" :> [kind |-> "geojson", rows |-> RoadRows, fails |-> FALSE]
                  @@ "pg" :> [kind |-> "postgis", rows |-> Tail(RoadRows), fails |-> fails]
                  @@ "tif" :> [kind |-> "geotiff", rows |-> <<>>, fails |-> fails]
                  @@ "wms" :> [kind |-> "cascaded_wms", rows |-> <<>>, fails |-> fails]] :
        turned \in BOOLEAN, fails \in BOOLEAN, denied \in {{}, {[workspace |-> "base", store |-> "pg", layer |-> <<"roads">>]}}}

MapNames == {<<"roads">>, <<"topo", "roads">>, <<"base", "roads">>, <<"topo", "dem">>, <<"far">>, <<"base", "dem">>}

Narrow == [time |-> <<[slash |-> FALSE, parts |-> <<<<1>>>>]>>, elevation |-> <<>>, ids |-> <<>>, scale |-> 20]
Named == [time |-> <<>>, elevation |-> <<>>, ids |-> <<{"feat_1", "feat_2"}>>, scale |-> 1]
Wide == [time |-> <<>>, elevation |-> <<>>, ids |-> <<>>, scale |-> 7]

MapRequest(layers, styles, filters, about, transparent, format) ==
    [layers |-> layers, styles |-> styles, filters |-> filters, transparent |-> transparent, format |-> format,
     bbox |-> <<"box">>, width |-> 512, height |-> 512] @@ about

AskMap ==
    \E w \in Worlds, layers \in SeqsUpTo(MapNames, 2), about \in {Narrow, Named, Wide}, transparent \in BOOLEAN,
       styles \in {<<>>, <<<<"css">>>>, <<<<>>, <<"css">>>>, <<<<"css">>, <<"blue">>>>},
       filters \in {<<>>, <<<<NIs("1")>>>>, <<<<>>, <<NIs("2")>>>>, <<<<NIs("2")>>, <<[op |-> "unreadable"]>>>>},
       format \in {{"png"}, {"kml"}} :
        /\ transparent => format = {"png"}
        /\ Asks("map", [w |-> w, q |-> MapRequest(layers, styles, filters, about, transparent, format)])

\* A map of several layers shows what the maps of its layers show, each with its
\* own style and filter; it comes about if all of these do. Rasters show on a
\* transparent image, and on another one if nothing else is drawn. The layer whose
\* access is checked is the one that is shown, and the style that GetStyles names
\* for it, and the rules of its legend, are those it is drawn with.
LayersCompose ==
    question.about = "map" =>
        LET w == question.input.w
            q == question.input.q
            Alone(i) == Maps!handle_get_map(w, [q EXCEPT !.layers = <<q.layers[i]>>, !.styles = <<Maps!At(q.styles, i)>>,
                                                         !.filters = <<Maps!At(q.filters, i)>>])
            Made(map) == map.answer \in ToSet(Maps!Writers)
            Unplaced(own) == [n \in DOMAIN own |-> [own[n] EXCEPT !.layer = 0]]
            Of(map, i) == Unplaced(SelectSeq(map.shown, LAMBDA x : "key" \in DOMAIN x /\ x.layer = i))
            ShowsRaster(map, i) == \E n \in DOMAIN map.shown : "raster" \in DOMAIN map.shown[n] /\ map.shown[n].layer = i
            SameShown(i, whole, alone) ==
                /\ Of(whole, i) = Of(alone, 1)
                /\ q.transparent \/ Len(q.layers) = 1 \/ Maps!Metadata(w, q, i).source.kind # "geotiff" =>
                      ShowsRaster(whole, i) = ShowsRaster(alone, 1)
            Composed(whole, alone) ==
                /\ q.layers # <<>> => (Made(whole) <=> \A i \in DOMAIN q.layers : Made(alone[i]))
                /\ Made(whole) => \A i \in DOMAIN q.layers : SameShown(i, whole, alone[i])
            Said(i, layer, style, plain) ==
                LET default == Maps!Metadata(w, plain, i)
                IN  /\ Maps!enforce_geofence_for_layers(w.layers, q.layers[i])
                          = [workspace |-> layer.workspace, store |-> layer.store, layer |-> layer.name]
                    /\ style \in DOMAIN w.styles =>
                          /\ default.rules = w.styles[style].rules
                          /\ w.styles[style].sld =>
                                {x.rule : x \in ToSet(Maps!resolve_feature_styles(plain, default, i))} \ {0}
                                    \subseteq Maps!handle_get_legend_graphic(w, q.layers[i], {q.scale})
            Resolved(i, at) == at # 0 => Said(i, w.layers[at], Maps!handle_get_styles(w, q.layers[i]), [q EXCEPT !.styles = <<>>])
        IN  /\ Composed(Maps!handle_get_map(w, q), [i \in DOMAIN q.layers |-> Alone(i)])
            /\ \A i \in DOMAIN q.layers : Resolved(i, Maps!resolve_layer(w.layers, q.layers[i]))

\* Clicks: each layer with something among the features that are looked at is in
\* the answer, however many the layers before it had; no more are told of than are
\* wanted, and one for each further layer; what is told of is hit, and is drawn on
\* the map without filters.
InfoFindsEach ==
    question.about = "map" =>
        LET w == question.input.w
            q == question.input.q
            plain == [q EXCEPT !.filters = <<>>, !.time = <<>>, !.ids = <<>>, !.format = {"kml"}]
            Informed(count, map, found) ==
                /\ Len(found) <= count + Len(q.layers)
                /\ (\A i \in DOMAIN q.layers : Maps!enforce_geofence_for_layers(w.layers, q.layers[i]) \notin w.denied) =>
                      \A i \in DOMAIN q.layers :
                         \A first \in ToSet(Maps!Take(Maps!InfoOf(w, <<>>, q.layers[i], count), <<1>>)) : first \in ToSet(found)
                /\ map.answer = "kml" => \A x \in ToSet(found) : x.key \in {d.key : d \in ToSet(map.shown)}
        IN  \A count \in 1 .. 2 : Informed(count, Maps!handle_get_map(w, plain), Maps!handle_get_feature_info(w, q, count))

-----------------------------------------------------------------------------
\* Pictures: triangles on a small lattice, as areas and as holes; rasters and maps
\* along an axis; labels; what hits a cell.
Lattice == (0 .. 3) \X (0 .. 3)

\* On which side of the edge from a to b the point p lies.
Side(a, b, p) == (b[1] - a[1]) * (p[2] - a[2]) - (b[2] - a[2]) * (p[1] - a[1])

Triangles == {t \in Lattice \X Lattice \X Lattice : Side(t[1], t[2], t[3]) > 0 /\ \A i \in 2 .. 3 : t[1][1] * 4 + t[1][2] < t[i][1] * 4 + t[i][2]}

Beyond(t, p) == {i \in 1 .. 3 : Side(t[i], t[(i % 3) + 1], p) < 0}
Inside(t, p) == \A i \in 1 .. 3 : Side(t[i], t[(i % 3) + 1], p) > 0
Right(p) == <<p[1] + 1, p[2]>>

Moved(t) == [i \in 1 .. 3 |-> <<t[i][1] + 1, t[i][2] + 1>>]
Frame == <<<<0, 0>>, <<5, 0>>, <<5, 5>>, <<0, 5>>>>

Spans == {[lo |-> lo, hi |-> hi] : lo \in 0 .. 3, hi \in 1 .. 5}
ProperSpans == {s \in Spans : s.lo < s.hi}

LabelBoxes == {[x0 |-> x, x1 |-> x + n, y0 |-> y, y1 |-> y + 1] : x \in {-3, -1, 0, 1, 4}, n \in 1 .. 2, y \in 0 .. 1}

AskPictures ==
    \/ \E t \in Triangles, turned \in BOOLEAN : Asks("area", IF turned THEN <<t[1], t[3], t[2]>> ELSE t)
    \/ \E r \in ProperSpans, m \in ProperSpans, n \in 1 .. 3, w \in 1 .. 3 : Asks("raster", [raster |-> r, n |-> n, map |-> m, w |-> w])
    \/ \E labels \in SeqsUpTo(LabelBoxes, 3) : Asks("labels", labels)
    \/ \E hits \in SeqsUpTo(1 .. 3, 4) \ {<<>>} : Asks("cell", hits)

Upright(t) == IF Side(t[1], t[2], t[3]) > 0 THEN t ELSE <<t[1], t[3], t[2]>>

AreasAgree ==
    question.about = "area" =>
        LET ring == question.input
            t    == Upright(ring)
            hole == Moved(t)
            holed == <<Frame, Moved(ring)>>
            Cells(rings, minx, maxy) == Maps!polygon_cells(rings, minx, maxy, 2, 2)
        IN  /\ \A p \in Lattice :
                  LET held == Maps!point_in_ring(p[1], p[2], ring)
                      dark == Maps!painted(<<ring>>, p[1], p[2], 3)
                  IN  /\ Inside(t, p) => held /\ dark
                      /\ Beyond(t, p) # {} => ~held
                      /\ dark => Beyond(t, p) \cap Beyond(t, Right(p)) = {}
            /\ \A p \in (1 .. 4) \X (1 .. 4) :
                  LET held == Maps!point_in_rings(p[1], p[2], holed)
                      dark == Maps!painted(holed, p[1], p[2], 5)
                  IN  /\ Inside(hole, p) => ~held
                      /\ Inside(hole, p) /\ Inside(hole, Right(p)) => ~dark
                      /\ Beyond(hole, p) # {} => held /\ dark
            /\ \A rings \in {<<ring>>, holed}, minx \in {-2, 0, 1}, maxy \in {3, 4} :
                  Cells(rings, minx, maxy)
                      = {c \in (0 .. 1) \X (0 .. 1) : Maps!point_in_rings(minx + 2 * c[1] + 1, maxy - 2 * c[2] - 1, rings)}

RastersFit ==
    question.about = "raster" =>
        LET r == question.input.raster
            m == question.input.map
            n == question.input.n
            w == question.input.w
            put == Maps!render_raster_to_map(r, n, m, w)
            lo == Maps!Greatest({r.lo, m.lo})
            hi == Maps!Least({r.hi, m.hi})
        IN  IF lo >= hi THEN put = <<>>
            ELSE LET p == put[1]
                     pixel == r.hi - r.lo     \* the n-th part of it
                     dot == m.hi - m.lo
                 IN  /\ 0 <= p.at /\ p.size >= 1 /\ p.at + p.size <= w
                     /\ 0 <= p.from /\ p.count >= 1 /\ p.from + p.count <= n
                     /\ p.from * pixel <= (lo - r.lo) * n /\ (hi - r.lo) * n <= (p.from + p.count) * pixel
                     /\ (lo - r.lo) * n < (p.from + 1) * pixel /\ (p.from + p.count - 1) * pixel < (hi - r.lo) * n
                     /\ p.at * dot <= (lo - m.lo) * w /\ (lo - m.lo) * w < (p.at + 1) * dot
                     /\ p.size > 1 => (p.at + p.size) * dot <= (hi - m.lo) * w

LabelsPlaced ==
    question.about = "labels" =>
        LET labels == question.input
            placed == Maps!render_labels(labels, 3, 2)
            On(l)  == l.x1 >= 0 /\ l.x0 < 3
        IN  /\ \A i, j \in DOMAIN placed : i < j => ~Maps!Meets(placed[i], placed[j])
            /\ ToSet(placed) \subseteq {l \in ToSet(labels) : On(l)}
            /\ \A i \in DOMAIN labels : On(labels[i]) =>
                  \/ labels[i] \in ToSet(placed)
                  \/ \E j \in 1 .. i - 1 : labels[j] \in ToSet(placed) /\ Maps!Meets(labels[i], labels[j])

CellsNamed ==
    question.about = "cell" =>
        LET hits == question.input
            cell == Maps!render_to_utfgrid(hits)
        IN  /\ cell \in ToSet(hits) \cup {0}
            /\ Cardinality(ToSet(hits)) = 1 => cell = hits[1]
            /\ Len(hits) = 2 /\ hits[1] # hits[2] => cell = 0

\* Coverages: a raster in each kind of file, with the part that is asked for; up to
\* three of them in a mosaic; and pyramids.
Covers == INSTANCE Coverages

\* The raster of w by h pixels of two units whose lower left corner is <<x, y>>.
FileOf(kind, id, r) ==
    [id |-> id, kind |-> kind, readable |-> TRUE, w |-> r.w, h |-> r.h, step |-> r.step,
     tie |-> <<[col |-> 0, row |-> 0] @@ CASE kind = "geotiff"    -> [x |-> r.x, y |-> r.y + r.h * r.step]
                                           [] kind = "worldimage" -> [x |-> r.x + r.step \div 2, y |-> r.y + r.h * r.step - r.step \div 2]
                                           [] kind = "arcgrid"    -> [x |-> r.x, y |-> r.y]>>]

Raster(x, y, w, h, step) == [x |-> x, y |-> y, w |-> w, h |-> h, step |-> step]
PlaceOf(r) == Covers!Box(r.x, r.x + r.w * r.step, r.y, r.y + r.h * r.step)

CoverSource(kind, files, levels) == [kind |-> kind, there |-> TRUE, files |-> files, levels |-> levels]

Wants == {Covers!Box(x.lo, x.hi, y.lo, y.hi) : x \in ProperSpans, y \in {s \in ProperSpans : s.hi - s.lo > 1}}
Sites == {Raster(x, y, w, 1, 2) : x \in {0, 1, 3}, y \in {0, 2}, w \in 1 .. 2} \cup {Raster(1, 1, 1, 1, 4)}

AskCoverages ==
    \/ \E w \in 1 .. 2, h \in {1, 3}, want \in Wants : Asks("coverage", [r |-> Raster(-1, 0, w, h, 2), want |-> want])
    \/ \E sites \in SeqsUpTo(Sites, 2) \cup {<<a, a, b>> : a \in Sites, b \in Sites}, size \in {<<>>, <<3, 2>>},
          asked \in {<<>>, <<Covers!Box(0, 3, 1, 2)>>, <<Covers!Box(2, 9, -1, 9)>>} :
        Asks("mosaic", [sites |-> sites, want |-> asked, size |-> size])
    \/ \E steps \in {<<1, 2, 4>>, <<2, 4>>, <<1, 4>>}, size \in {<<n, n>> : n \in 1 .. 6} \cup {<<>>}, levels \in {<<>>, <<2>>, <<9>>} :
        Asks("pyramid", [steps |-> steps, size |-> size, levels |-> levels])

\* A subset as a client may write it.
Subset(box, brackets) ==
    [i \in 1 .. 2 |-> [axis |-> IF i = 1 THEN "long" ELSE "lat", brackets |-> brackets,
                       parts |-> IF i = 1 THEN <<{box.x.lo}, {box.x.hi}>> ELSE <<{box.y.lo}, {box.y.hi}>>]]

SamePart ==
    question.about = "coverage" =>
        LET r == question.input.r
            want == question.input.want
            box == PlaceOf(r)
            Place(p) == Covers!Box(r.x + p[1] * r.step, r.x + (p[1] + 1) * r.step,
                                   box.y.hi - (p[2] + 1) * r.step, box.y.hi - p[2] * r.step)
            all == {p : p \in (0 .. r.w - 1) \X (0 .. r.h - 1)}
            inside == {p \in all : \A axis \in {"x", "y"} : want[axis].lo <= Place(p)[axis].lo /\ Place(p)[axis].hi <= want[axis].hi}
            touched == {p \in all : \A axis \in {"x", "y"} : ~Covers!Apart(Place(p)[axis], want[axis])}
            Seen(img) == {img.px[c] : c \in DOMAIN img.px}
            Band(lo, hi) == [axis |-> "band", brackets |-> TRUE, parts |-> <<{lo}, {hi}>>]
            Part(wcs, ogc) ==
                /\ touched = {} <=> ogc = [answer |-> "bad request"]
                /\ touched # {} => /\ inside \subseteq Seen(ogc.of) /\ Seen(ogc.of) \subseteq touched
                                   /\ inside # {} => /\ Seen(wcs.of) \subseteq Seen(ogc.of)
                                                     /\ inside = touched => wcs = ogc
            Read(kind, ds) ==
                /\ Covers!BoundsOf(ds.files[1]) = <<box>>
                /\ Covers!load_raster_layer(ds)[1].img = Covers!handle_get_coverage(ds, <<>>, <<>>).of
                /\ \A said \in ToSet(Covers!handle_describe_coverage(ds)) : said.box = <<box>> /\ <<said.w, said.h>> = <<r.w, r.h>>
                /\ Part(Covers!handle_get_coverage(ds, Subset(want, TRUE), <<>>), Covers!handle_ogc_coverages_coverage(ds, <<want>>, <<>>))
                /\ \A size \in {<<>>, <<3, 4>>} :
                      Covers!handle_get_coverage(ds, Subset(want, TRUE), size) = Covers!handle_get_coverage(ds, Subset(want, FALSE), size)
                /\ \A lo, hi \in 1 .. 3 : lo <= hi =>
                      Covers!handle_get_coverage(ds, <<Band(3, 3), Band(lo, hi)>>, <<3, 4>>)
                          = Covers!Shows(Covers!ImageOf(ds.files[1]), 3, 4, lo - 1 .. hi - 1)
        IN  \A kind \in {"geotiff", "worldimage", "arcgrid"} : Read(kind, CoverSource(kind, <<FileOf(kind, 1, r)>>, <<>>))

\* The cell c of an image of w by h over the box, and a place in the world, in
\* units of 1 / (w * h).
WithinCell(box, img, c, place, Meets(_, _)) ==
    LET Cell(span, i) == [lo |-> (span.hi - span.lo) * i, hi |-> (span.hi - span.lo) * (i + 1)]
        Over(span, n, of) == [lo |-> (of.lo - span.lo) * n, hi |-> (of.hi - span.lo) * n]
    IN  /\ Meets(Cell(box.x, c[1]), Over(box.x, img.w, place.x))
        /\ Meets(Cell(Covers!North(box.y), c[2]), Over(Covers!North(box.y), img.h, Covers!North(place.y)))

FilledBy(cell, span) == span.lo <= cell.lo /\ cell.hi <= span.hi
MetBy(cell, span) == ~Covers!Apart(cell, span)

\* Files without pixels or without a place, which are left out of a mosaic.
Unshown == <<[FileOf("geotiff", 8, Raster(9, 9, 1, 1, 2)) EXCEPT !.readable = FALSE],
             [FileOf("geotiff", 9, Raster(9, 9, 1, 1, 2)) EXCEPT !.tie = <<>>]>>

MosaicShows ==
    question.about = "mosaic" =>
        LET sites == question.input.sites
            want == question.input.want
            files == [i \in DOMAIN sites |-> FileOf(<<"geotiff", "arcgrid", "worldimage">>[i], i, sites[i])]
            ds == CoverSource("image_mosaic", files \o Unshown, <<>>)
            whole == Covers!mosaic_bounds(files)
            Shown(box, img) ==
                \A c \in DOMAIN img.px :
                    /\ \A i \in DOMAIN sites : WithinCell(box, img, c, PlaceOf(sites[i]), FilledBy) => img.px[c] >= i
                    /\ img.px[c] # 0 => WithinCell(box, img, c, PlaceOf(sites[img.px[c]]), MetBy)
            Reached(box) == \E i \in DOMAIN sites : ~Covers!Apart(PlaceOf(sites[i]).x, box.x) /\ ~Covers!Apart(PlaceOf(sites[i]).y, box.y)
            Answered(box, answer) ==
                /\ Reached(box) <=> "of" \in DOMAIN answer
                /\ Reached(box) => Shown(box, answer.of)
                /\ question.input.size # <<>> => <<answer.w, answer.h>> = question.input.size
            values == IF want = <<>> THEN <<>> ELSE Subset(want[1], TRUE)
        IN  IF sites = <<>> THEN Covers!read_raster_image(ds) = <<>>
            ELSE /\ Answered(Covers!mosaic_target(whole[1], Covers!parse_wcs_request(values)), Covers!handle_get_coverage(ds, values, question.input.size))
                 /\ \A read \in ToSet(Covers!load_raster_layer(ds)) : read.box = whole /\ Shown(whole[1], read.img)

PyramidShows ==
    question.about = "pyramid" =>
        LET steps == question.input.steps
            Levels == [n \in 0 .. Len(steps) - 1 |-> <<FileOf("arcgrid", n + 1, Raster(0, 0, 4 \div steps[n + 1], 4 \div steps[n + 1], steps[n + 1]))>>]
            ds == CoverSource("image_pyramid", Levels, question.input.levels)
            kept == 1 .. IF question.input.levels = <<2>> THEN 2 ELSE Len(steps)
            Chosen(answer) ==
                LET level == answer.of.px[<<0, 0>>]
                    Fine(n) == steps[n] * answer.w <= 4
                IN  /\ \A c \in DOMAIN answer.of.px : answer.of.px[c] = level
                    /\ level \in kept
                    /\ IF \E n \in kept : Fine(n) THEN Fine(level) /\ \A n \in kept : Fine(n) => n <= level ELSE level = 1
        IN  /\ Chosen(Covers!handle_get_coverage(ds, <<>>, question.input.size))
            /\ Covers!handle_ogc_coverages_coverage(ds, <<>>, <<3, 3>>).of.px[<<0, 0>>] = 1

\* Three algorithms say which points an area holds, the image, the grid of a
\* UTFGrid and the click, and agree but for holes in the click and a pixel at the
\* edges of the image; a raster is put where it belongs, and from its own pixels;
\* labels do not overlap, and none is left out for another reason; a cell that a
\* single feature hits names it (rendering.rs, wms_handler.rs). A coverage is at the
\* same place whatever kind of file it is in, and is described as it is; what is cut
\* of it has all the pixels that are asked for and none that is not touched, and WCS
\* and the OGC API cut alike along the pixels; a granule of a mosaic shows where no
\* later one does; a pyramid shows the coarsest level that is fine enough
\* (wcs_handler.rs, ogc_coverages_handler.rs, mosaic.rs, pyramid.rs).
PicturesAgree == AreasAgree /\ RastersFit /\ LabelsPlaced /\ CellsNamed /\ SamePart /\ MosaicShows /\ PyramidShows

-----------------------------------------------------------------------------
\* Requests: what is written of features of all kinds in each format, the lists of
\* TIME, and the parameters in every order.
Kinds == {"Point", "MultiPoint", "LineString", "MultiLineString", "Polygon", "MultiPolygon"}

Shape(kind, k) == Geometry(kind, IF Len(kind) > 5 /\ kind \in {"MultiPoint", "MultiLineString", "MultiPolygon"} THEN <<10 * k, 10 * k + 1>> ELSE <<10 * k>>)

Shapes(k) == {Shape(kind, k) : kind \in Kinds}
             \cup {Geometry("GeometryCollection", <<Shape(a, k), Shape(b, k + 5)>>) : a \in {"Point", "MultiPoint"}, b \in {"Polygon", "MultiLineString"}}

Params == {[name |-> "VERSION", value |-> "1.3.0"], [name |-> "CRS", value |-> "EPSG:4326"], [name |-> "BBOX", value |-> "box"],
           [name |-> "I", value |-> "3"], [name |-> "REQUEST", value |-> "GetFeatureInfo"]}

Moment == {<<>>, <<1>>, <<2>>, <<4>>}

AskRequests ==
    \/ \E a \in Shapes(1), b \in Shapes(2), z \in -1 .. 1 :
        Asks("formats", <<[key |-> 1, z |-> 0, geometry |-> a], [key |-> 2, z |-> z, geometry |-> b]>>)
    \/ \E slash \in BOOLEAN, parts \in SeqsUpTo(Moment, 3) \ {<<>>} : Asks("times", [slash |-> slash, parts |-> parts])
    \/ \E params \in SetToSeqs(Params) : Asks("params", params)

FormatsTell ==
    question.about = "formats" =>
        LET fs == question.input
            Written == {Maps!render_to_svg(fs), Maps!render_to_kml(fs), Maps!GeoJson(fs), Maps!render_to_georss(fs),
                        Maps!render_to_atom(fs), Maps!render_to_gml(fs)}
            PartsOf(x) == Maps!AllParts(fs[x.key].geometry)
            pdf == Maps!render_to_pdf(fs)
        IN  /\ \A f, g \in Maps!Advertised : f # g => Maps!writer(f) # Maps!writer(g)
            /\ \A written \in Written \cup {pdf} :
                  \A n \in DOMAIN written :
                     /\ ToSet(written[n].parts) \subseteq ToSet(PartsOf(written[n]))
                     /\ fs[written[n].key].geometry.kind \in {"Point", "LineString", "Polygon"} =>
                            written[n].parts = PartsOf(written[n])
            /\ \A written \in Written : Keys(written) = <<1, 2>>
            /\ Keys(pdf) \in {<<1, 2>>, <<2, 1>>}
            /\ fs[1].z = fs[2].z /\ fs[1].geometry.kind = "Point" /\ fs[2].geometry.kind = "Polygon" => Keys(pdf) = <<2, 1>>

TimesJoin ==
    question.about = "times" =>
        LET p == question.input
            fs == [n \in 1 .. 6 |-> [key |-> n, time |-> IF n = 6 THEN <<>> ELSE <<n>>]]
            Kept(param) == ToSet(Maps!filter_by_time(fs, <<param>>))
            Single(i) == [slash |-> p.slash, parts |-> IF p.slash THEN SubSeq(p.parts, i, i + 1) ELSE <<p.parts[i]>>]
            Starts == {i \in DOMAIN p.parts : IF p.slash THEN i % 2 = 1 /\ i < Len(p.parts) ELSE p.parts[i] # <<>>}
        IN  Len(p.parts) % 2 = 0 \/ ~p.slash =>
                Kept(p) = IF Starts = {} THEN ToSet(fs) ELSE UNION {Kept(Single(i)) : i \in Starts}

OrderFree ==
    question.about = "params" =>
        LET params == question.input
            At(name) == SelectInSeq(params, LAMBDA x : x.name = name)
        IN  At("BBOX") > At("VERSION") /\ At("BBOX") > At("CRS") =>
                Maps!parse_wms_request(params)
                    = [request |-> "GetFeatureInfo", version |-> "1.3.0", crs |-> "EPSG:4326", bbox |-> <<"box", "yx">>, i |-> "3"]

\* Every format that is offered has a writer of its own, which writes every feature
\* in its turn and nothing that is not of it, and whole if it is single; a list of
\* times shows what its times show; and the order of the parameters does not
\* matter, if BBOX comes after VERSION and CRS (rendering.rs, wms_handler.rs,
\* services/wms.rs).
RequestsTell == FormatsTell /\ TimesJoin /\ OrderFree

\* What is true of single requests and of several layers.
MapsCompose == LayersCompose /\ RequestsTell

-----------------------------------------------------------------------------
\* Styles: rules of one symbol and perhaps a label, as their author means them, and
\* written in each of the languages.
Drawn == INSTANCE StyleReaders WITH ShadeOf <- Shades

Fills == {<<>>, "fill" :> Drawn!Hash("ff0000"), "fill" :> Drawn!Plain("00ff00") @@ "fill-opacity" :> Drawn!Num(5),
          "fill-opacity" :> Drawn!Num(15), "fill" :> Drawn!Plain("blue"), "fill" :> Drawn!Hash("orange")}
Strokes == {<<>>, "stroke" :> Drawn!Hash("00ff00"), "stroke-width" :> Drawn!Num(3),
            "stroke" :> Drawn!Plain("ff0000") @@ "stroke-opacity" :> Drawn!Num(4),
            "stroke-dasharray" :> [nums |-> <<2, 3>>] @@ "stroke-width" :> Drawn!Num(2)}
Symbols == {<<>>, "mark" :> Drawn!Plain("square"), "mark" :> Drawn!Plain("circle") @@ "mark-size" :> Drawn!Num(8)}
Labels == {<<>>, "label" :> [attr |-> "s"] @@ "label-size" :> Drawn!Num(14),
           "label" :> Drawn!Plain("here") @@ "halo-color" :> Drawn!Hash("ff0000") @@ "label-color" :> Drawn!Hash("00ff00"),
           "halo-radius" :> Drawn!Num(2) @@ "halo-color" :> Drawn!Hash("00ff00") @@ "label" :> [attr |-> "n"], "label" :> [attr |-> "no"],
           "composite" :> Drawn!Plain("multiply"), "z-index" :> Drawn!Num(2) @@ "composite" :> Drawn!Plain("burn")}

Painted(kind) == {a @@ b @@ c : a \in IF kind = "line" THEN {<<>>} ELSE Fills, b \in Strokes, c \in IF kind = "point" THEN Symbols ELSE {<<>>}}
StyleConds == {<<>>} \cup {<<l>> : l \in {l \in Leaves : l.op = "cmp" /\ l.attr \in {"n", "s"}}}
              \cup {<<[op |-> "between", attr |-> "n", low |-> "1", high |-> "2"]>>,
                    <<[op |-> "not", args |-> <<[op |-> "cmp", attr |-> "n", rel |-> ">", lit |-> Number("2")]>>]>>,
                    <<[op |-> "and", args |-> <<[op |-> "cmp", attr |-> "s", rel |-> "<>", lit |-> Text("x")],
                                               [op |-> "or", args |-> <<[op |-> "cmp", attr |-> "n", rel |-> "<", lit |-> Number("2")],
                                                                        [op |-> "cmp", attr |-> "n", rel |-> "=", lit |-> Number("10")]>>]>>]>>}
StyleRule(cond, scale, kind, props) == [cond |-> cond, scale |-> scale, kind |-> kind, props |-> props]

SingleRules == {StyleRule(<<>>, <<>>, kind, p @@ l) : kind \in {"polygon", "line", "point"}, p \in UNION {Painted(k) : k \in {"polygon", "point"}}, l \in Labels}
StyleRules == {r \in SingleRules : r.props \in {p @@ l : p \in Painted(r.kind), l \in Labels}}
FewStyleRules == {StyleRule(c, s, kind, "stroke" :> Drawn!Hash(t)) : c \in StyleConds, s \in {<<>>, <<3, 6>>}, kind \in {"line", "point"}, t \in {"ff0000"}}

AskStyles ==
    \/ \E r \in StyleRules : Asks("style", <<r>>)
    \/ \E a \in FewStyleRules, b \in StyleRules : b.props \in Strokes /\ Asks("style", <<a, [b EXCEPT !.cond = <<[op |-> "cmp", attr |-> "s", rel |-> "=", lit |-> Text("y")]>>]>>)

\* What the author means it to look like.
MeantLook(rules, f, scale) ==
    LET i == SelectInSeq(rules, LAMBDA r : /\ r.scale # <<>> => \A s \in scale : r.scale[1] <= s /\ s <= r.scale[2]
                                           /\ \A n \in DOMAIN r.cond : Meaning(f, r.cond[n]))
        p == IF i = 0 THEN <<>> ELSE rules[i].props
        Of(name, v) == IF name \in DOMAIN p THEN p[name] ELSE v
        Hashed(c) == IF c.hash \/ c.text # "blue" THEN [c EXCEPT !.hash = TRUE] ELSE Drawn!Hash("0000FF")
        Color(name, v) == Drawn!Shade(Hashed(Of(name, Drawn!Hash(v))))
        Part(name) == LET n == Of(name, Drawn!Num(10)).num IN Drawn!Num(IF n > 10 THEN 10 ELSE n)
        told == IF "label" \notin DOMAIN p THEN ""
                ELSE IF "text" \in DOMAIN p["label"] THEN p["label"].text
                ELSE IF p["label"].attr \in DOMAIN f.props THEN f.props[p["label"].attr].text ELSE ""
    IN  [fill |-> [shade |-> Color("fill", "808080"), opacity |-> Part("fill-opacity")],
         stroke |-> [color |-> Color("stroke", "000000"), width |-> Of("stroke-width", Drawn!Num(1)).num,
                     opacity |-> Part("stroke-opacity"), dash |-> Drawn!Dashes(Of("stroke-dasharray", [nums |-> <<>>]))],
         mark |-> Of("mark", Drawn!Plain("circle")).text, size |-> Of("mark-size", Drawn!Num(6)).num, z |-> Of("z-index", Drawn!Num(0)).num,
         composite |-> IF Of("composite", Drawn!Plain("")).text = "multiply" THEN "multiply" ELSE "normal",
         label |-> IF told = "" THEN <<>>
                   ELSE <<[text |-> told, size |-> Of("label-size", Drawn!Num(12)).num, color |-> Color("label-color", "333333"),
                           halo |-> IF "halo-color" \in DOMAIN p THEN <<Color("halo-color", ""), Of("halo-radius", Drawn!Num(1)).num>> ELSE <<>>]>>]

\* The texts. In SLD a label comes before or after its halo.
Opened(tag, name) == <<[open |-> tag, name |-> name]>>
Element(tag, inner) == IF inner = <<>> THEN <<>> ELSE Opened(tag, "") \o inner \o <<[close |-> tag]>>
Content(tag, name, v) == Opened(tag, name) \o <<[text |-> v], [close |-> tag]>>
Given(p, tag, as, name) == IF name \in DOMAIN p THEN Content(tag, as, p[name]) ELSE <<>>
ParamsOf(p, names) == FlattenSeq([i \in DOMAIN names |-> Given(p, "CssParameter", names[i], names[i])])

SldRule(r, turned) ==
    LET p == r.props
        fill == Element("Fill", ParamsOf(p, <<"fill", "fill-opacity">>))
        stroke == Element("Stroke", ParamsOf(p, <<"stroke", "stroke-width", "stroke-opacity", "stroke-dasharray">>))
        both == IF turned THEN stroke \o fill ELSE fill \o stroke
        label == IF "label" \notin DOMAIN p THEN <<>>
                 ELSE IF "attr" \in DOMAIN p["label"]
                 THEN Element("Label", Content("PropertyName", "", Drawn!Plain(p["label"].attr))) ELSE Content("Label", "", p["label"])
        halo == Element("Halo", Given(p, "Radius", "", "halo-radius") \o Element("Fill", Given(p, "CssParameter", "fill", "halo-color")))
        ink == Element("Fill", Given(p, "CssParameter", "fill", "label-color"))
        text == Element("TextSymbolizer", (IF turned THEN halo \o ink \o label ELSE label \o ink \o halo)
                                             \o Element("Font", Given(p, "CssParameter", "font-size", "label-size")))
        symbol == CASE r.kind = "polygon" -> Element("PolygonSymbolizer", both)
                    [] r.kind = "line" -> Element("LineSymbolizer", stroke)
                    [] r.kind = "point" -> Element("PointSymbolizer", Element("Graphic",
                           Element("Mark", Given(p, "WellKnownName", "", "mark") \o both) \o Given(p, "Size", "", "mark-size")))
        scale == IF r.scale = <<>> THEN <<>>
                 ELSE Content("MinScaleDenominator", "", Drawn!Num(r.scale[1])) \o Content("MaxScaleDenominator", "", Drawn!Num(r.scale[2]))
    IN  Element("Rule", Content("Name", "", Drawn!Plain("name")) \o Element("Filter", FlattenSeq([i \in DOMAIN r.cond |-> Events(r.cond[i])])) \o scale
                          \o (IF turned THEN text \o symbol ELSE symbol \o text)
                          \o Given(p, "VendorOption", "z-index", "z-index") \o Given(p, "VendorOption", "composite", "composite"))

InOrder(p) == SelectSeq(<<"fill", "fill-opacity", "stroke", "stroke-width", "stroke-opacity", "stroke-dasharray", "mark", "mark-size", "label",
                          "label-size", "label-color", "halo-color", "halo-radius", "z-index", "composite">>, LAMBDA n : n \in DOMAIN p)

CssText(r, turned) ==
    LET names == InOrder(r.props)
        Property(n) == [t |-> "property", name |-> n, value |-> r.props[n]]
        comment == <<Word("/*"), Word("selector"), Word("{"), Property("fill"), Word("}"), Word("*/")>>
    IN  (IF turned /\ "fill" \in DOMAIN r.props THEN comment ELSE <<>>)
        \o <<IF r.cond = <<>> THEN [t |-> "selector"] ELSE [t |-> "selector"] @@ [k \in {"attr", "rel", "lit"} |-> r.cond[1][k]], Word("{")>>
        \o [i \in DOMAIN names |-> Property(names[IF turned THEN Len(names) + 1 - i ELSE i])] \o <<Word("}")>>

YsldKeyOf == "fill" :> "fill-color" @@ "fill-opacity" :> "fill-opacity" @@ "stroke" :> "stroke-color" @@ "stroke-width" :> "stroke-width"
             @@ "stroke-opacity" :> "stroke-opacity" @@ "mark" :> "mark" @@ "mark-size" :> "size"
YsldNames(kind) == CASE kind = "line" -> {"stroke", "stroke-width", "stroke-opacity"}
                     [] kind = "polygon" -> {"fill", "fill-opacity", "stroke", "stroke-width", "stroke-opacity"}
                     [] kind = "point" -> {"fill", "fill-opacity", "stroke", "stroke-width", "mark", "mark-size"}
YsldRelOf == ">" :> "greater-than" @@ "<" :> "less-than" @@ "=" :> "equals" @@ "<>" :> "not-equal"

YsldText(r) ==
    LET Condition(c) == IF c.op = "cmp" THEN [property |-> c.attr, key |-> YsldRelOf[c.rel], value |-> Text(c.lit.text)]
                        ELSE [property |-> c.attr, key |-> "between", value |-> [kind |-> "list", of |-> <<Text(c.low), Text(c.high)>>]]
        names == InOrder(r.props)
    IN  [filter |-> [i \in DOMAIN r.cond |-> Condition(r.cond[i])], scale |-> r.scale,
         symbolizers |-> <<[type |-> r.kind, props |-> [i \in DOMAIN names |-> [key |-> YsldKeyOf[names[i]], value |-> r.props[names[i]]]]]>>]

MbKeys(kind) ==
    CASE kind = "polygon" -> "fill-color" :> "fill" @@ "fill-opacity" :> "fill-opacity" @@ "fill-outline-color" :> "stroke"
      [] kind = "line" -> "line-color" :> "stroke" @@ "line-width" :> "stroke-width" @@ "line-opacity" :> "stroke-opacity" @@ "line-dasharray" :> "stroke-dasharray"
      [] kind = "point" -> "circle-color" :> "fill" @@ "circle-opacity" :> "fill-opacity" @@ "circle-radius" :> "mark-size"
                           @@ "circle-stroke-color" :> "stroke" @@ "circle-stroke-width" :> "stroke-width"
MbNames(kind) == {MbKeys(kind)[k] : k \in DOMAIN MbKeys(kind)}

RECURSIVE MbFilter(_)
MbFilter(node) ==
    CASE node.op = "cmp" -> [op |-> CHOOSE op \in DOMAIN Drawn!MbRels : Drawn!MbRels[op] = node.rel, attr |-> node.attr, lit |-> node.lit, args |-> <<>>]
      [] node.op = "between" -> [op |-> "all", args |-> <<[op |-> ">=", attr |-> node.attr, lit |-> Number(node.low), args |-> <<>>],
                                                         [op |-> "<=", attr |-> node.attr, lit |-> Number(node.high), args |-> <<>>]>>]
      [] OTHER -> [op |-> CASE node.op = "and" -> "all" [] node.op = "or" -> "any" [] node.op = "not" -> "none",
                   args |-> [i \in DOMAIN node.args |-> MbFilter(node.args[i])]]

MbText(r) ==
    LET kept == {k \in DOMAIN MbKeys(r.kind) : MbKeys(r.kind)[k] \in DOMAIN r.props}
        Value(k) == LET v == r.props[MbKeys(r.kind)[k]]
                    IN  IF k = "circle-radius" THEN Drawn!Num(v.num \div 2) ELSE IF v = Drawn!Hash("00ff00") THEN [rgb |-> v.text] ELSE v
    IN  [type |-> CASE r.kind = "polygon" -> "fill" [] r.kind = "line" -> "line" [] r.kind = "point" -> "circle",
         paint |-> [k \in kept |-> Value(k)], minzoom |-> {}, maxzoom |-> {},
         filter |-> [i \in DOMAIN r.cond |-> MbFilter(r.cond[i])]]

Written(lang, rules, turned) ==
    LET Body(begins, mentions, body) == [begins |-> begins, mentions |-> mentions, in |-> lang, body |-> body]
    IN  CASE lang = "SLD"  -> Body(IF turned THEN "<?xml" ELSE "<StyledLayerDescriptor", {}, FlattenSeq([i \in DOMAIN rules |-> SldRule(rules[i], turned)]))
          [] lang = "CSS"  -> Body(IF turned THEN "/*" ELSE "*", {}, FlattenSeq([i \in DOMAIN rules |-> CssText(rules[i], turned)]))
          [] lang = "YSLD" -> Body("name:", {}, [i \in DOMAIN rules |-> <<YsldText(rules[i])>>])
          [] lang = "MBStyle" -> Body("{", {"version", "layers"}, [i \in DOMAIN rules |-> MbText(rules[i])])

\* What can be said in a language and is read: SLD knows circles only, CSS no scale
\* (it reads the bounds the wrong way round) and no z-index, YSLD and MBStyle no
\* labels, and colours only with "#".
Says(lang, r) ==
    LET colors == {r.props[n] : n \in DOMAIN r.props \cap {"fill", "stroke", "label-color", "halo-color"}}
        Hashed == \A c \in colors : c.hash
        names == DOMAIN r.props
    IN  CASE lang = "SLD" -> ("mark" \in names => r.props["mark"].text = "circle") /\ \A c \in colors : c.hash \/ c.text # "blue"
          [] lang = "CSS" -> r.scale = <<>> /\ "z-index" \notin names /\ (r.cond # <<>> => r.cond[1].op = "cmp")
          [] lang = "YSLD" -> /\ Hashed /\ names \subseteq YsldNames(r.kind)
                              /\ r.cond # <<>> => r.cond[1].op = "between" \/ (r.cond[1].op = "cmp" /\ r.cond[1].rel \in DOMAIN YsldRelOf)
          [] lang = "MBStyle" -> Hashed /\ r.scale = <<>> /\ names \subseteq MbNames(r.kind) \cup {"mark"} /\ ("mark" \in names => r.props["mark"].text = "circle")

\* A style looks as it is meant to, on every feature and at every scale, in each of
\* the languages that can say it, whatever the order in which its parts stand in the
\* text; and the language of the text is found (sld_parser.rs, css_parser.rs,
\* ysld_parser.rs, mbstyle_parser.rs, models/style.rs).
StylesAlike ==
    question.about = "style" =>
        LET rules == question.input
        IN  \A lang \in {"SLD", "CSS", "YSLD", "MBStyle"}, turned \in BOOLEAN :
              (\A i \in DOMAIN rules : Says(lang, rules[i])) =>
                  LET text == Written(lang, rules, turned)
                      read == Drawn!get_style_rules("own" :> text, <<>>, "own", <<>>)
                  IN  /\ Drawn!detect_style_format(text) = lang
                      /\ \A f \in FilterFeatures, scale \in {{}, {1}, {3}, {6}, {9}} :
                            Drawn!Look(Drawn!resolve_style(read, f, scale, <<>>)) = MeantLook(rules, f, scale)

-----------------------------------------------------------------------------
\* The routes of the administration.
OneLayerThere == "l" :> [workspace |-> "w"]

SomeRules == {[username |-> u, role |-> <<>>, type |-> "layer", name |-> n, mode |-> m, effect |-> e, priority |-> p] :
                  u \in Opt({"ann"}), n \in Opt({"l"}), m \in {<<>>, <<"write">>}, e \in Opt({"deny"}), p \in Opt({1})}

SomeAskers == [username : {"ann", "bob"}, role : {"user"}, name : {"l", "x"}, mode : Opt({"write"})]

-----------------------------------------------------------------------------
\* The first step asks; the stores and the routes are called after it.
Ask == question.about = "nothing" /\ (AskStores \/ AskRules \/ AskFilter \/ AskLike \/ AskGrid \/ AskPages \/ AskBackup
                                   \/ AskFiles \/ AskImports \/ AskSamples
                                   \/ AskMap \/ AskPictures \/ AskRequests \/ AskStyles \/ AskCoverages \/ AskRoutes)

Next == CallStores \/ CallRoutes \/ Ask

Spec == Unasked /\ [][Next]_question
=============================================================================
