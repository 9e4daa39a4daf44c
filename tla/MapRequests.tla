------------------------------ MODULE MapRequests ------------------------------
(***************************************************************************)
(* WMS (handlers/wms_handler.rs, services/wms.rs): how a request is read,  *)
(* how GetMap comes from the names of layers to a map, and what            *)
(* GetFeatureInfo, GetLegendGraphic and GetStyles say of the same layers.  *)
(*                                                                         *)
(* The world w is [layers, sources, styles, denied]: the catalogue as this *)
(* replica has it, the data sources by name, the styles by name and what   *)
(* the access rules forbid. A layer is [name, workspace, store, styles]; a *)
(* source [kind, rows, fails], a row of it what FeatureQueries takes and   *)
(* [props, time, hit, geometry]: its attributes, its time if it has one,   *)
(* and whether the click of GetFeatureInfo hits it. A raster source has no *)
(* rows; it fails if its file cannot be read. A style is [sld, rules]: its *)
(* rules, and whether they are written in SLD.                             *)
(*                                                                         *)
(* All coordinates are in the system of the request. What is absent is     *)
(* <<>>, what is there <<value>>. ENV and ANGLE are left out.              *)
(***************************************************************************)
EXTENDS FeatureQueries, Filters, Rendering

CONSTANTS
    MaxFeatures     \* 5000, of a table of PostGIS

\* A name is <<short>> or <<workspace, short>>.
Workspace(name) == IF Len(name) = 1 THEN "" ELSE name[1]
Short(name) == <<name[Len(name)]>>

\* Whose features and styles a name stands for; 0 if there is no such layer.
resolve_layer(layers, name) ==
    SelectInSeq(layers, LAMBDA l : l.name = name \/ (l.workspace = Workspace(name) /\ l.name = Short(name)))

\* Whose access is checked.
enforce_geofence_for_layers(layers, name) ==
    LET i == SelectInSeq(layers, LAMBDA l : \/ l.name = name
                                            \/ l.workspace = Workspace(name) /\ l.name = Short(name)
                                            \/ Workspace(name) = "" /\ l.name = Short(name))
    IN  IF i = 0 THEN [workspace |-> Workspace(name), store |-> "", layer |-> Short(name)]
        ELSE [workspace |-> layers[i].workspace, store |-> layers[i].store, layer |-> layers[i].name]

\* The other operations look for the name as it is written.
Bare(layers, name) == SelectInSeq(layers, LAMBDA l : l.name = name)

-----------------------------------------------------------------------------
\* TIME and ELEVATION: parts at slashes or at commas, <<>> those that cannot be
\* read. A range is a pair of bounds, each of which may be absent.
TimeRanges(p) ==
    IF p.slash
    THEN [j \in 1 .. (Len(p.parts) + 1) \div 2 |->
            <<p.parts[2 * j - 1], p.parts[IF 2 * j <= Len(p.parts) THEN 2 * j ELSE 2 * j - 1]>>]
    ELSE LET read == SelectSeq(p.parts, LAMBDA t : t # <<>>)
         IN  [j \in DOMAIN read |-> <<read[j], read[j]>>]

ElevationRanges(p) ==
    IF p.slash THEN IF Len(p.parts) = 2 THEN <<<<p.parts[1], p.parts[2]>>>> ELSE <<>>
    ELSE TimeRanges(p)

Within(v, ranges) ==
    \E j \in DOMAIN ranges : /\ \A low \in ToSet(ranges[j][1]) : low <= v
                             /\ \A high \in ToSet(ranges[j][2]) : v <= high

\* A feature without a time stays.
filter_by_time(fs, param) ==
    IF param = <<>> \/ TimeRanges(param[1]) = <<>> THEN fs
    ELSE SelectSeq(fs, LAMBDA f : f.time = <<>> \/ Within(f.time[1], TimeRanges(param[1])))

filter_by_elevation(fs, param) ==
    IF param = <<>> \/ ElevationRanges(param[1]) = <<>> THEN fs
    ELSE SelectSeq(fs, LAMBDA f : f.height = <<>> \/ Within(f.height[1], ElevationRanges(param[1])))

-----------------------------------------------------------------------------
Rasters == {"geotiff", "worldimage", "arcgrid", "image_mosaic", "image_pyramid"}

NoSource == [kind |-> "shapefile", rows |-> <<>>, fails |-> TRUE]

DefaultRules == <<[filters |-> <<>>, min |-> {}, max |-> {}, z |-> 0]>>

style_name_of(layer) == IF layer.styles = <<>> THEN "" ELSE layer.styles[1]

request_sld_body(styles, name) ==
    IF name \in DOMAIN styles THEN styles[name] ELSE [sld |-> TRUE, rules |-> DefaultRules]

\* Part i of a list of parameters that may be too short.
At(s, i) == IF i <= Len(s) THEN s[i] ELSE <<>>

SourceOf(w, layer) == IF layer.store \in DOMAIN w.sources THEN w.sources[layer.store] ELSE NoSource

\* Where the features of a layer come from, and the rules that draw them.
MetadataOf(w, layer, wanted) ==
    [source |-> SourceOf(w, layer),
     rules |-> request_sld_body(w.styles, IF wanted = <<>> THEN style_name_of(layer) ELSE wanted[1]).rules]

\* Slip: an absent style is the one of the layer before.
MetadataShifted(w, q, i) ==
    MetadataOf(w, w.layers[resolve_layer(w.layers, q.layers[i])], At(SelectSeq(q.styles, LAMBDA s : s # <<>>), i))

Metadata(w, q, i) == MetadataOf(w, w.layers[resolve_layer(w.layers, q.layers[i])], At(q.styles, i))

\* PostGIS is asked by a query of WMS's own, which leaves the attributes behind.
Bald(met) ==
    [n \in DOMAIN met |-> [key |-> met[n].key, id |-> "feat_" \o ToString(n - 1), time |-> <<>>, height |-> <<>>,
                           props |-> "id" :> [kind |-> "text", text |-> "feat"], geometry |-> met[n].geometry]]

query_postgis_features_optimized(rows) ==
    Bald(Take(SelectSeq(rows, LAMBDA r : r.place \in {"in", "across"}), <<MaxFeatures>>))

\* Features with what the rows they came from hold.
WithRows(fs, rows) ==
    LET Joined(f, r) == [key |-> f.key, id |-> f.id, time |-> r.time, height |-> r.height,
                         props |-> r.props, geometry |-> r.geometry]
    IN  [n \in DOMAIN fs |-> Joined(fs[n], rows[SelectInSeq(rows, LAMBDA r : r.key = fs[n].key)])]

query_layer_features_optimized(source) ==
    IF source.kind = "postgis" THEN query_postgis_features_optimized(source.rows)
    ELSE IF source.fails THEN <<>>
    ELSE WithRows(query_layer_features(source.kind, source.rows, TRUE, <<>>, <<>>, 0), source.rows)

\* The features of layer i that are drawn. A filter that cannot be read is not one.
query_all_layer_features(q, meta, i) ==
    LET fs == IF meta.source.kind \in Rasters THEN <<>> ELSE query_layer_features_optimized(meta.source)
        Kept(f) == \A e \in ToSet(At(q.filters, i)) : e.op = "unreadable" \/ EvaluateCql(f, e)
        Asked(f) == q.ids # <<>> => f.id \in q.ids[1]
    IN  filter_by_elevation(filter_by_time(SelectSeq(SelectSeq(fs, Kept), Asked), q.time), q.elevation)

\* The first rule that matches; what no rule matches is drawn all the same.
resolve_style_with_env(rules, f, scale) == SelectInSeq(rules, LAMBDA r : MatchRule(r, f, {scale}))

resolve_feature_styles(q, meta, i) ==
    LET Item(f, rule) == [layer |-> i, key |-> f.key, geometry |-> f.geometry,
                          rule |-> rule, z |-> IF rule = 0 THEN 0 ELSE meta.rules[rule].z]
        Items(fs) == [n \in DOMAIN fs |-> Item(fs[n], resolve_style_with_env(meta.rules, fs[n], q.scale))]
    IN  Items(query_all_layer_features(q, meta, i))

\* The rasters lie beneath all that is drawn, whatever the order of the layers.
\* An image that is not transparent covers them as soon as anything is drawn.
render_map_image(q, metas) ==
    LET Image(drawn, rasters) ==
            IF drawn = <<>> /\ rasters # <<>> THEN rasters ELSE composite_image(rasters, render(drawn, q.transparent))
        Shown(w, drawn, loaded) ==
            CASE w = "pdf" -> render(drawn, FALSE)
              [] w \in {"svg", "kml", "utfgrid", "json", "rss", "atom", "gml"} -> drawn
              [] OTHER -> Image(drawn, IF q.transparent \/ loaded = <<>> THEN loaded ELSE <<[paper |-> "white"]>> \o loaded)
        loaded == SelectSeq([i \in DOMAIN metas |-> [layer |-> i, raster |-> TRUE]],
                            LAMBDA r : metas[r.layer].source.kind \in Rasters /\ ~metas[r.layer].source.fails)
    IN  [answer |-> writer(q.format),
         shown |-> Shown(writer(q.format),
                         FlattenSeq([i \in DOMAIN metas |-> resolve_feature_styles(q, metas[i], i)]), loaded)]

validate_wms_get_map_request(q) ==
    /\ q.layers # <<>> /\ q.bbox # <<>> /\ q.format # {}
    /\ q.width \in 1 .. 4096 /\ q.height \in 1 .. 4096

Answer(a) == [answer |-> a, shown |-> <<>>]

\* One cascaded layer makes the whole map a matter of its server.
handle_get_map(w, q) ==
    LET names == DOMAIN q.layers
        Some(metas, kind, fails) == \E i \in names : metas[i].source.kind = kind /\ metas[i].source.fails = fails
        MapOf(metas) == IF Some(metas, "cascaded_wms", FALSE) THEN Answer("upstream")
                        ELSE IF Some(metas, "postgis", TRUE) THEN Answer("failed")
                        ELSE render_map_image(q, metas)
    IN  IF ~validate_wms_get_map_request(q) THEN Answer("invalid")
        ELSE IF \E i \in names : enforce_geofence_for_layers(w.layers, q.layers[i]) \in w.denied THEN Answer("forbidden")
        ELSE IF "openlayers" \in q.format THEN Answer("preview")
        ELSE IF \E i \in names : resolve_layer(w.layers, q.layers[i]) = 0 THEN Answer("not found")
        ELSE MapOf([i \in names |-> Metadata(w, q, i)])

-----------------------------------------------------------------------------
\* The features of a layer that a click hits, of twice as many as are wanted in
\* all; filters do not matter.
LayerHits(w, name, count) ==
    LET Near(source) ==
            IF source.fails THEN <<>>
            ELSE SelectSeq(query_layer_features(source.kind, source.rows, TRUE, <<2 * count>>, <<>>, 0),
                           LAMBDA f : \E n \in DOMAIN source.rows : source.rows[n].key = f.key /\ source.rows[n].hit)
        Told(hits) == [n \in DOMAIN hits |-> [layer |-> name, key |-> hits[n].key]]
        From(i) == IF i = 0 THEN NoSource ELSE SourceOf(w, w.layers[i])
    IN  Told(Near(From(resolve_layer(w.layers, name))))

\* Slip: a layer that comes when there are enough is not looked at.
InfoOfStopped(w, found, name, count) == found \o Take(LayerHits(w, name, count), <<count - Len(found)>>)

\* No more are told of than are wanted, but a later layer adds one even if there
\* are enough.
InfoOf(w, found, name, count) ==
    found \o Take(LayerHits(w, name, count), <<Greatest({count - Len(found), 1})>>)

handle_get_feature_info(w, q, count) ==
    IF \E i \in DOMAIN q.layers : enforce_geofence_for_layers(w.layers, q.layers[i]) \in w.denied THEN <<>>
    ELSE FoldLeft(LAMBDA found, name : InfoOf(w, found, name, count), <<>>, q.layers)

\* The style that GetStyles names for a layer.
handle_get_styles(w, name) ==
    LET i == Bare(w.layers, name)
    IN  IF i = 0 \/ w.layers[i].styles = <<>> THEN "default" ELSE w.layers[i].styles[1]

handle_describe_layer(w, names) ==
    LET known == SelectSeq(names, LAMBDA n : Bare(w.layers, n) # 0)
    IN  [n \in DOMAIN known |-> w.layers[Bare(w.layers, known[n])]]

\* The rules of a layer are read as SLD whatever they are written in.
get_layer_rules(w, layer) ==
    LET style == request_sld_body(w.styles, style_name_of(layer))
    IN  IF style.sld THEN style.rules ELSE <<>>

\* The places of the rules that the legend of a layer shows at a scale.
handle_get_legend_graphic(w, name, scale) ==
    LET i == Bare(w.layers, name)
        rules == get_layer_rules(w, w.layers[i])
    IN  IF i = 0 THEN {}
        ELSE {n \in DOMAIN rules : \A s \in scale : /\ \A low \in rules[n].min : low <= s
                                                    /\ \A high \in rules[n].max : s <= high}

-----------------------------------------------------------------------------
\* The corners of a BBOX: latitude first in 1.3 with a geographic system.
normalize_bbox(version, crs) == IF version = "1.3.0" /\ crs \in {"EPSG:4326", "CRS:84"} THEN "yx" ELSE "xy"

\* Parameters are read one after the other, the last one of a name counts; the
\* corners of the BBOX are put in order by what was read before it.
parse_wms_request(params) ==
    FoldLeft(LAMBDA q, p :
                CASE p.name = "BBOX"       -> [q EXCEPT !.bbox = <<p.value, normalize_bbox(q.version, q.crs)>>]
                  [] p.name = "VERSION"    -> [q EXCEPT !.version = p.value]
                  [] p.name \in {"CRS", "SRS"} -> [q EXCEPT !.crs = p.value]
                  [] p.name \in {"I", "X"} -> [q EXCEPT !.i = p.value]
                  [] p.name = "REQUEST"    -> [q EXCEPT !.request = p.value]
                  [] OTHER -> q,
             [request |-> "none", version |-> "none", crs |-> "none", bbox |-> <<>>, i |-> "none"], params)

\* What an error is told as: as an image, or as text.
format_wms_exception(exceptions) ==
    IF exceptions \in {"se_inimage", "se_blank"} THEN "image/png" ELSE "application/vnd.ogc.se_xml"
=============================================================================
