----------------------------- MODULE FeatureQueries -----------------------------
(***************************************************************************)
(* How features are asked for: query_layer_features (handlers/features.rs) *)
(* reads them from the data source of the layer, whatever its type; the    *)
(* REST, WFS and OGC API handlers filter what it returns and cut it into   *)
(* pages.                                                                  *)
(*                                                                         *)
(* What a source holds is a sequence of records [key, name, place]: name   *)
(* is the id the record itself has, NoName if none; place is a point "in"  *)
(* or "out" of the box of the request, or an area "across" or "away" from  *)
(* it. A feature is [key, id, place]. An absent parameter is <<>>, a       *)
(* present one <<value>>. The rows of a read are a sequence in the order   *)
(* in which this read lists them, which may be another at the next read.   *)
(***************************************************************************)
EXTENDS Integers, Sequences, SequencesExt

CONSTANTS
    DefaultLimit    \* 10000, what a database is asked for without a limit

NoName == "none"

Files == {"geojson", "shapefile", "geopackage"}
Databases == {"postgis", "mysql", "mongo"}
Pictures == {"geotiff", "worldimage", "cascaded_wms", "arcgrid", "image_mosaic",
             "image_pyramid", "redis", "metadata"}

Take(s, limit) == IF limit = <<>> \/ limit[1] >= Len(s) THEN s ELSE SubSeq(s, 1, limit[1])
Skip(s, offset) == IF offset = <<>> THEN s ELSE SubSeq(s, offset[1] + 1, Len(s))

\* The orders in which a read may list the rows of a source. No query of a
\* database has an ORDER BY; a file is read from its beginning.
Listings(kind, rows) == IF kind \in Databases THEN SetToSeqs(ToSet(rows)) ELSE {rows}

Feature(row, id) == [key |-> row.key, id |-> id, place |-> row.place]

\* A point is compared with the box, everything else is let through.
feature_in_bbox(f) == f.place # "out"
filter_features(fs, box) == IF box THEN SelectSeq(fs, feature_in_bbox) ELSE fs

\* Slip: cuts before it skips.
query_geojson_features_cut(rows, box, limit, offset) ==
    LET named == SelectSeq(rows, LAMBDA r : r.name # NoName)
        fs == [i \in DOMAIN named |-> Feature(named[i], named[i].name)]
    IN  Skip(Take(filter_features(fs, box), limit), offset)

\* A feature without an id that is a text is not read.
query_geojson_features(rows, box, limit, offset) ==
    LET named == SelectSeq(rows, LAMBDA r : r.name # NoName)
        fs == [i \in DOMAIN named |-> Feature(named[i], named[i].name)]
    IN  Take(Skip(filter_features(fs, box), offset), limit)

\* A shape has no id and is given a new one whenever it is read.
query_shapefile_features(rows, box, limit, offset, read) ==
    LET fs == [i \in DOMAIN rows |-> Feature(rows[i], <<read, i>>)]
    IN  Take(Skip(filter_features(fs, box), offset), limit)

\* The limit is part of the SQL, before the box and the offset.
query_geopackage_features(rows, box, limit, offset) ==
    LET fs == [i \in DOMAIN rows |-> Feature(rows[i], rows[i].key)]
    IN  Skip(filter_features(Take(fs, limit), box), offset)

\* Databases know the boxes of areas; a Mongo collection returns what is
\* within. What is beyond the limit depends on the order of this read. The
\* offset is not used.
Selected(kind, rows, box, limit) ==
    LET Meets(r) == r.place = "in" \/ (r.place = "across" /\ kind # "mongo")
    IN  Take(IF box THEN SelectSeq(rows, Meets) ELSE rows,
             IF limit = <<>> THEN <<DefaultLimit>> ELSE limit)

\* The id column, if it is a text; a new id otherwise.
query_postgis_features(rows, box, limit, read) ==
    LET found == Selected("postgis", rows, box, limit)
    IN  [i \in DOMAIN found |->
            Feature(found[i], IF found[i].name # NoName THEN found[i].name ELSE <<read, i>>)]

\* The place in the answer is the id.
query_counted_features(kind, rows, box, limit) ==
    LET found == Selected(kind, rows, box, limit)
    IN  [i \in DOMAIN found |-> Feature(found[i], i)]

query_layer_features(kind, rows, box, limit, offset, read) ==
    CASE kind = "geojson"    -> query_geojson_features(rows, box, limit, offset)
      [] kind = "shapefile"  -> query_shapefile_features(rows, box, limit, offset, read)
      [] kind = "geopackage" -> query_geopackage_features(rows, box, limit, offset)
      [] kind = "postgis"    -> query_postgis_features(rows, box, limit, read)
      [] kind \in {"mysql", "mongo"} -> query_counted_features(kind, rows, box, limit)
      [] kind \in Pictures   -> <<>>

All(kind, rows, read) == query_layer_features(kind, rows, FALSE, <<>>, <<>>, read)

-----------------------------------------------------------------------------
\* WFS: one layer of a GetFeature. The count is cut before the start is skipped.
query_features(kind, rows, box, ids, max, start, read) ==
    LET fs == filter_features(All(kind, rows, read), box)
        asked == IF ids = <<>> THEN fs ELSE SelectSeq(fs, LAMBDA f : f.id \in ids[1])
    IN  Skip(Take(asked, max), start)

\* The ids that are locked: of all that is asked for, whatever the page.
query_layer_fids(kind, rows, box, ids, read) ==
    LET fs == filter_features(All(kind, rows, read), box)
        asked == IF ids = <<>> THEN fs ELSE SelectSeq(fs, LAMBDA f : f.id \in ids[1])
    IN  [i \in DOMAIN asked |-> asked[i].id]

\* One feature by its id, of REST and of the OGC API.
get_feature(kind, rows, id, read) ==
    LET fs == All(kind, rows, read)
        i == SelectInSeq(fs, LAMBDA f : f.id = id)
    IN  IF i = 0 THEN <<>> ELSE <<fs[i]>>

\* OGC API: a page, and where the next one starts, if there is one. The link to
\* it does not repeat the box.
items(kind, rows, box, limit, offset, read) ==
    LET Meets(f) == f.place \in {"in", "across"}
        all == All(kind, rows, read)
        fs == IF box THEN SelectSeq(all, Meets) ELSE all
        size == IF limit = <<>> THEN 10 ELSE IF limit[1] < 1 THEN 1 ELSE limit[1]
        from == IF offset = <<>> THEN 0 ELSE offset[1]
        page == Take(Skip(fs, <<from>>), <<size>>)
    IN  [features |-> page,
         next |-> IF from + Len(page) < Len(fs)
                  THEN <<[offset |-> from + Len(page), limit |-> size]>> ELSE <<>>]

\* A client that follows the links; page p lists the rows as listed[p].
RECURSIVE Walk(_, _, _, _, _, _)
Walk(kind, listed, p, box, limit, offset) ==
    LET page == items(kind, listed[p], box, limit, offset, p)
    IN  page.features \o
        IF page.next = <<>> \/ page.features = <<>> THEN <<>>
        ELSE Walk(kind, listed, p + 1, FALSE, <<page.next[1].limit>>, <<page.next[1].offset>>)

-----------------------------------------------------------------------------
Keys(fs) == [i \in DOMAIN fs |-> fs[i].key]

\* The pages of n features that a client of REST asks for, one after the other.
RestPages(kind, rows, box, n) ==
    FlattenSeq([p \in 1 .. Len(rows) + 1 |->
        Keys(query_layer_features(kind, rows, box, <<n>>, <<(p - 1) * n>>, p))])

\* The kinds of sources whose ids are the same at every read that lists the rows
\* alike.
KeepsIds(kind, rows) ==
    \/ kind \in {"geojson", "geopackage", "mysql", "mongo"}
    \/ kind = "postgis" /\ \A i \in DOMAIN rows : rows[i].name # NoName
=============================================================================
