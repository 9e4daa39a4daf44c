------------------------------- MODULE LayerFiles -------------------------------
(***************************************************************************)
(* Which file, and which table of it, a layer reads: file_resolver.rs with *)
(* the handlers that offer files (data_source_handler.rs, browse_handler.rs)*)
(* and the readers that open them (features.rs, wcs_handler.rs, bounds.rs). *)
(*                                                                         *)
(* A name is [stem, ext]: the stem is a sequence of letters, for prefixes  *)
(* and blanks matter. A file is the sequence of the names that lead to it, *)
(* a path in a connection [parts, slash]: its names and whether it ends    *)
(* with a "/". The world is [local, bucket, tables]: the files on disk,    *)
(* the keys of the bucket, and the tables of each GeoPackage. What may be  *)
(* absent is <<>> or <<value>>; a native name is the sequence of its parts. *)
(* A read returns the set of the files whose content it may be, the empty  *)
(* set if it fails.                                                        *)
(***************************************************************************)
EXTENDS Integers, Sequences, SequencesExt, FiniteSets, Functions, TLC

storage_type(conn) == IF conn.storage = <<"s3">> THEN "s3" ELSE "local"

FilesOf(w, conn) == IF storage_type(conn) = "s3" THEN w.bucket ELSE w.local

IsDir(files, parts) == \E f \in files : IsStrictPrefix(parts, f)

\* str::trim and the filter that follows it.
Trimmed(native) ==
    IF Len(native) # 1 THEN native
    ELSE LET stem == native[1].stem
             letters == {i \in DOMAIN stem : stem[i] # " "}
         IN  IF letters = {} THEN <<>>
             ELSE <<[native[1] EXCEPT !.stem = SubSeq(stem, Min(letters), Len(stem))]>>

is_single_component(name) == Len(name) = 1 /\ ~Contains(name[1].stem, "\\")

is_directory_connection(w, conn) ==
    /\ conn.path # <<>>
    /\ IF storage_type(conn) = "s3" THEN conn.path[1].slash \/ conn.path[1].parts = <<>>
       ELSE IsDir(w.local, conn.path[1].parts)

\* Slip: only directories on disk are joined with the name of the layer.
resolve_file_path_on_disk(w, conn, native) ==
    IF conn.path = <<>> THEN <<>>
    ELSE LET name == Trimmed(native)
         IN  IF storage_type(conn) = "local" /\ is_directory_connection(w, conn) /\ is_single_component(name)
             THEN <<[parts |-> conn.path[1].parts \o name, slash |-> FALSE]>>
             ELSE conn.path

resolve_file_path(w, conn, native) ==
    IF conn.path = <<>> THEN <<>>
    ELSE LET name == Trimmed(native)
         IN  IF is_directory_connection(w, conn) /\ is_single_component(name)
             THEN <<[parts |-> conn.path[1].parts \o name, slash |-> FALSE]>>
             ELSE conn.path

Get(files, path) == IF path.slash THEN {} ELSE files \cap {path.parts}

read_bytes_for(w, conn, native) ==
    LET path == resolve_file_path(w, conn, native)
    IN  IF path = <<>> THEN {} ELSE Get(FilesOf(w, conn), path[1])

-----------------------------------------------------------------------------
(* A materialized file is [at, entries]: the name a reader is given, <<>>   *)
(* for the directory itself, and the entries <<name, file>> of the         *)
(* directory it is in. Of several files written under one name the last    *)
(* one stays; which that is is left open.                                  *)

Nowhere == [at |-> <<>>, entries |-> {}]

OnDisk(w, path) ==
    LET dir == IF path.slash \/ IsDir(w.local, path.parts) \/ path.parts = <<>>
               THEN path.parts ELSE Front(path.parts)
    IN  [at |-> IF dir = path.parts THEN <<>> ELSE <<Last(path.parts)>>,
         entries |-> {<<Last(f), f>> : f \in {g \in w.local : Len(g) = Len(dir) + 1 /\ IsPrefix(dir, g)}}]

Base(path) == IF path.slash \/ path.parts = <<>> THEN <<>> ELSE <<Last(path.parts)>>

\* Keys are texts: the last name of a prefix need not be the whole name.
StartsWith(key, path) ==
    IF Base(path) = <<>> THEN IsStrictPrefix(path.parts, key)
    ELSE /\ Len(key) >= Len(path.parts) /\ IsPrefix(Front(path.parts), key)
         /\ IsPrefix(Last(path.parts).stem, key[Len(path.parts)].stem)

materialize_file_for(w, conn, native) ==
    LET path == resolve_file_path(w, conn, native)
    IN  IF path = <<>> THEN Nowhere
        ELSE IF storage_type(conn) = "local" THEN OnDisk(w, path[1])
        ELSE [at |-> Base(path[1]), entries |-> {<<Last(k), k>> : k \in Get(w.bucket, path[1])}]

materialize_dir_for(w, conn, native) ==
    LET path == resolve_file_path(w, conn, native)
    IN  IF path = <<>> THEN Nowhere
        ELSE IF storage_type(conn) = "local" THEN OnDisk(w, path[1])
        ELSE [at |-> Base(path[1]),
              entries |-> {<<Last(k), k>> : k \in {k \in w.bucket : StartsWith(k, path[1])}}]

Named(m, name) == {e[2] : e \in {e \in m.entries : e[1] = name}}
Main(m) == IF m.at = <<>> THEN {} ELSE Named(m, m.at[1])

\* The companions a reader finds: the same stem with another extension.
Beside(m) ==
    IF m.at = <<>> THEN {}
    ELSE {e[2] : e \in {e \in m.entries : e[1].stem = m.at[1].stem /\ e[1] # m.at[1]}}

-----------------------------------------------------------------------------
DirectoryTypes == {"imagemosaic", "imagepyramid"}
FileTypes == {"geojson", "shapefile", "geopackage", "geotiff", "worldimage", "arcgrid"} \cup DirectoryTypes

publishable_extensions(type) ==
    CASE type = "geojson"    -> {"geojson", "json"}
      [] type = "shapefile"  -> {"shp"}
      [] type = "geopackage" -> {"gpkg"}
      [] type = "geotiff"    -> {"tif", "tiff"}
      [] type = "worldimage" -> {"png", "jpg", "jpeg", "tif", "tiff", "gif"}
      [] type = "arcgrid"    -> {"asc", "grd"}
      [] OTHER               -> {}

\* The prefix of the root of a bucket is "/", with which no key begins.
list_directory_files(w, conn, type) ==
    LET dir == conn.path[1].parts
    IN  IF storage_type(conn) = "s3" /\ dir = <<>> THEN {}
        ELSE {Last(f) : f \in {f \in FilesOf(w, conn) : Len(f) = Len(dir) + 1 /\ IsPrefix(dir, f)
                                                        /\ Last(f).ext \in publishable_extensions(type)}}

TablesOf(w, files) == IF files = {} THEN <<>> ELSE w.tables[CHOOSE f \in files : TRUE]

\* What a new layer of the source may be named after; a table is a name as well.
get_data_source_tables(w, ds) ==
    IF is_directory_connection(w, ds.conn) THEN list_directory_files(w, ds.conn, ds.type)
    ELSE IF ds.type = "geopackage" THEN ToSet(TablesOf(w, Main(materialize_file_for(w, ds.conn, <<>>))))
    ELSE {}

resolve_raster_native_name(w, ds, layers) ==
    LET named == {i \in DOMAIN layers : layers[i].store = ds.name /\ Trimmed(layers[i].native) # <<>>}
    IN  IF ds.type \in DirectoryTypes \/ ~is_directory_connection(w, ds.conn) THEN {<<>>}
        ELSE IF named # {}
        THEN {Trimmed(layers[Min(named)].native)}
        ELSE LET files == list_directory_files(w, ds.conn, ds.type)
             IN  IF files = {} THEN {<<>>} ELSE {<<f>> : f \in files}

test_file_connection(w, ds) ==
    /\ ds.conn.path # <<>>
    /\ IF is_directory_connection(w, ds.conn) THEN list_directory_files(w, ds.conn, ds.type) # {}
       ELSE Get(FilesOf(w, ds.conn), ds.conn.path[1]) # {}

-----------------------------------------------------------------------------
(* Mosaics are directories of rasters, pyramids directories of numbered     *)
(* mosaics; a pyramid is read up to as many levels as it has directories,    *)
(* unless a file of its own says otherwise, which none here does.          *)

Rasters == {"tif", "tiff", "png", "jpg", "jpeg", "asc", "grd"}

scan_raster_files(files, dir) ==
    {f \in files : Len(f) = Len(dir) + 1 /\ IsPrefix(dir, f) /\ Last(f).ext \in Rasters}

LevelDir(dir, level) == Append(dir, [stem |-> <<ToString(level)>>, ext |-> ""])

level_count(files, dir) == Cardinality({level \in 0 .. 9 : IsDir(files, LevelDir(dir, level))})

load_pyramid(files, dir) ==
    UNION {scan_raster_files(files, LevelDir(dir, level)) : level \in 0 .. level_count(files, dir) - 1}

Granules(files, dir, type) ==
    IF type = "imagepyramid" THEN load_pyramid(files, dir) ELSE scan_raster_files(files, dir)

\* Looked for on disk, wherever the connection leads.
test_mosaic_connection(w, ds) ==
    ds.conn.path # <<>> /\ Granules(w.local, ds.conn.path[1].parts, ds.type) # {}

test_datasource_connection(w, ds) ==
    IF ds.type \in DirectoryTypes THEN test_mosaic_connection(w, ds) ELSE test_file_connection(w, ds)

-----------------------------------------------------------------------------
(* Readers.                                                                *)

materialize(w, ds, native) ==
    IF ds.type \in {"worldimage", "shapefile"} THEN materialize_dir_for(w, ds.conn, native)
    ELSE materialize_file_for(w, ds.conn, native)

\* The rasters of a mosaic. From a bucket they come without the directories they
\* are in, and so a pyramid has no levels.
ReadsGranules(w, ds) ==
    LET m == materialize_dir_for(w, ds.conn, <<>>)
    IN  IF storage_type(ds.conn) = "local" THEN Granules(w.local, ds.conn.path[1].parts, ds.type)
        ELSE IF ds.type = "imagepyramid" \/ m.at # <<>> THEN {}
        ELSE {e[2] : e \in {e \in m.entries : e[1].ext \in Rasters}}

\* A single file may be read by the name of one of its tables, a file of a
\* directory is read by its first one.
SelectTable(w, conn, files, native) ==
    LET tables == TablesOf(w, files)
        name == Trimmed(native)
    IN  IF tables = <<>> THEN <<>>
        ELSE IF ~is_directory_connection(w, conn) /\ Len(name) = 1 /\ Contains(tables, name[1])
        THEN name ELSE <<tables[1]>>

\* The files whose features, or pixels, a layer of this native name shows.
Reads(w, ds, native) ==
    IF ds.type = "geojson"
    THEN [main |-> read_bytes_for(w, ds.conn, native), beside |-> {}, table |-> <<>>]
    ELSE LET m == materialize(w, ds, native)
         IN  [main |-> Main(m), beside |-> Beside(m),
              table |-> IF ds.type = "geopackage" THEN SelectTable(w, ds.conn, Main(m), native) ELSE <<>>]

\* Bounds are read from disk wherever the connection leads.
compute_layer_bounds(w, ds, native) ==
    LET path == resolve_file_path(w, ds.conn, native)
        file == IF path = <<>> THEN {} ELSE Get(w.local, path[1])
    IN  IF ds.type \in DirectoryTypes /\ path # <<>>
        THEN [main |-> Granules(w.local, ds.conn.path[1].parts, ds.type), beside |-> {}, table |-> <<>>]
        ELSE [main |-> file, beside |-> IF path = <<>> THEN {} ELSE Beside(OnDisk(w, path[1])),
              table |-> IF ds.type = "geopackage" THEN SelectTable(w, ds.conn, file, native) ELSE <<>>]

\* <<>> if the request is refused.
get_layer_feature_type(w, ds, native) ==
    LET file == Main(materialize_file_for(w, ds.conn, native))
        tables == TablesOf(w, file)
        name == Trimmed(native)
    IN  IF ds.type # "geopackage" \/ tables = <<>> THEN <<>>
        ELSE IF is_directory_connection(w, ds.conn) THEN <<[file |-> file, table |-> tables[1]]>>
        ELSE IF Len(name) = 1 /\ Contains(tables, name[1]) THEN <<[file |-> file, table |-> name[1]]>>
        ELSE <<>>

\* The path of the connection is opened, whatever the layer is.
update_layer_feature_type(w, ds, native) ==
    IF ds.type # "geopackage" \/ native = <<>> \/ ds.conn.storage \notin {<<>>, <<"local">>} \/ ds.conn.path = <<>>
    THEN <<>>
    ELSE LET file == Get(w.local, ds.conn.path[1])
         IN  IF Len(native) = 1 /\ Contains(TablesOf(w, file), native[1])
             THEN <<[file |-> file, table |-> native[1]]>> ELSE <<>>

-----------------------------------------------------------------------------
(* Browsing: the files and directories right below a directory, each with  *)
(* the path that a connection to it has.                                   *)

Listing(files, dir) ==
    LET below == {f \in files : IsStrictPrefix(dir, f)}
    IN  {[path |-> [parts |-> SubSeq(f, 1, Len(dir) + 1), slash |-> FALSE], is_dir |-> Len(f) > Len(dir) + 1] : f \in below}

browse_local(w, dir) == Listing(w.local, dir)

browse_s3(w, prefix) ==
    {[e EXCEPT !.path.slash = e.is_dir] : e \in Listing(w.bucket, prefix)}
=================================================================================
