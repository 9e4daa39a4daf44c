-------------------------------- MODULE Imports --------------------------------
(***************************************************************************)
(* Publishing files in bulk: the importer (importer.rs), which unpacks an   *)
(* archive and publishes what it recognises, and the samples of the first   *)
(* start (samples.rs, state.rs). Both write the metadata store only.       *)
(*                                                                         *)
(* The store is [workspaces, namespaces, sources, layers]; a source is a    *)
(* type and a connection, a layer [store, native]. Every file is a path of  *)
(* LayerFiles.                                                             *)
(***************************************************************************)
EXTENDS LayerFiles

classify(ext) ==
    CASE ext \in {"geojson", "json"} -> <<"geojson">>
      [] ext \in {"tif", "tiff"}     -> <<"geotiff">>
      [] ext = "gpkg"                -> <<"geopackage">>
      [] ext = "shp"                 -> <<"shapefile">>
      [] OTHER                       -> <<>>

Companions == {"shx", "dbf", "prj", "cpg", "sbn", "sbx"}

Digits == {"0", "1", "2"}

\* Letters, digits and "_" stay, the "_" at both ends go.
layer_name_from(stem) ==
    LET cleaned == [i \in DOMAIN stem |-> IF stem[i] \in {" ", "-", ":"} THEN "_" ELSE stem[i]]
        kept == {i \in DOMAIN cleaned : cleaned[i] # "_"}
        name == SelectSeq([i \in DOMAIN cleaned |->
                             IF \E j, k \in kept : j <= i /\ i <= k THEN cleaned[i] ELSE ""],
                          LAMBDA c : c # "")
    IN  IF name = <<>> THEN <<"imported_layer">>
        ELSE IF name[1] \in Digits THEN <<"layer_">> \o name
        ELSE name

sanitize_member_name(name) ==
    [name EXCEPT !.stem = [i \in DOMAIN @ |-> IF @[i] = ":" THEN "_" ELSE @[i]]]

ensure_workspace(st, ws) ==
    IF ws \in st.workspaces THEN st
    ELSE [st EXCEPT !.workspaces = @ \cup {ws}, !.namespaces = @ \cup {ws}]

Entry(file, status, layer) == [file |-> file, status |-> status, layer |-> layer]

ConnectionTo(path) == [storage |-> <<"local">>, path |-> <<[parts |-> path, slash |-> FALSE]>>]

Source(type, path) == [type |-> type, conn |-> ConnectionTo(path)]

\* Slip: a file whose name is taken is published in the place of the other.
publish_file_again(done, file, path) ==
    LET name == layer_name_from(file.stem)
        type == classify(file.ext)
    IN  IF type = <<>> THEN [done EXCEPT !.entries = Append(@, Entry(file, "skipped", <<>>))]
        ELSE [done EXCEPT !.st.sources = (name :> Source(type[1], path)) @@ @,
                          !.st.layers = (name :> [store |-> name, native |-> <<file>>]) @@ @,
                          !.entries = Append(@, Entry(file, "created", <<name>>))]

\* The source is written before the layer, whose name may be taken.
publish_file(done, file, path) ==
    LET name == layer_name_from(file.stem)
        type == classify(file.ext)
        Report(status, layer, st) ==
            [st |-> st, entries |-> Append(done.entries, Entry(file, status, layer))]
        sourced == [done.st EXCEPT !.sources = (name :> Source(type[1], path)) @@ @]
    IN  IF type = <<>> THEN Report("skipped", <<>>, done.st)
        ELSE IF name \in DOMAIN done.st.sources THEN Report("skipped", <<name>>, done.st)
        ELSE IF name \in DOMAIN done.st.layers THEN Report("failed", <<name>>, sourced)
        ELSE Report("created", <<name>>,
                    [sourced EXCEPT !.layers = (name :> [store |-> name, native |-> <<file>>]) @@ @])

\* Only what is right below the directory, in the order of the names.
publish_dir_members(st, dir, members) ==
    FoldLeft(LAMBDA done, file : publish_file(done, file, Append(dir, file)),
             [st |-> st, entries |-> <<>>],
             SelectSeq(members, LAMBDA file : file.ext \notin Companions))

Unpacked(dir, member) == dir \o [i \in DOMAIN member |-> sanitize_member_name(member[i])]

\* An archive is the sequence of its members; of those with one path the last one
\* stays. order lists the files that end up right in the directory, which are
\* read in the order of their names. The result is the world, the store and the
\* report.
UnpackedTo(archive, dir) == {Unpacked(dir, archive[i]) : i \in DOMAIN archive}

TopOf(archive, dir) == {Last(f) : f \in {f \in UnpackedTo(archive, dir) : Len(f) = Len(dir) + 1}}

run_import(w, st, ws, archive, dir, order) ==
    [w |-> [w EXCEPT !.local = @ \cup UnpackedTo(archive, dir)]]
    @@ publish_dir_members(ensure_workspace(st, ws), dir, order)

\* A single file is published under the name it was sent with.
run_import_file(w, st, ws, file, dir) ==
    LET path == Append(dir, sanitize_member_name(file))
    IN  IF classify(file.ext) = <<>> THEN [w |-> w, st |-> ensure_workspace(st, ws), entries |-> <<>>]
        ELSE [w |-> [w EXCEPT !.local = @ \cup {path}]]
             @@ publish_file([st |-> ensure_workspace(st, ws), entries |-> <<>>], file, path)

-----------------------------------------------------------------------------
(* The samples: what a start does for each of them, step by step.          *)

Sample(stem, ext) == [stem |-> stem, ext |-> ext]

SampleDatasets == <<Sample(<<"c">>, "geojson"), Sample(<<"e">>, "tif")>>

Does == <<"copy", "workspace", "namespace", "source", "layer">>

SampleSteps ==
    [i \in 1 .. Len(Does) * Len(SampleDatasets) |->
        [file |-> SampleDatasets[((i - 1) \div Len(Does)) + 1], does |-> Does[((i - 1) % Len(Does)) + 1]]]

\* On a server [w, st, bundled, fresh]: without its file a sample is passed over; a
\* workspace that is made gets its namespace, one that is there does not.
SeedStep(srv, step, dir) ==
    LET file == step.file
        path == Append(dir, file)
        name == file.stem
    IN  IF step.does = "copy"
        THEN IF file \in srv.bundled THEN [srv EXCEPT !.w.local = @ \cup {path}] ELSE srv
        ELSE IF path \notin srv.w.local THEN srv
        ELSE CASE step.does = "workspace" -> [srv EXCEPT !.fresh = "demo" \notin srv.st.workspaces,
                                                         !.st.workspaces = @ \cup {"demo"}]
               [] step.does = "namespace" ->
                    IF srv.fresh THEN [srv EXCEPT !.st.namespaces = @ \cup {"demo"}] ELSE srv
               [] step.does = "source" ->
                    IF name \in DOMAIN srv.st.sources THEN srv
                    ELSE [srv EXCEPT !.st.sources = (name :> Source(classify(file.ext)[1], path)) @@ @]
               [] step.does = "layer" ->
                    IF name \in DOMAIN srv.st.layers THEN srv
                    ELSE [srv EXCEPT !.st.layers = (name :> [store |-> name, native |-> <<file>>]) @@ @]

\* seed_samples, cut off after some of its steps.
seed_samples(srv, dir, steps) ==
    FoldLeftDomain(LAMBDA s, i : IF i <= steps THEN SeedStep(s, SampleSteps[i], dir) ELSE s, srv, SampleSteps)

WorldLayer == <<"world">>

\* A start seeds a server without layers, and makes the layer of the world last.
Start(srv, dir, steps) ==
    IF DOMAIN srv.st.layers # {} THEN srv
    ELSE LET seeded == seed_samples([srv EXCEPT !.fresh = FALSE], dir, steps)
         IN  IF steps <= Len(SampleSteps) THEN seeded
             ELSE [seeded EXCEPT !.st.layers = (WorldLayer :> [store |-> <<"metadata">>, native |-> <<>>]) @@ @]
=================================================================================
