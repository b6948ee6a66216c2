-------------------------------- MODULE LabData --------------------------------
(***************************************************************************)
(* The laboratory's data: labctl.py downloads archives, seals what came    *)
(* first, and unpacks them under a marker, or takes over what an operator  *)
(* brings; the scanner names the files it finds in a manifest, and         *)
(* build_extended_real_corpus.py reads them again.  Archives, revisions    *)
(* and operators' files are versions; a digest is the version itself.      *)
(* labctl may die at every step, the operator removes caches and seals,    *)
(* the server's archive and the locks change, and nothing keeps a second   *)
(* labctl command from running while a corpus is built.                    *)
(***************************************************************************)
EXTENDS Integers, FiniteSets, Sequences, Functions

CONSTANTS None, Partial,  \* no version; a download that was cut short
          Versions,
          Members,        \* what an archive version holds: [Versions -> SUBSET HttpFiles]
          MinCases,       \* a corpus of fewer cases is refused
          MaxChanges, MaxDeaths   \* bounds: changes from outside, deaths of labctl

VARIABLES pin, revision,      \* data-sources.lock.json: the archive's digest (None: record first),
                              \* the snapshot's revision
          catalog,            \* extended.datasets.lock.json
          upstream,           \* the version the server has
          archive, snapshot,  \* the cache: an archive; the revisions whose archives were fetched
          seal,               \* acquisition/<id>.json
          tree,               \* the data root: name -> version
          marker,             \* .audio-pipeline-materialized.json
          todo, forced, pc,   \* labctl materialize or adopt
          manifest,           \* source-manifest.json
          building,           \* build_extended_real_corpus.py has verified the manifest
          corpus,             \* the content of the files it then read
          changes, deaths,
          \* history, for the properties only:
          cut,                \* a forced removal ended before it came to the marker
          disturbed           \* data or catalog changed since the build verified them
locks == <<pin, revision, catalog, upstream>>
store == <<archive, snapshot, seal, tree, marker>>
labctl == <<todo, forced, pc>>
builder == <<manifest, building, corpus>>
vars == <<locks, store, labctl, builder, changes, deaths, cut, disturbed>>

HttpFiles == UNION Range(Members)
\* A download that was cut short is no version, and what is not there is none either.
LabAssumption == None \notin Versions /\ Partial \notin Versions /\ Members \in [Versions -> SUBSET HttpFiles]
Sets == {"http", "hf", "op"}
\* The tree's names: an archive's files, a revision's recordings, the operator's file.
Of(d) == CASE d = "http" -> {<<d, f>> : f \in HttpFiles}
           [] d = "hf" -> {<<d, v>> : v \in Versions}
           [] OTHER -> {<<d, d>>}
Names == UNION {Of(d) : d \in Sets}
Present(d) == {n \in Of(d) : tree[n] # None}
Profiles == {<<"hf", "http">>, <<"hf", "http", "op">>}

Init ==
    /\ pin \in Versions \cup {None} /\ \E v \in Versions : revision = v /\ upstream = v
    /\ catalog = 1
    /\ archive = None /\ snapshot = {} /\ seal = [d \in Sets |-> None]
    /\ tree = [n \in Names |-> None] /\ marker = [d \in Sets |-> None]
    /\ todo = <<>> /\ forced = FALSE /\ pc = "idle"
    /\ manifest = None /\ building = FALSE /\ corpus = None
    /\ changes = 0 /\ deaths = 0 /\ cut = {} /\ disturbed = FALSE

(***************************************************************************)
(* labctl materialize: the datasets of a profile one after the other, up   *)
(* to the first that fails.                                                *)
(***************************************************************************)
Dataset == Head(todo)
At(d, p) == pc = p /\ Dataset = d
Exit == todo' = <<>> /\ pc' = "idle" /\ UNCHANGED forced
Done == todo' = Tail(todo) /\ pc' = (IF Len(todo) = 1 THEN "idle" ELSE "fetch") /\ UNCHANGED forced
GoOn(p) == pc' = p /\ UNCHANGED <<todo, forced>>
Aside == UNCHANGED <<locks, builder, changes>>
\* A write to the data root while a corpus is being built.
Writes(t) == tree' = t /\ disturbed' = (disturbed \/ (building /\ t # tree))

Materialize(ds, force) ==
    /\ pc = "idle" /\ todo' = ds /\ forced' = force /\ pc' = "fetch"
    /\ Aside /\ UNCHANGED <<store, deaths, cut, disturbed>>

\* An archive that is there is not fetched again, however it came there.
Fetch ==
    /\ At("http", "fetch") /\ archive = None
    /\ archive' = upstream /\ GoOn("fetch")
    /\ Aside /\ UNCHANGED <<snapshot, seal, tree, marker, deaths, cut, disturbed>>
\* Mutant of PinHolds: once there is a seal, the lock is not asked again.
PinHoldsOnce(a) == pin = None \/ a = pin \/ seal["http"] = a
PinHolds(a) == pin = None \/ a = pin
SealHolds(a) == seal["http"] \in {None, a}
\* The digest is compared with the lock's, then with the seal's, and sealed when it is the first;
\* then the marker tells whether there is anything to do.
AfterMarker(bound) ==
    IF marker[Dataset] # None /\ ~forced THEN (IF bound THEN Done ELSE Exit)
    ELSE GoOn(IF forced /\ (Present(Dataset) # {} \/ marker[Dataset] # None) THEN "remove" ELSE "extract")
Bind ==
    /\ At("http", "fetch") /\ archive # None
    /\ IF PinHolds(archive) /\ SealHolds(archive)
       THEN seal' = [seal EXCEPT !["http"] = archive] /\ AfterMarker(marker["http"] = archive)
       ELSE Exit /\ UNCHANGED seal
    /\ Aside /\ UNCHANGED <<archive, snapshot, tree, marker, deaths, cut, disturbed>>
\* The snapshot directory keeps what earlier revisions left.
Snapshot ==
    /\ At("hf", "fetch")
    /\ snapshot' = snapshot \cup {revision} /\ AfterMarker(marker["hf"] = revision)
    /\ Aside /\ UNCHANGED <<archive, seal, tree, marker, deaths, cut, disturbed>>

Without(names) == [n \in Names |-> IF n \in names THEN None ELSE tree[n]]
Remove ==
    /\ pc = "remove"
    /\ Writes(Without(Of(Dataset))) /\ marker' = [marker EXCEPT ![Dataset] = None]
    /\ cut' = cut \ {Dataset} /\ GoOn("extract")
    /\ Aside /\ UNCHANGED <<archive, snapshot, seal, deaths>>
\* What is unpacked: the archive's members, or every archive of the snapshot directory.
Unpacked(d) == IF d = "http" THEN {<<d, f>> : f \in Members[archive]} ELSE {<<d, v>> : v \in snapshot}
With(names) == [n \in Names |-> IF n \in names THEN (IF n[1] = "http" THEN archive ELSE n[2]) ELSE tree[n]]
\* An archive that is cut short unpacks to nothing.
Extract ==
    /\ pc = "extract" /\ Aside /\ UNCHANGED <<archive, snapshot, seal, marker, deaths, cut>>
    /\ IF Dataset = "http" /\ archive = Partial THEN Exit /\ UNCHANGED <<tree, disturbed>>
       ELSE Writes(With(Unpacked(Dataset))) /\ GoOn("mark")
\* Only now are a snapshot's archives sealed, or found to have drifted from their seal.
Mark ==
    /\ pc = "mark" /\ Aside /\ UNCHANGED <<archive, snapshot, tree, deaths, cut, disturbed>>
    /\ CASE Dataset = "http" -> /\ marker' = [marker EXCEPT !["http"] = archive] /\ Done /\ UNCHANGED seal
         [] Dataset = "hf" /\ seal["hf"] \in {None, <<revision, snapshot>>} ->
              /\ seal' = [seal EXCEPT !["hf"] = <<revision, snapshot>>]
              /\ marker' = [marker EXCEPT !["hf"] = revision] /\ Done
         [] OTHER -> Exit /\ UNCHANGED <<seal, marker>>
\* A dataset an operator brings stops the command, whether it has been adopted or not, or is skipped.
Operator(skip) ==
    /\ At("op", "fetch") /\ (IF skip THEN Done ELSE Exit)
    /\ Aside /\ UNCHANGED <<store, deaths, cut, disturbed>>
\* adopt: rsync, then the marker.
Adopt(v) ==
    /\ pc = "idle"
    /\ Writes([tree EXCEPT ![<<"op", "op">>] = v]) /\ marker' = [marker EXCEPT !["op"] = v]
    /\ Aside /\ UNCHANGED <<archive, snapshot, seal, labctl, deaths, cut>>

\* labctl dies: a download, a removal or an unpacking is left half done.
Die ==
    /\ pc # "idle" /\ deaths < MaxDeaths /\ deaths' = deaths + 1
    /\ Exit /\ Aside /\ UNCHANGED <<snapshot, seal>>
    /\ CASE At("http", "fetch") /\ archive = None ->
              archive' = Partial /\ UNCHANGED <<tree, marker, cut, disturbed>>
         [] pc = "remove" ->
              /\ \E gone \in SUBSET Of(Dataset) : Writes(Without(gone))
              /\ \E left \in {marker[Dataset], None} :
                    /\ marker' = [marker EXCEPT ![Dataset] = left]
                    /\ cut' = IF left # None THEN cut \cup {Dataset} ELSE cut \ {Dataset}
              /\ UNCHANGED archive
         [] pc = "extract" /\ ~(Dataset = "http" /\ archive = Partial) ->
              /\ \E some \in SUBSET Unpacked(Dataset) : Writes(With(some))
              /\ UNCHANGED <<archive, marker, cut>>
         [] OTHER -> UNCHANGED <<archive, tree, marker, cut, disturbed>>

(***************************************************************************)
(* From outside: the server, the locks, and an operator who clears a cache *)
(* or a seal.                                                              *)
(***************************************************************************)
Change ==
    /\ changes < MaxChanges /\ changes' = changes + 1
    /\ \/ upstream' \in Versions /\ UNCHANGED <<pin, revision, catalog, archive, seal, disturbed>>
       \/ pc = "idle" /\ pin' \in Versions /\ revision' \in Versions
          /\ UNCHANGED <<catalog, upstream, archive, seal, disturbed>>
       \/ catalog' = catalog + 1 /\ disturbed' = (disturbed \/ building)
          /\ UNCHANGED <<pin, revision, upstream, archive, seal>>
       \/ pc = "idle" /\ archive' = None /\ UNCHANGED <<locks, seal, disturbed>>
       \/ pc = "idle" /\ \E d \in {"http", "hf"} : seal' = [seal EXCEPT ![d] = None]
          /\ UNCHANGED <<locks, archive, disturbed>>
    /\ UNCHANGED <<snapshot, tree, marker, labctl, builder, deaths, cut>>

(***************************************************************************)
(* The manifest and the corpus.                                            *)
(***************************************************************************)
\* The scanners take what is there, marked or not, and refuse a dataset with nothing in it.
Found(d) == Present(d)
Scan(ds) ==
    /\ ~building /\ \A d \in Range(ds) : Found(d) # {}
    /\ manifest' = [catalog |-> catalog,
                    files |-> [n \in UNION {Found(d) : d \in Range(ds)} |-> tree[n]]]
    /\ corpus' = None
    /\ UNCHANGED <<locks, store, labctl, building, changes, deaths, cut, disturbed>>
CatalogHolds(m) == m.catalog = catalog
\* Mutant of FilesHold: a file that is there is the file.
FilesThere(m) == \A n \in DOMAIN m.files : tree[n] # None
FilesHold(m) == \A n \in DOMAIN m.files : tree[n] = m.files[n]
StartBuild ==
    /\ ~building /\ manifest # None /\ CatalogHolds(manifest) /\ FilesHold(manifest)
    /\ building' = TRUE /\ corpus' = None /\ disturbed' = FALSE
    /\ UNCHANGED <<locks, store, labctl, manifest, changes, deaths, cut>>
\* The files are read again, without their hashes; one that is gone, or too few, and there is no corpus.
ReadAgain(n) == tree[n]
ReadFiles ==
    /\ building /\ building' = FALSE
    /\ LET ns == DOMAIN manifest.files IN
       corpus' = IF \E n \in ns : ReadAgain(n) = None \/ Cardinality(ns) < MinCases THEN None
                 ELSE [n \in ns |-> ReadAgain(n)]
    /\ UNCHANGED <<locks, store, labctl, manifest, changes, deaths, cut, disturbed>>

Next ==
    \/ \E ds \in Profiles, f \in BOOLEAN : Materialize(ds, f)
    \/ Fetch \/ Bind \/ Snapshot \/ Remove \/ Extract \/ Mark \/ Die \/ Change
    \/ \E skip \in BOOLEAN : Operator(skip)
    \/ \E v \in Versions : Adopt(v)
    \/ \E ds \in Profiles : Scan(ds)
    \/ StartBuild \/ ReadFiles
Spec == Init /\ [][Next]_vars

(***************************************************************************)
(* Properties                                                              *)
(***************************************************************************)
\* Under a marker every member of the archive it names is there, with that archive's content, and
\* every archive of the revision it names, unless a forced removal died before it reached the marker,
\* or one is under way; the next run then takes the marker's word for it.
MarkedWhole ==
    \A d \in {"http", "hf"} : marker[d] # None /\ d \notin cut =>
        IF d = "http" THEN \A f \in Members[marker[d]] : tree[<<d, f>>] = marker[d]
        ELSE tree[<<d, marker[d]>>] = marker[d]
\* Nothing but what the lock pinned is ever unpacked, as long as the lock pins what it pins: not what
\* a download that died left in the cache, nor what the server has changed to.
NothingUnpinned == pc = "mark" /\ Dataset = "http" => pin \in {None, archive}
\* What a corpus was made of is what its manifest names, file by file, whatever happened between the
\* scan and the build, unless it happened while the files were read.
CorpusBound == corpus # None /\ ~disturbed => corpus = manifest.files
LabDataKept == MarkedWhole /\ NothingUnpinned /\ CorpusBound
=============================================================================
