------------------------------ MODULE WorkDir ------------------------------
(***************************************************************************)
(* The directory an image is built from.  A run of kolla-build copies the  *)
(* docker tree into its working directory, renders the Dockerfile, copies  *)
(* the patches, and then, in each attempt of the build task, fetches the   *)
(* source of the image and of its plugins, extracts the plugins into one   *)
(* directory and packs that as the archive the Dockerfile adds.            *)
(*                                                                         *)
(* The directory is a new temporary one, or that of --work-dir, which is   *)
(* never cleaned: it keeps what earlier runs left, killed ones included.   *)
(* Between two runs the docker tree, the options and the patches change;   *)
(* what a source has upstream changes at any time.                         *)
(*                                                                         *)
(* This is one image; the additions of an image are handled by the code    *)
(* that handles its plugins, and stand with them.                          *)
(***************************************************************************)
EXTENDS PatchSeries, Naturals, FiniteSets

CONSTANTS
    Main,           \* the source of the image itself
    Plugins,        \* the plugin sections there may be
    Labels,         \* what names the tree in an archive (a git reference)
    Templates,      \* contents of the Dockerfile.j2 of the image
    SeriesChoices,  \* series files the patches folder may have
    Parents,        \* what the parent image may have been patched with
    Good,           \* the patches that apply
    None,           \* no file
    Torn,           \* a file whose writing was cut short
    Retries,        \* conf.retries
    MaxVersion,     \* bound: upstream versions
    MaxRuns         \* bound: runs of kolla-build

\* "absent": no such section; "disabled": enabled is false
Settings == {"absent", "disabled"} \cup Labels

Sources == {Main} \cup Plugins

\* Series files, those whose copying was cut short included.
Beginnings(s) == {SubSeq(s, 1, n) : n \in 0..Len(s)}

Series == UNION {Beginnings(s) : s \in SeriesChoices}

Versions == 1..MaxVersion

Tree == Labels \X Versions              \* what an archive holds

ASSUME WorkDirAssumption ==
    /\ Main \notin Plugins
    /\ {"absent", "disabled"} \cap Labels = {}
    /\ None # Torn /\ {None, Torn} \cap (Templates \cup Tree) = {}
    /\ NoSeries \notin Series
    /\ SeriesChoices \subseteq Seq(Patches)
    /\ Parents \subseteq PatchedImage
    /\ Retries \in Nat /\ MaxVersion \in Nat \ {0} /\ MaxRuns \in Nat

File == Tree \cup {None, Torn}
Extracted == Plugins \X File            \* what plugins/ holds

\* image.path, with the files the build reads
Directory ==
    [template : Templates \cup {None},              \* Dockerfile.j2
     dockerfile : Templates \cup {None, Torn},
     series : Series \cup {NoSeries},               \* patches/series
     archive : [Sources -> File],
     plugins : SUBSET Extracted,                    \* the directory plugins/
     packed : (SUBSET Extracted) \cup {None, Torn}]   \* plugins-archive

Fresh ==
    [template |-> None, dockerfile |-> None, series |-> NoSeries,
     archive |-> [s \in Sources |-> None], plugins |-> {}, packed |-> None]

VARIABLES
    work_dir,       \* --work-dir is given
    \* the operator's
    template, options, patches,
    \* the world's
    upstream,       \* the version each fetch gets now
    image,          \* the image the engine built, the parent's before
    \* the file system
    dir,
    \* the process
    pc, conf, todo, attempt,
    \* history
    runs, fetched, all, parent

operator == <<template, options, patches>>
vars == <<work_dir, operator, upstream, image, dir, pc, conf, todo, attempt,
          runs, fetched, all, parent>>

TypeOK ==
    /\ work_dir \in BOOLEAN
    /\ template \in Templates \cup {None}
    /\ options \in [Sources -> Settings]
    /\ patches \in SeriesChoices \cup {NoSeries}
    /\ upstream \in Versions
    /\ image \in PatchedImage /\ parent \in Parents
    /\ dir \in Directory
    /\ pc \in {"idle", "copy", "render", "patch", "ready", "main", "plugins",
               "extract", "pack", "engine", "cleanup"}
    /\ conf \in [Sources -> Settings]
    /\ todo \subseteq Plugins
    /\ attempt \in 0..Retries
    /\ runs \in 0..MaxRuns
    /\ fetched \in [Sources -> Tree \cup {None}]
    /\ all \subseteq Sources \X Tree

Init ==
    /\ work_dir \in BOOLEAN
    /\ template \in Templates
    /\ options \in [Sources -> Settings]
    /\ patches \in SeriesChoices \cup {NoSeries}
    /\ upstream = 1
    /\ parent \in Parents /\ image = parent
    /\ dir = Fresh
    /\ pc = "idle" /\ conf = options /\ todo = {} /\ attempt = 0
    /\ runs = 0 /\ fetched = [s \in Sources |-> None] /\ all = {}

-----------------------------------------------------------------------------
(***************************************************************************)
(* run_build, up to the build: one after the other, in one thread.         *)
(***************************************************************************)
Go(from, to) == pc = from /\ pc' = to

IsOn(c, s) == c[s] \in Labels

\* Mutation: the temporary directory of the last run is taken again.
StartInSameDir ==
    /\ Go("idle", "copy")
    /\ runs < MaxRuns /\ runs' = runs + 1
    /\ conf' = options
    /\ all' = {}
    /\ UNCHANGED <<work_dir, operator, upstream, image, dir, todo, attempt,
                   fetched, parent>>

\* common_config.parse, and mkdtemp without --work-dir
StartRun ==
    /\ Go("idle", "copy")
    /\ runs < MaxRuns /\ runs' = runs + 1
    /\ conf' = options
    /\ dir' = IF work_dir THEN dir ELSE Fresh
    /\ all' = {}
    /\ UNCHANGED <<work_dir, operator, upstream, image, todo, attempt,
                   fetched, parent>>

\* copytree(..., dirs_exist_ok=True) writes over what is there and removes
\* nothing.
SetupWorkingDir ==
    /\ Go("copy", "render")
    /\ dir' = [dir EXCEPT !.template = IF template = None THEN @ ELSE template]
    /\ UNCHANGED <<work_dir, operator, upstream, image, conf, todo, attempt,
                   runs, fetched, all, parent>>

\* find_dockerfiles and create_dockerfiles: an image is a Dockerfile.j2.
CreateDockerfile ==
    /\ pc = "render"
    /\ IF dir.template = None
       THEN pc' = "cleanup" /\ UNCHANGED dir
       ELSE pc' = "patch" /\ dir' = [dir EXCEPT !.dockerfile = dir.template]
    /\ UNCHANGED <<work_dir, operator, upstream, image, conf, todo, attempt,
                   runs, fetched, all, parent>>

CreatePatchFiles ==
    /\ Go("patch", "ready")
    /\ dir' = [dir EXCEPT !.series = IF patches = NoSeries THEN @ ELSE patches]
    /\ UNCHANGED <<work_dir, operator, upstream, image, conf, todo, attempt,
                   runs, fetched, all, parent>>

\* --template-only removes an image that is not matched; --list-images and
\* the like leave the directory, the temporary one too.
StopEarly ==
    /\ Go("ready", "idle")
    /\ dir' \in {dir, Fresh}
    /\ UNCHANGED <<work_dir, operator, upstream, image, conf, todo, attempt,
                   runs, fetched, all, parent>>

-----------------------------------------------------------------------------
(***************************************************************************)
(* The build task.  Every attempt starts with the source of the image; the *)
(* files of the attempt before are still there.                            *)
(***************************************************************************)
BeginAttempt(n) ==
    /\ pc' = "main"
    /\ attempt' = n
    /\ todo' = {p \in Plugins : conf[p] # "absent"}
    /\ fetched' = [s \in Sources |-> None]

StartBuild ==
    /\ pc = "ready"
    /\ BeginAttempt(0)
    /\ UNCHANGED <<work_dir, operator, upstream, image, dir, conf, runs, all,
                   parent>>

\* Mutation: one attempt too many.
AttemptFailsLate ==
    IF attempt <= Retries
    THEN BeginAttempt(attempt + 1)
    ELSE pc' = "cleanup" /\ UNCHANGED <<todo, attempt, fetched>>

\* What a failing attempt leaves on the disk is left.
AttemptFails ==
    IF attempt < Retries
    THEN BeginAttempt(attempt + 1)
    ELSE pc' = "cleanup" /\ UNCHANGED <<todo, attempt, fetched>>

\* The task has come to source s: that of the image, then the plugins.
IsTurn(s) == (s = Main /\ pc = "main") \/ (pc = "plugins" /\ s \in todo)

Fetching(s) == IsTurn(s) /\ IsOn(conf, s)

NextSource(s) ==
    /\ pc' = "plugins"
    /\ todo' = todo \ {s}

\* process_source of a source that is not configured, or not enabled
SkipSource(s) ==
    /\ IsTurn(s) /\ ~IsOn(conf, s)
    /\ NextSource(s)
    /\ UNCHANGED <<work_dir, operator, upstream, image, dir, conf, attempt,
                   runs, fetched, all, parent>>

Fetch(s) ==
    LET tree == <<conf[s], upstream>> IN
    /\ Fetching(s)
    /\ NextSource(s)
    /\ dir' = [dir EXCEPT !.archive[s] = tree]
    /\ fetched' = [fetched EXCEPT ![s] = tree]
    /\ all' = all \cup {<<s, tree>>}
    /\ UNCHANGED <<work_dir, operator, upstream, image, conf, attempt, runs,
                   parent>>

\* Mutation: the error is not looked at, the next source is fetched.
FetchFailIgnored(s) ==
    /\ Fetching(s)
    /\ NextSource(s)
    /\ UNCHANGED <<work_dir, operator, upstream, image, dir, conf, attempt,
                   runs, fetched, all, parent>>

\* A download that times out, is refused or has the wrong checksum, and a
\* clone that fails, have not touched the archive of an earlier attempt.
FetchFail(s) ==
    /\ Fetching(s)
    /\ AttemptFails
    /\ UNCHANGED <<work_dir, operator, upstream, image, dir, conf, runs, all,
                   parent>>

SourcesDone ==
    /\ Go("plugins", "extract")
    /\ todo = {}
    /\ UNCHANGED <<work_dir, operator, upstream, image, dir, conf, todo,
                   attempt, runs, fetched, all, parent>>

\* the list "archives": of what is enabled
Archives == {<<p, dir.archive[p]>> : p \in {q \in Plugins : IsOn(conf, q)}}

\* extractall adds to what is in plugins/.
Extract ==
    /\ Go("extract", "pack")
    /\ dir' = [dir EXCEPT !.plugins = @ \cup Archives]
    /\ UNCHANGED <<work_dir, operator, upstream, image, conf, todo, attempt,
                   runs, fetched, all, parent>>

\* No tar file, unsafe names in it, or a directory that cannot be made.
ArchivingError ==
    /\ pc = "extract"
    /\ AttemptFails
    /\ UNCHANGED <<work_dir, operator, upstream, image, dir, conf, runs, all,
                   parent>>

Pack ==
    /\ Go("pack", "engine")
    /\ dir' = [dir EXCEPT !.packed = dir.plugins]
    /\ UNCHANGED <<work_dir, operator, upstream, image, conf, todo, attempt,
                   runs, fetched, all, parent>>

\* The engine gets the directory; the Dockerfile runs kolla_patch.
EngineBuild ==
    /\ Go("engine", "cleanup")
    /\ ~PatchFails(parent, dir.series, Good)
    /\ image' = KollaPatch(parent, dir.series, Good)
    /\ UNCHANGED <<work_dir, operator, upstream, dir, conf, todo, attempt,
                   runs, fetched, all, parent>>

EngineFail ==
    /\ pc = "engine"
    /\ AttemptFails
    /\ UNCHANGED <<work_dir, operator, upstream, image, dir, conf, runs, all,
                   parent>>

Cleanup ==
    /\ Go("cleanup", "idle")
    /\ dir' = IF work_dir THEN dir ELSE Fresh
    /\ UNCHANGED <<work_dir, operator, upstream, image, conf, todo, attempt,
                   runs, fetched, all, parent>>

-----------------------------------------------------------------------------
\* Killed: the file under way may be torn, the extraction half done.
TornDirs ==
    {dir}
    \cup (IF pc = "render" THEN {[dir EXCEPT !.dockerfile = Torn]} ELSE {})
    \cup (IF pc = "patch" /\ patches # NoSeries
          THEN {[dir EXCEPT !.series = s] : s \in Beginnings(patches)} ELSE {})
    \cup {[dir EXCEPT !.archive[s] = Torn] :
             s \in {x \in Sources : Fetching(x)}}
    \cup (IF pc = "extract"
          THEN {[dir EXCEPT !.plugins = @ \cup A] : A \in SUBSET Archives}
          ELSE {})
    \cup (IF pc = "pack" THEN {[dir EXCEPT !.packed = Torn]} ELSE {})

Kill ==
    /\ pc # "idle" /\ pc' = "idle"
    /\ dir' \in TornDirs
    /\ UNCHANGED <<work_dir, operator, upstream, image, conf, todo, attempt,
                   runs, fetched, all, parent>>

OperatorEdits ==
    /\ pc = "idle" /\ runs < MaxRuns
    /\ \/ /\ template' \in (Templates \cup {None}) \ {template}
          /\ UNCHANGED <<options, patches>>
       \/ /\ options' \in [Sources -> Settings] \ {options}
          /\ UNCHANGED <<template, patches>>
       \/ /\ patches' \in (SeriesChoices \cup {NoSeries}) \ {patches}
          /\ UNCHANGED <<template, options>>
    /\ UNCHANGED <<work_dir, upstream, image, dir, pc, conf, todo, attempt,
                   runs, fetched, all, parent>>

UpstreamMoves ==
    /\ upstream < MaxVersion /\ upstream' = upstream + 1
    /\ UNCHANGED <<work_dir, operator, image, dir, pc, conf, todo, attempt,
                   runs, fetched, all, parent>>

Next ==
    \/ StartRun \/ SetupWorkingDir \/ CreateDockerfile \/ CreatePatchFiles
    \/ StopEarly \/ StartBuild
    \/ \E s \in Sources : SkipSource(s) \/ Fetch(s) \/ FetchFail(s)
    \/ SourcesDone \/ Extract \/ ArchivingError \/ Pack
    \/ EngineBuild \/ EngineFail \/ Cleanup
    \/ Kill \/ OperatorEdits \/ UpstreamMoves

Spec == Init /\ [][Next]_vars

-----------------------------------------------------------------------------
(***************************************************************************)
(* Properties.                                                             *)
(***************************************************************************)

(***************************************************************************)
(* What the engine gets covers what is asked for now, whatever earlier     *)
(* attempts and runs, failed and killed ones included, left behind: the    *)
(* present template and patches, and for every enabled source the very     *)
(* tree that was fetched in this attempt.                                  *)
(***************************************************************************)
ContextIsCurrent ==
    pc = "engine" =>
        /\ dir.dockerfile = dir.template
        /\ template # None => dir.dockerfile = template
        /\ patches # NoSeries => dir.series = patches
        /\ IsOn(conf, Main) => /\ fetched[Main] # None
                               /\ dir.archive[Main] = fetched[Main]
        /\ \A p \in Plugins : IsOn(conf, p) =>
              /\ fetched[p] # None
              /\ <<p, fetched[p]>> \in dir.packed

(***************************************************************************)
(* And without --work-dir nothing else: no source, plugin or patch that    *)
(* this run did not configure and fetch, and in the first attempt nothing  *)
(* but the trees of this attempt.  (In a retry plugins/ still has what the *)
(* attempt before extracted; with --work-dir it has that of every run.)    *)
(***************************************************************************)
NothingForeign ==
    pc = "engine" /\ ~work_dir =>
        /\ template # None
        /\ dir.series = patches
        /\ ~IsOn(conf, Main) => dir.archive[Main] = None
        /\ \A e \in dir.packed : IsOn(conf, e[1]) /\ e \in all
        /\ attempt = 0 =>
              \A e \in dir.packed : e[2] = fetched[e[1]]

(***************************************************************************)
(* An image that was built has the patches of its series: each applied     *)
(* once, after those of its parent and in the order of the series.         *)
(***************************************************************************)
ImageIsPatched ==
    [][EngineBuild => SeriesApplied(parent, dir.series, image')]_vars
=============================================================================
