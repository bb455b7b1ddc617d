------------------------------ MODULE NextjsBuild ------------------------------
(***************************************************************************)
(* What a synth makes of an app's directory: NextjsBuild's constructor     *)
(* (src/nextjs-build/nextjs-build.ts), around the `next build` it runs and *)
(* the adapter in that (src/adapter/adapter.mts). Synths follow each other *)
(* in one directory, may fail or be killed anywhere, and may skip the      *)
(* build, so that each finds what others left. The downloads of sharp's    *)
(* binaries are shared with synths of other apps, which run at any time.   *)
(***************************************************************************)
EXTENDS Integers, Sequences, FiniteSets

CONSTANTS
    FirstAsked, \* the props of the first synth
    Natives,    \* by other packages `next build` traces: the platforms of their binaries
    MaxSynths   \* bound: how many synths there are

VARIABLES
    props,      \* of the synth that runs, or ran last
    step,
    todo,       \* the chunks to patch, or the roots to stage
    root,       \* the one of them that is being staged
    builds,     \* how many builds there were, and synths
    synths,
    manifest,   \* in .next: what the adapter wrote
    cache,      \* the build whose init cache there is
    chunks,     \* by client entrypoint: the build, and the patches ahead of it
    roots,      \* by function group
    downloads,  \* in the shared directory: the packages a synth finds there
    fetches,    \* those another app's synth is downloading
    warned      \* by root: the packages this synth warned about

disk == <<manifest, cache, chunks, roots>>
shared == <<downloads, fetches>>
synthVars == <<props, step, todo, root, builds, synths, disk, shared, warned>>

Platforms == {"linux", "linuxmusl", "darwin"} \X {"x64", "arm64"}
Machine == <<"darwin", "arm64">>
ChunkNames == {"main-app", "turbopack-worker"}
RootGroups == {"default", "g"}

\* `reaches`: the build command runs `next build`; `adapter`: the version of the
\* cdk-nextjs it finds, this one's being 1; `patch`: this one's patch-fetch.js.
Props == [type : {"GLOBAL_CONTAINERS", "GLOBAL_FUNCTIONS", "REGIONAL_CONTAINERS", "REGIONAL_FUNCTIONS"},
          architecture : {"x64", "arm64"}, split : BOOLEAN, skipBuild : BOOLEAN, reaches : BOOLEAN,
          adapter : {1, 2}, patch : {"p", "q"}]
ASSUME SynthAssumption ==
    /\ FirstAsked \subseteq Props
    /\ Natives \in [DOMAIN Natives -> (SUBSET Platforms) \ {{}}]
    /\ DOMAIN Natives \cap {"libvips", "sharp"} = {}
IsFunctions == props.type \in {"GLOBAL_FUNCTIONS", "REGIONAL_FUNCTIONS"}
PublicOnDisk == props.type = "REGIONAL_CONTAINERS"
Target == <<IF IsFunctions THEN "linux" ELSE "linuxmusl", props.architecture>>
\* By a binary's header, which musl's have of glibc's.
HeaderOf(platform) == IF platform[1] = "linuxmusl" THEN <<"linux", platform[2]>> ELSE platform

\* sharp's binaries are two packages. Only the default root has the image optimizer,
\* which brings sharp.
Sharps == {"libvips", "sharp"}
HasSharp(group) == group = "default"
Binary(name, platform, whole) == [name |-> name, platform |-> platform, whole |-> whole]

NotBuilt == 0
NoRoot == [build |-> NotBuilt, shell |-> "none", manifest |-> NotBuilt, public |-> FALSE, sharp |-> {}]
NoManifest == [build |-> NotBuilt, version |-> 1, split |-> FALSE]
NoChunk == [build |-> NotBuilt, patches |-> <<>>]
Staged(split) == IF split THEN RootGroups ELSE {"default"}

SynthInit ==
    /\ props \in FirstAsked /\ step = "failed" /\ todo = {} /\ root = "default"
    /\ builds = 0 /\ synths = 0
    /\ manifest = NoManifest /\ cache = NotBuilt
    /\ chunks = [c \in ChunkNames |-> NoChunk] /\ roots = [g \in RootGroups |-> NoRoot]
    /\ downloads = {} /\ fetches = {}
    /\ warned = [g \in RootGroups |-> {}]

Idle == step \in {"done", "failed"}
Throw == step' = "failed"

-----------------------------------------------------------------------------
(* The build. *)

\* Bound: a synth differs in one prop from the one before, and in whether it builds.
NextAsked == {p \in Props : Cardinality({f \in DOMAIN p \ {"skipBuild"} : p[f] # props[f]}) <= 1}

\* The constructor, up to the end of rmSync(initCacheDir).
Synth ==
    /\ Idle /\ synths < MaxSynths
    /\ synths' = synths + 1
    /\ props' \in IF synths = 0 THEN {props} ELSE NextAsked
    /\ step' = IF props'.skipBuild THEN "built" ELSE "build"
    /\ cache' = IF props'.skipBuild THEN cache ELSE NotBuilt
    /\ warned' = [g \in RootGroups |-> {}]
    /\ UNCHANGED <<todo, root, builds, manifest, chunks, roots, shared>>

\* `next build` empties .next and emits the chunks.
Compile ==
    /\ step = "build" /\ props.reaches
    /\ builds' = builds + 1
    /\ manifest' = NoManifest /\ cache' = NotBuilt
    /\ roots' = [g \in RootGroups |-> NoRoot]
    /\ chunks' = [c \in ChunkNames |-> [build |-> builds', patches |-> <<>>]]
    /\ step' = "compiled"
    /\ UNCHANGED <<props, todo, root, synths, shared, warned>>
\* A command that does not, such as one whose result is cached.
Unbuilt ==
    /\ step = "build" /\ ~props.reaches
    /\ step' = "built"
    /\ UNCHANGED <<props, todo, root, builds, synths, disk, shared, warned>>

\* writeBuildOutputs: the roots, which hold what this machine runs.
StageRoots ==
    /\ step = "compiled"
    /\ roots' = [g \in RootGroups |->
          IF g \notin Staged(props.split) THEN NoRoot
          ELSE [NoRoot EXCEPT !.build = builds,
                              !.sharp = IF HasSharp(g) THEN {Binary(s, Machine, TRUE) : s \in Sharps} ELSE {}]]
    /\ step' = "staged"
    /\ UNCHANGED <<props, todo, root, builds, synths, manifest, cache, chunks, shared, warned>>
\* And then the manifest.
WriteManifest ==
    /\ step = "staged"
    /\ manifest' = [build |-> builds, version |-> props.adapter, split |-> props.split]
    /\ step' = "written"
    /\ UNCHANGED <<props, todo, root, builds, synths, cache, chunks, roots, shared, warned>>
WriteInitCache ==
    /\ step = "written"
    /\ cache' = builds
    /\ step' = "built"
    /\ UNCHANGED <<props, todo, root, builds, synths, manifest, chunks, roots, shared, warned>>

-----------------------------------------------------------------------------
(* The patch. *)

ReadAdapterManifest ==
    /\ step = "built"
    /\ IF manifest.build = NotBuilt \/ manifest.version # 1 THEN Throw /\ UNCHANGED todo
       ELSE /\ step' = "patch"
            /\ todo' = IF props.type = "GLOBAL_FUNCTIONS" THEN ChunkNames ELSE {}
    /\ UNCHANGED <<props, root, builds, synths, disk, shared, warned>>

\* Mutant: whatever is there is taken for the chunk.
PatchedAgain(chunk) ==
    IF chunk.patches # <<>> /\ chunk.patches[1] = props.patch THEN chunk
    ELSE [chunk EXCEPT !.patches = <<props.patch>> \o @]
\* patchClientChunk, which leaves its own patch and replaces another.
PatchClientChunk(chunk) == [chunk EXCEPT !.patches = <<props.patch>>]
PatchChunk(c) ==
    /\ step = "patch" /\ c \in todo
    /\ chunks' = [chunks EXCEPT ![c] = PatchClientChunk(@)]
    /\ todo' = todo \ {c}
    /\ UNCHANGED <<props, step, root, builds, synths, manifest, cache, roots, shared, warned>>

-----------------------------------------------------------------------------
(* The roots, the default one first. *)

ResolveDeploymentRoots ==
    /\ step = "patch" /\ todo = {}
    /\ IF props.split # manifest.split \/ \E g \in Staged(manifest.split) : roots[g] = NoRoot
       THEN Throw /\ UNCHANGED <<todo, root>>
       ELSE step' = "stage" /\ todo' = Staged(manifest.split) \ {"default"} /\ root' = "default"
    /\ UNCHANGED <<props, builds, synths, disk, shared, warned>>

\* Mutant: what an earlier synth copied there stays.
ClearedNothing(r) == r
\* rmSync(runtimeDir)
Cleared(r) == [r EXCEPT !.shell = "none", !.manifest = NotBuilt, !.public = FALSE]
ClearRuntime ==
    /\ step = "stage"
    /\ roots' = [roots EXCEPT ![root] = Cleared(@)]
    /\ step' = "cleared"
    /\ UNCHANGED <<props, todo, root, builds, synths, manifest, cache, chunks, shared, warned>>
\* The rest of stageRuntime. An earlier shell has another name.
Shell == IF IsFunctions THEN "lambda" ELSE "server"
Copied(r) == [r EXCEPT !.shell = IF @ \in {"none", Shell} THEN Shell ELSE "both",
                       !.manifest = manifest.build, !.public = @ \/ ~PublicOnDisk]
StageRuntime ==
    /\ step = "cleared"
    /\ roots' = [roots EXCEPT ![root] = Copied(@)]
    /\ step' = "sharp"
    /\ UNCHANGED <<props, todo, root, builds, synths, manifest, cache, chunks, shared, warned>>

\* Mutant: the target's are left, to be overwritten.
KeepTargets(sharp) == {b \in sharp : b.platform = Target}
\* removeExistingSharpBinaries: of the target too, which an earlier synth may have
\* left half extracted.
KeepSharp(sharp) == {}
RemoveExistingSharpBinaries ==
    /\ step = "sharp"
    /\ roots' = [roots EXCEPT ![root].sharp = KeepSharp(@)]
    /\ step' = IF HasSharp(root) THEN "install" ELSE "warn"
    /\ UNCHANGED <<props, todo, root, builds, synths, manifest, cache, chunks, shared, warned>>

\* The target's packages are installed one after the other.
InPlace == {b.name : b \in roots[root].sharp}
Wanted == Binary(IF "libvips" \in InPlace THEN "sharp" ELSE "libvips", Target, TRUE)
PartOf(binary) == [binary EXCEPT !.whole = FALSE]
\* isCachedFileValid: a file that is not empty.
Valid(binary) == binary \in downloads \/ PartOf(binary) \in downloads

\* Mutant: to the name others look for.
DownloadsInPlace(binary) == downloads \cup {PartOf(binary)}
\* curl, to a name of its own.
Downloads(binary) == downloads
\* renameSync
Renamed(binary) == (downloads \ {PartOf(binary)}) \cup {binary}

Fetch ==
    /\ step = "install" /\ InPlace # Sharps /\ ~Valid(Wanted)
    /\ downloads' = Downloads(Wanted)
    /\ step' = "fetch"
    /\ UNCHANGED <<props, todo, root, builds, synths, disk, fetches, warned>>
Fetched ==
    /\ step = "fetch"
    /\ downloads' = Renamed(Wanted)
    /\ step' = "install"
    /\ UNCHANGED <<props, todo, root, builds, synths, disk, fetches, warned>>
\* tar: a process killed in it leaves a part of the package.
Extract ==
    /\ step = "install" /\ InPlace # Sharps /\ Valid(Wanted)
    /\ \E whole \in {FALSE, (Wanted \in downloads)} :
          /\ roots' = [roots EXCEPT ![root].sharp = @ \cup {[Wanted EXCEPT !.whole = whole]}]
          /\ IF whole = (Wanted \in downloads) THEN UNCHANGED step ELSE Throw
    /\ UNCHANGED <<props, todo, root, builds, synths, manifest, cache, chunks, shared, warned>>
InstallSharpPackages ==
    /\ step = "install" /\ InPlace = Sharps
    /\ step' = "warn"
    /\ UNCHANGED <<props, todo, root, builds, synths, disk, shared, warned>>

\* Another app's synth downloads, which this one may find first, or last.
OtherFetch ==
    /\ fetches = {} /\ step \in {"sharp", "install", "fetch"}
    /\ \E name \in Sharps :
          LET binary == Binary(name, Target, TRUE)
          IN  ~Valid(binary) /\ downloads' = Downloads(binary) /\ fetches' = {binary}
    /\ UNCHANGED <<props, step, todo, root, builds, synths, disk, warned>>
OtherFetched ==
    /\ \E binary \in fetches : downloads' = Renamed(binary)
    /\ fetches' = {}
    /\ UNCHANGED <<props, step, todo, root, builds, synths, disk, warned>>

\* findForeignNativePackages, by header: of no platform but others.
PlatformsOf(package) ==
    IF package \in Sharps THEN {HeaderOf(b.platform) : b \in {x \in roots[root].sharp : x.name = package}}
    ELSE {HeaderOf(platform) : platform \in Natives[package]}
FindForeignNativePackages ==
    {package \in DOMAIN Natives \cup Sharps :
        PlatformsOf(package) # {} /\ <<"linux", props.architecture>> \notin PlatformsOf(package)}
WarnOnForeignNativeBinaries ==
    /\ step = "warn"
    /\ warned' = [warned EXCEPT ![root] = FindForeignNativePackages]
    /\ step' = "size"
    /\ UNCHANGED <<props, todo, root, builds, synths, disk, shared>>

\* assertUnderLambdaLimit, of a root of any size, then the next root.
NextRoot ==
    /\ step = "size"
    /\ \/ IsFunctions /\ Throw /\ UNCHANGED <<todo, root>>
       \/ todo = {} /\ step' = "done" /\ UNCHANGED <<todo, root>>
       \/ \E g \in todo : step' = "stage" /\ root' = g /\ todo' = todo \ {g}
    /\ UNCHANGED <<props, builds, synths, disk, shared, warned>>

\* The build or a download fails, or the process is killed.
FailSynth ==
    /\ ~Idle /\ Throw
    /\ UNCHANGED <<props, todo, root, builds, synths, disk, shared, warned>>

SynthNext ==
    \/ Synth \/ Compile \/ Unbuilt \/ StageRoots \/ WriteManifest \/ WriteInitCache
    \/ ReadAdapterManifest \/ \E c \in ChunkNames : PatchChunk(c)
    \/ ResolveDeploymentRoots \/ ClearRuntime \/ StageRuntime \/ RemoveExistingSharpBinaries
    \/ Fetch \/ Fetched \/ Extract \/ InstallSharpPackages \/ OtherFetch \/ OtherFetched
    \/ WarnOnForeignNativeBinaries \/ NextRoot \/ FailSynth

SynthSpec == SynthInit /\ [][SynthNext]_synthVars

-----------------------------------------------------------------------------
(* Properties. *)

\* Whatever earlier synths left and wherever they ended, one that ends well leaves a
\* directory of one build, of what was asked for: every root with its entry point, that
\* build's manifest and whole binaries of the platform it runs on alone; what the client
\* loads patched once where its requests are signed; no other build's init cache; and
\* whoever has no binary with its header named (NextjsBuild).
DoneIsAsAsked ==
    step = "done" =>
    /\ manifest.split = props.split /\ cache \in {NotBuilt, manifest.build}
    /\ \A g \in Staged(props.split) :
          /\ roots[g].build = manifest.build /\ roots[g].manifest = manifest.build
          /\ roots[g].shell = Shell
          /\ roots[g].public = ~PublicOnDisk
          /\ roots[g].sharp = IF HasSharp(g) THEN {Binary(s, Target, TRUE) : s \in Sharps} ELSE {}
          /\ warned[g] = {p \in DOMAIN Natives : HeaderOf(Target) \notin {HeaderOf(b) : b \in Natives[p]}}
    /\ \A c \in ChunkNames :
          /\ chunks[c].build = manifest.build
          /\ props.type = "GLOBAL_FUNCTIONS" => chunks[c].patches = <<props.patch>>
================================================================================
