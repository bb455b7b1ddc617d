------------------------------- MODULE PostDeploy -------------------------------
(***************************************************************************)
(* Deployments of one app's stack, one after the other: the uploads, the   *)
(* compute, and the custom resource that runs when both kinds of upload    *)
(* are done (src/lambdas/post-deploy): it invalidates CloudFront and       *)
(* prunes what earlier builds left in the cache bucket, in the             *)
(* revalidation table and among the static assets, all at once.            *)
(*                                                                         *)
(* Old instances serve, and write, until they are gone. A rejection of one *)
(* of the four answers FAILED at once while the others are still running:  *)
(* they freeze with the Lambda, and go on if it is invoked again.          *)
(***************************************************************************)
EXTENDS Integers, FiniteSets, Sequences, SequencesExt, Functions

CONSTANTS
    Builds,
    NoBuild,
    First,          \* the build deployed at the start
    AssetsOf,       \* build -> the keys it uploads, each a sequence of segments
    Others,         \* keys other stacks wrote in the shared bucket
    Prefix,         \* this app's key prefix, a sequence of segments
    Stacks,         \* which parts the stack may have, of SUBSET Parts
    MaxDeployments, \* bound: the deployments of a behaviour
    MaxRetries      \* bound: the invocations Lambda makes again after a timeout

\* What the post-deploy works on; and whether the distribution's origin is the functions,
\* which the distribution then depends on, not a service behind a load balancer.
Kinds == {"cdn", "cache", "table", "assets"}
Parts == Kinds \cup {"functions"}
\* A build's items: a marker or mapping row is in partition `build`, a log row in
\* `build#log`. Its cache objects: those uploaded, and those written at run time.
Partitions == {"rows", "log"}
Objects == {"seed", "entry"}

ASSUME PruningAssumption ==
    /\ Stacks \subseteq SUBSET Parts
    /\ First \in Builds /\ {NoBuild, "another stack"} \cap Builds = {}
    /\ AssetsOf \in [Builds -> SUBSET UNION Range(AssetsOf)]
    /\ Others \cap UNION Range(AssetsOf) = {}
    /\ (UNION Range(AssetsOf)) \cap (Builds \X Partitions) = {}

VARIABLES
    parts,    \* the stack's parts, chosen once
    current,  \* the build the stack is at
    target,   \* the one a deployment moves it to
    phase,    \* of the deployment
    deployed, \* how many were begun
    retried,  \* how many times the post-deploy event was retried
    serving,  \* the builds that have instances; `routed` has the requests
    routed,
    rows,     \* by build: the partitions that hold items
    meta,     \* the build id in METADATA/CURRENT_BUILD
    cached,   \* by build: its objects; those of NoBuild are in no prefix
    assets,   \* key -> the build id in its metadata, and whether msTtl has passed
    edge,     \* the builds whose responses CloudFront holds
    tasks,    \* the prunings of the invocation under way
    left,     \* those of invocations that ended without them
    lost,     \* history: partitions nobody will prune, and
    stray,    \*          objects the last pruning of the bucket leaves, for a
              \*          reason named where they are added
    noted,    \* history: what instances of the current build and of the target
              \* wrote in the table
    tainted,  \* history: what was deleted, and not written since, by tasks left
              \* behind, or for a target the stack was not at yet
    abandoned \* history: targets given up before their post-deploy, since
              \* CloudFront was invalidated

stack    == <<parts, current, target, phase, deployed, retried>>
compute  == <<serving, routed>>
history  == <<lost, stray, noted, tainted, abandoned>>
stores   == <<rows, meta, cached, assets, edge>>
pruningVars     == <<stack, compute, stores, tasks, left, history>>

\* stuck: the rollback failed. CloudFormation rolls back what it has updated: where
\* the post-deploy is not among it, the uploads alone ("reverting") or not even they.
DeploymentPhases == {"idle", "uploading", "ready", "pruning", "pruned", "stuck", "reverting", "reverted"}
AssetKeys == (UNION Range(AssetsOf)) \cup Others

\* A key under this app's `_next/`.
IsOurs(key) == IsPrefix(Prefix \o <<"_next">>, key)

PruningTypeOK ==
    /\ parts \in Stacks /\ phase \in DeploymentPhases
    /\ {current, target} \subseteq Builds /\ meta \in Builds \cup {NoBuild}
    /\ serving \subseteq Builds /\ routed \in serving
    /\ rows \in [Builds -> SUBSET Partitions]
    /\ cached \in [Builds \cup {NoBuild} -> SUBSET Objects]
    /\ DOMAIN assets \subseteq AssetKeys
    /\ \A key \in DOMAIN assets :
          assets[key] \in [build : Builds \cup {NoBuild, "another stack"}, old : BOOLEAN]
    /\ edge \subseteq Builds
    /\ \A t \in tasks : t.cur = target
    /\ lost \subseteq Builds \X Partitions /\ stray \subseteq (Builds \cup {NoBuild}) \X Objects
    /\ noted \subseteq Builds \X Partitions /\ abandoned \subseteq Builds

PruningInit ==
    /\ parts \in Stacks
    /\ current = First /\ target = First /\ phase = "idle" /\ deployed = 0 /\ retried = 0
    /\ serving = {First} /\ routed = First
    /\ rows = [b \in Builds |-> {}] /\ meta = First
    /\ cached = [b \in Builds \cup {NoBuild} |->
                    IF b = First THEN {"seed"} ELSE IF b = NoBuild THEN {"entry"} ELSE {}]
    /\ assets = [key \in AssetsOf[First] \cup Others |->
                    IF key \in AssetsOf[First] THEN [build |-> First, old |-> FALSE]
                    ELSE [build |-> IF IsOurs(key) THEN NoBuild ELSE "another stack",
                          old |-> TRUE]]
    /\ edge = {} /\ tasks = {} /\ left = {}
    /\ lost = {} /\ stray = {} /\ noted = {} /\ tainted = {} /\ abandoned = {}
-----------------------------------------------------------------------------
(* What the instances do meanwhile. *)

\* The metadata names b, or the deployment under way is going to put it there.
IsRecorded(b) ==
    \/ b = meta
    \/ b = target /\ (phase \in {"uploading", "ready", "stuck"} \/ \E t \in tasks : t.kind = "table")

\* A task that has read past partition p of build b, or past b altogether.
PastIt(t, b, p) ==
    /\ t.kind = "table" /\ t.cur # b
    /\ \/ t.prev = b /\ p \in t.asked
       \/ t.at = "record" /\ t.prev = NoBuild

WriteRow(b, p) ==
    /\ b \in serving /\ "table" \in parts
    /\ rows' = [rows EXCEPT ![b] = @ \cup {p}]
    /\ noted' = IF b \in {current, target} THEN noted \cup {<<b, p>>} ELSE noted
    /\ tainted' = tainted \ {<<b, p>>}
    /\ lost' = IF ~IsRecorded(b) \/ \E t \in tasks \cup left : PastIt(t, b, p)
               THEN lost \cup {<<b, p>>} ELSE lost
    /\ UNCHANGED <<stack, compute, meta, cached, assets, edge, tasks, left, stray, abandoned>>

\* A late one is an old build's, after its prefix was listed.
Store(b) ==
    /\ b \in serving /\ "cache" \in parts
    /\ cached' = [cached EXCEPT ![b] = @ \cup {"entry"}]
    /\ stray' = IF b # target THEN stray \cup {<<b, "entry">>} ELSE stray
    /\ UNCHANGED <<stack, compute, rows, meta, assets, edge, tasks, left, lost, noted, tainted,
                   abandoned>>

\* The keys of the bucket that are the same from build to build, and who wrote them
\* last. A public file that a later build does not have stays, and is not looked at.
KeptKeys == {key \in DOMAIN assets : "_next" \notin Range(key) /\ \A b \in Builds : key \in AssetsOf[b]}
PublicFiles == IF "assets" \in parts THEN {assets[key].build : key \in KeptKeys} ELSE {}

\* An answer of the functions, or a file of the bucket.
CacheAtEdge ==
    /\ "cdn" \in parts
    /\ \E b \in {routed} \cup PublicFiles : edge' = edge \cup {b}
    /\ UNCHANGED <<stack, compute, rows, meta, cached, assets, tasks, left, history>>

InstancesEnd(b) ==
    /\ b \in serving \ {routed}
    /\ serving' = serving \ {b}
    /\ UNCHANGED <<stack, routed, stores, tasks, left, history>>

\* Longer than msTtl, between two deployments.
MonthPasses ==
    /\ phase = "idle" /\ "assets" \in parts /\ serving = {current}
    /\ assets' = [key \in DOMAIN assets |-> [assets[key] EXCEPT !.old = TRUE]]
    /\ UNCHANGED <<stack, compute, rows, meta, cached, edge, tasks, left, history>>
-----------------------------------------------------------------------------
(* The deployment. *)

NotesOf(b) == noted \cap ({b} \X Partitions)

Begin(b, at) ==
    /\ target' = b /\ phase' = at /\ retried' = 0 /\ noted' = NotesOf(current)
    /\ UNCHANGED <<parts, current, compute, stores, stray, tainted>>

Deploy(b) ==
    /\ phase = "idle" /\ b # current /\ deployed < MaxDeployments
    /\ deployed' = deployed + 1 /\ UNCHANGED <<tasks, left, lost, abandoned>>
    /\ Begin(b, "uploading")

\* The init cache lands under the build's prefix; each static asset gets the build
\* id again, none is deleted.
UploadCache == [cached EXCEPT ![target] = @ \cup {"seed"}]
UploadAssets ==
    [key \in DOMAIN assets \cup AssetsOf[target] |->
        IF key \in AssetsOf[target] THEN [build |-> target, old |-> FALSE] ELSE assets[key]]

Upload ==
    /\ phase \in {"uploading", "reverting"}
    /\ cached' = IF "cache" \in parts THEN UploadCache ELSE cached
    /\ assets' = IF "assets" \in parts THEN UploadAssets ELSE assets
    /\ phase' = IF phase = "uploading" THEN "ready" ELSE "reverted"
    /\ tainted' = {x \in tainted : x \notin AssetsOf[target] \cup {<<target, "seed">>}}
    /\ UNCHANGED <<parts, current, target, deployed, retried, compute, rows, meta, edge, tasks, left,
                   lost, stray, noted, abandoned>>

\* The functions or the service, in no order with the uploads.
Switch ==
    /\ phase # "idle" /\ routed # target
    /\ routed' = target /\ serving' = serving \cup {target}
    /\ UNCHANGED <<stack, stores, tasks, left, history>>

Task(kind, at) == [kind |-> kind, at |-> at, cur |-> target, prev |-> NoBuild, asked |-> {},
                   found |-> {}]

FirstRequest == [table |-> "read", cdn |-> "send", cache |-> "list", assets |-> "list"]
NewTasks == {Task(kind, FirstRequest[kind]) : kind \in parts \cap Kinds}

\* The custom resource names the distribution, and depends on the uploads. Behind the
\* distribution are the functions; of a service it waits for the load balancer only.
MayInvokeBeforeSwitch == phase = "ready"
Ordered == {"cdn", "functions"} \subseteq parts
MayInvoke == phase = "ready" /\ (Ordered => routed = target)

Invoke ==
    /\ MayInvoke
    /\ phase' = "pruning" /\ tasks' = NewTasks
    /\ UNCHANGED <<parts, current, target, deployed, retried, compute, stores, left, history>>

\* Another resource fails, before the post-deploy or after it, or this one: the stack
\* goes back to the build it was at. What the new one wrote and no metadata names stays.
Unrecorded == {<<target, p>> : p \in IF meta # target THEN rows[target] ELSE {}}

RollBackBeforePruning ==
    /\ phase \in {"uploading", "ready"}
    /\ abandoned' = abandoned \cup {target}
    /\ Begin(current, IF phase = "uploading" THEN "reverted" ELSE "reverting")
RollBackPruned == phase = "pruned" /\ Begin(current, "uploading") /\ UNCHANGED abandoned

RollBack ==
    /\ target # current
    /\ RollBackBeforePruning \/ RollBackPruned
    /\ lost' = lost \cup Unrecorded
    /\ UNCHANGED <<deployed, tasks, left>>

\* Promise.all: all of them resolved.
Succeed ==
    /\ phase = "pruning" /\ tasks = {}
    /\ phase' = "pruned"
    /\ UNCHANGED <<parts, current, target, deployed, retried, compute, stores, tasks, left, history>>

Complete ==
    /\ phase \in {"pruned", "reverted"} /\ routed = target
    /\ phase' = "idle" /\ current' = target /\ noted' = NotesOf(target)
    /\ UNCHANGED <<parts, target, deployed, retried, compute, stores, tasks, left, lost, stray, tainted,
                   abandoned>>

\* The invocation's tasks when its promise is rejected.
SettleAll(t) == tasks \ {t}
Settle(t) == {}

\* One rejected. The stack rolls back; when it was rolling back already, it waits
\* for someone to continue that.
Fails(t) ==
    /\ tasks' = Settle(t)
    /\ left' = left \cup (tasks \ {t})
    /\ IF target = current
       THEN /\ phase' = "stuck"
            /\ UNCHANGED <<parts, current, target, retried, compute, stores, noted, lost, stray, tainted>>
       ELSE Begin(current, "uploading") /\ lost' = lost \cup Unrecorded
    /\ UNCHANGED <<deployed, abandoned>>

ContinueRollback ==
    /\ phase = "stuck"
    /\ UNCHANGED <<deployed, tasks, left, lost, abandoned>>
    /\ Begin(current, "uploading")

\* The Lambda's five minutes are over: everything in it is gone, and the event is
\* sent again.
TimeOut ==
    /\ phase = "pruning" /\ retried < MaxRetries
    /\ retried' = retried + 1 /\ tasks' = NewTasks /\ left' = {}
    /\ UNCHANGED <<parts, current, target, phase, deployed, compute, stores, history>>
-----------------------------------------------------------------------------
(* The four tasks. One goes on while its Lambda runs: an invocation's own, or *)
(* what an earlier one left.                                                  *)

Awake(t) == phase = "pruning" /\ t \in tasks \cup left

Leftover(t) == t \in left /\ t \notin tasks

Becomes(t, set) ==
    IF t \in tasks THEN tasks' = (tasks \ {t}) \cup set /\ UNCHANGED left
    ELSE left' = (left \ {t}) \cup set /\ UNCHANGED tasks

Taint(t, things) ==
    tainted' = IF Leftover(t) \/ target # current THEN tainted \cup things ELSE tainted

\* Only an invocation's own rejection answers; a leftover's is nobody's.
Rejects(t) ==
    /\ Awake(t)
    /\ \/ t.kind = "table" /\ t.at \in {"query", "record"}
       \/ t.kind \in {"cache", "assets"} /\ t.at = "list"
       \/ t.kind = "cdn"
    /\ IF t \in tasks THEN Fails(t)
       ELSE /\ left' = left \ {t}
            /\ UNCHANGED <<stack, compute, stores, tasks, history>>

Invalidate(t) ==
    /\ Awake(t) /\ t.kind = "cdn"
    /\ edge' = {} /\ abandoned' = {}
    /\ Becomes(t, {})
    /\ UNCHANGED <<stack, compute, rows, meta, cached, assets, lost, stray, noted, tainted>>

\* An error is taken for a table that has no metadata yet: whatever the metadata
\* names is then forgotten.
ReadMetadata(t) ==
    /\ Awake(t) /\ t.kind = "table" /\ t.at = "read"
    /\ \E prev \in {meta, NoBuild} :
          /\ Becomes(t, IF prev = t.cur THEN {}
                        ELSE {[t EXCEPT !.prev = prev, !.at = IF prev = NoBuild THEN "record" ELSE "query"]})
          /\ lost' = IF prev # meta /\ meta # t.cur THEN lost \cup ({meta} \X rows[meta]) ELSE lost
    /\ UNCHANGED <<stack, compute, stores, stray, noted, tainted, abandoned>>

QueryRowsOnly(t) ==
    /\ Awake(t) /\ t.kind = "table" /\ t.at = "query"
    /\ Becomes(t, {[t EXCEPT !.asked = {"rows"}, !.found = rows[t.prev] \cap {"rows"}, !.at = "delete"]})
    /\ UNCHANGED <<stack, compute, stores, history>>

\* Its two partitions in turn, all pages.
Query(t) ==
    /\ Awake(t) /\ t.kind = "table" /\ t.at = "query"
    /\ LET p == IF t.asked = {} THEN "rows" ELSE "log" IN
          Becomes(t, {[t EXCEPT !.asked = @ \cup {p},
                                !.found = @ \cup (rows[t.prev] \cap {p}),
                                !.at = IF p = "log" THEN "delete" ELSE "query"]})
    /\ UNCHANGED <<stack, compute, stores, history>>

\* Batches that fail, or are not processed in DELETE_ATTEMPTS, are logged.
DeleteRows(t) ==
    /\ Awake(t) /\ t.kind = "table" /\ t.at = "delete"
    /\ \E gone \in SUBSET t.found :
          /\ rows' = [rows EXCEPT ![t.prev] = @ \ gone]
          /\ lost' = lost \cup ({t.prev} \X (t.found \ gone))
          /\ Taint(t, {t.prev} \X gone)
    /\ Becomes(t, {[t EXCEPT !.at = "record"]})
    /\ UNCHANGED <<stack, compute, meta, cached, assets, edge, stray, noted, abandoned>>

\* A leftover's put makes the table forget the build that was named since.
UpdateMetadata(t) ==
    /\ Awake(t) /\ t.kind = "table" /\ t.at = "record"
    /\ meta' = t.cur
    /\ lost' = IF meta \notin {t.cur, t.prev, NoBuild} THEN lost \cup ({meta} \X rows[meta]) ELSE lost
    /\ Becomes(t, {})
    /\ UNCHANGED <<stack, compute, rows, cached, assets, edge, stray, noted, tainted, abandoned>>

\* What is left of the builds before, and not the one just replaced.
OldPrefixesBut(t) == {b \in Builds \ {t.cur, current} : cached[b] # {}}
OldPrefixes(t) == {b \in Builds \ {t.cur} : cached[b] # {}}

\* The top level, with a delimiter. What lies in no prefix goes at once.
ListCache(t) ==
    /\ Awake(t) /\ t.kind = "cache" /\ t.at = "list"
    /\ \E loose \in SUBSET cached[NoBuild] :
          /\ cached' = [cached EXCEPT ![NoBuild] = loose]
          /\ stray' = IF Leftover(t) THEN stray ELSE {NoBuild} \X loose
    /\ Becomes(t, {[t EXCEPT !.at = "delete",
                             !.found = OldPrefixes(t)]})
    /\ UNCHANGED <<stack, compute, rows, meta, assets, edge, lost, noted, tainted, abandoned>>

\* One prefix, a page of which is one request; its failure is logged.
DeletePrefix(t) ==
    /\ Awake(t) /\ t.kind = "cache" /\ t.at = "delete"
    /\ \E b \in t.found :
          /\ \E kept \in {{}, cached[b]} :
                /\ cached' = [cached EXCEPT ![b] = kept]
                /\ stray' = stray \cup ({b} \X kept)
                /\ Taint(t, {b} \X (cached[b] \ kept))
          /\ Becomes(t, {[t EXCEPT !.found = @ \ {b}]})
    /\ UNCHANGED <<stack, compute, rows, meta, assets, edge, lost, noted, abandoned>>

\* All deleted, or the rest is left for the next deployment at PRUNE_BUDGET_MS.
EndCache(t) ==
    /\ Awake(t) /\ t.kind = "cache" /\ t.at = "delete"
    /\ stray' = stray \cup UNION {{b} \X cached[b] : b \in t.found}
    /\ Becomes(t, {})
    /\ UNCHANGED <<stack, compute, stores, lost, noted, tainted, abandoned>>

\* Old objects under this app's `_next/` with another build's id. A HEAD that
\* fails keeps its object.
PrunableUnderPrefix(key, build) ==
    IsPrefix(Prefix, key) /\ assets[key].old /\ assets[key].build \notin {NoBuild, build}
Prunable(key, build) == IsOurs(key) /\ assets[key].old /\ assets[key].build \notin {NoBuild, build}

ListAssets(t) ==
    /\ Awake(t) /\ t.kind = "assets" /\ t.at = "list"
    /\ \E checked \in SUBSET {key \in DOMAIN assets : Prunable(key, t.cur)} :
          Becomes(t, {[t EXCEPT !.at = "delete", !.found = checked]})
    /\ UNCHANGED <<stack, compute, stores, history>>

DeleteAssets(t) ==
    /\ Awake(t) /\ t.kind = "assets" /\ t.at = "delete"
    /\ \E gone \in SUBSET t.found :
          /\ assets' = [key \in DOMAIN assets \ gone |-> assets[key]]
          /\ Taint(t, gone)
    /\ Becomes(t, {})
    /\ UNCHANGED <<stack, compute, rows, meta, cached, edge, lost, stray, noted, abandoned>>

TaskStep(t) ==
    \/ Rejects(t) \/ Invalidate(t)
    \/ ReadMetadata(t) \/ Query(t) \/ DeleteRows(t) \/ UpdateMetadata(t)
    \/ ListCache(t) \/ DeletePrefix(t) \/ EndCache(t)
    \/ ListAssets(t) \/ DeleteAssets(t)

PruningNext ==
    \/ \E b \in Builds : Store(b) \/ InstancesEnd(b) \/ Deploy(b) \/ \E p \in Partitions : WriteRow(b, p)
    \/ CacheAtEdge \/ MonthPasses
    \/ Upload \/ Switch \/ Invoke \/ RollBack \/ ContinueRollback \/ Succeed \/ Complete \/ TimeOut
    \/ \E t \in tasks \cup left : TaskStep(t)

PruningSpec == PruningInit /\ [][PruningNext]_pruningVars
-----------------------------------------------------------------------------
(* Properties. *)

\* Whatever the deployments that failed or were rolled back did meanwhile, the
\* build the stack ends at has what it uploaded and what its instances recorded,
\* before those deployments, during them and since; other stacks' objects and the
\* public files are never touched (pruneRevalidationTable, pruneCacheBucket,
\* pruneS3). But for what the tasks of a failed invocation, thawed by a later one,
\* delete; and for the rows that a deployment pruned which failed afterwards: its
\* uploads are made again by the rollback, its rows are not.
BuildStands ==
    /\ phase = "idle" =>
         /\ "cache" \in parts => "seed" \in cached[current] \/ <<current, "seed">> \in tainted
         /\ "assets" \in parts => AssetsOf[current] \subseteq DOMAIN assets \cup tainted
         /\ \A p \in Partitions :
                <<current, p>> \in noted => p \in rows[current] \/ <<current, p>> \in tainted
    /\ Others \subseteq DOMAIN assets

\* Where the functions are behind the distribution, the deployment's invalidation
\* comes after the files and the compute are in place, so nothing of an old build is
\* cached again behind it (NextjsBaseConstruct.createNextjsPostDeploy). But for what
\* was cached of a build given up before its post-deploy: that rollback invalidates
\* nothing, nor does the service of a container stack wait.
EdgeIsCurrent == phase = "idle" /\ Ordered => edge \subseteq {current} \cup abandoned

\* What the pruning may not take, and what CloudFront holds.
CurrentStands == BuildStands /\ EdgeIsCurrent

\* The rows of a build that was replaced are deleted, those of its log too, but
\* for the causes named where `lost` is extended: a metadata read that fails, a
\* batch that fails, rows written after the query, a deployment that never got to
\* record its build (pruneRevalidationTable).
OldRowsGo ==
    phase = "idle" => \A b \in Builds : \A p \in rows[b] : b = current \/ b = meta \/ <<b, p>> \in lost

\* The bucket is listed anew by each deployment, so what one leaves the next
\* deletes: after it, an old build's object is one it failed to delete, or had no
\* time for, or was written since (pruneCacheBucket).
OldObjectsGo ==
    phase = "pruned" => \A b \in (Builds \cup {NoBuild}) \ {target} : \A o \in cached[b] :
                            "cache" \in parts => <<b, o>> \in stray

\* What earlier builds left goes.
OldGo == OldRowsGo /\ OldObjectsGo
=================================================================================
