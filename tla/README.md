# cdk-nextjs, verified

TLA+ models of `cdk-nextjs`, model-checked with TLC and, for what runs
concurrently, proved with TLAPS. Paths are relative to
the repository (`src/adapter/...`); `aws-cache-store.ts` is abbreviated ACS.

The program deploys a Next.js app to AWS as Lambda functions or containers. What
is hard in it at run time is the caching: every compute instance keeps rendered
pages and `'use cache'` entries in its own memory, S3 holds what instances share,
CloudFront holds what they answered, and an app may call `revalidateTag` on any
one of them. Nothing locks anything. What keeps a stale entry from being served is
timestamps, a DynamoDB table, clocks that roughly agree, and a few timing
constants. What is hard at build time is that four parties that never talk to each
other (the build's manifest, the packages of the functions, CloudFront's or API
Gateway's patterns, the runtime's router) have to agree on every URL. Both halves
are modelled, and so is what lies between: deployments that replace one another.

Contents: [inventory](#1-inventory), [plan](#2-plan),
[modules](#3-modules-and-the-code), [runs](#4-runs-bounds-and-what-they-show),
[fairness](#5-fairness), [proofs](#6-proofs),
[disagreements](#7-where-code-and-comments-disagree),
[what is not modelled](#8-what-is-not-modelled).

## 1. Inventory

### The parts and their state

| part | source | state it keeps | operations |
|---|---|---|---|
| Tag markers | ACS 100-225, 1634-1703 | none: a marker is `revalidatedAt`, `staleAt`, `expiredAt` | `markerFor`, `applyMarker`, `mergeMarkers`, `markerState`, `knownBy` |
| Marker rows | ACS 285-383 | DynamoDB: one row per tag, the marker | `write` (unconditional UpdateItem), `read` (batched, eventually consistent) |
| Revalidation log | ACS 385-577 | DynamoDB: one row per revalidation, keyed by writer's time and tag, with a time to live | `put` (conditional, moves on on a collision), `query` (a page limit) |
| Tag manifest | ACS 579-1632 | per instance: tracked markers (LRU), `logOnly`, `pendingRows`, `applied`, reads in flight, the log's cursor, `floor` and `laterFloors` (`completeSince`) | `track`, `ensure`, `update`/`write`, `sync`, `forget`, `state`, `expiration` |
| Refreshing | ACS 916-1110 | per instance: the refresh in flight, `settledAt`, the tick | `refresh`, `catchUp`, `behind`, `behindInRender` |
| Default handler | `use-cache-default-handler.ts` | per instance: `EntryLru` | `get`, `set`, `refreshTags`, `getExpiration`, `updateTags` |
| Remote handler | `use-cache-remote-handler.ts` | the same, and one S3 object per key | the same |
| Pending sets | `use-cache-common.ts` | per handler: the set in flight by key | `wait`, `begin` |
| Incremental cache | `s3-cache-handler.ts`, `cache-kinds.ts` | S3 objects, tag-to-path mapping rows, CloudFront | `get`, `set`, `revalidateTag` |
| Memory, local files | `memory-cache-handler.ts`, `local-file-cache-handler.ts` | per instance LRU in front of S3; files of `next build` | `get`, `set`, `revalidateTag` |
| Cache initialisation | `init-cache.ts`, `tag-manifest.ts` | S3 prefix of the deployment; the process's registry of the manifest | upload once per deployment |
| Post-deploy | `src/lambdas/post-deploy/*` | the table's metadata rows, the buckets | prune rows, prune objects, invalidate the distribution |
| Redeploy stage | `src/lambdas/redeploy-stage/*` | API Gateway's deployments | create, retried on conflict |
| Server runtime | `src/runtime/core.ts`, `entrypoints.ts` | per invocation: the work after the response | one request, `waitUntil`, the drain |
| Response sinks | `src/runtime/http/*`, `lambda.mts`, `server.mts` | head sent, chunks, end; requests in flight at shutdown | write, end, abort, shutdown |
| Routing | `dispatch.ts`, `manifest.ts`, `middleware.ts`, `case-redirect.ts` | none | a function of the request and the routes |
| Images | `image*.ts` | the imported cache handler, Next.js's `ResponseCache`, an S3 cache of images | fetch, encode, answer, store after the answer |
| Static files | `static-files.ts`, `public-files.ts` | none | a file off the disk or out of the bucket, conditional and in ranges |
| Build adapter | `adapter.mts`, `function-groups.ts`, `build-outputs.ts` | files in `.next` | once in `next build`: the manifest, the packages, the seeds |
| Synth | `src/nextjs-build/*` | the app's directory, a shared directory of downloads | once per synth, which may fail, be killed, or skip the build |
| Path patterns, limits | `src/utils/*` | none | the base path, patterns, API resources, the budget of behaviors |
| Constructs | `src/nextjs-*.ts`, `src/root-constructs/*`, `src/nextjs-compute/*` | a CloudFormation template | once per synth |

### How they interact

- **Calls.** A request enters the server runtime, which calls `catchUp` for a
  page, dispatches, and renders. Rendering calls a `'use cache'` handler's
  `refreshTags`, `get` and `set`, or the incremental cache's `get` and `set`.
  Handlers call the manifest: `ensure` (await), then `state` and `expiration`
  (synchronous), `completeSince`, `track`.
- **Shared state within a process.** One manifest for every handler
  (`tag-manifest.ts` keeps it on a global symbol), one registry of loaded modules,
  one cache of images. Every `await` is a point at which another request, a
  background read or a refresh may change it.
- **Messages between processes.** Two per revalidation, which nothing orders and
  each of which may fail alone: the marker row and the log row. Readers poll the
  log and re-read a marker every minute or so. A third goes to CloudFront.
- **Callbacks.** `oldestEntry` (the handlers' stores tell the manifest what it
  may prune), the timer that detects a freeze, `waitUntil`, `_read` and the data
  events of an upload.
- **Files and templates.** The build leaves a manifest, packages, seeds and file
  names; a synth reads them back and writes behaviors, resources, environments and
  roles; the runtime is started with the manifest and the environment.
- **Events.** CloudFormation invokes the post-deploy Lambda, EventBridge the
  redeployment of the API's stage, both at least once.

### What is hard, and what makes each part correct

- *Marker rows*: concurrent writers with clocks apart, responses and reads out of
  order. Correct if what an instance has heard of a tag is never unlearned by a
  merge.
- *Revalidation log*: slow, duplicated and colliding puts; late rows; failed,
  slow and truncated queries; idle spells. Correct if the cursor never passes a
  recorded row that was not read.
- *Tag manifest*: four ways to learn, three to let go, each across an await.
  Correct if whatever was learned still counts, or `completeSince` is past it.
- *Refreshing*: freezes with a query in flight, answers taken for fresh.
  Correct if nobody judges entries by a log read longer ago than the documented
  window, and nobody waits forever.
- *`use cache` handlers*: what a `get` was told before an `await` is stale after
  it; sets of one key overlap or fail. Correct if an entry is served only when newer
  than each revalidation of its tags the instance was told of, and every `get` is
  answered.
- *Incremental cache*: a page written to S3 races the revalidation of its tags and
  the CloudFront invalidation. Correct if what is answered as fresh shows what the
  instance had heard of, and no stale page stays at the edge with nobody left to
  invalidate it.
- *Post-deploy, redeployment*: pruning under instances that still run, failed and
  timed-out invocations, rollbacks, repeated events. Correct if nothing of what is
  deployed is taken, and what earlier builds left goes.
- *Server runtime*: work that registers work, clients that leave, a shutdown, a
  module that fails to load once. Correct if every request ends, registered work is
  done by then, and no failure outlives its cause.
- *Routing, groups, edge*: correct if every URL is answered by the file it asks
  for, in the function whose package holds it, and a split that cannot do that is
  refused, but no other.
- *Prerenders*: correct if the server finds each seed whole under the key it asks
  for, and a revalidation names every path CloudFront has a copy under.
- *Synth*: correct if, whatever earlier synths left, one that succeeds stages
  what it was asked for.

`PROJECT.json` lists each hazard at its line, with the properties that would
catch it going wrong, or a note when none does.

## 2. Plan

The order of importance, which is the order things were built in.

1. `TagMarkers`, `MarkerRows`: the values. Proved: type, `HeardIsKnown`,
   `KnownNeverMovesBack`.
2. `RevalidationFeed`, `RevalidationLog`: the abstract promise and the log that
   implements it. Proved: the inductive invariant, `NothingMissed`,
   `RecordedStands`, the refinement.
3. `TrackedTagMarkers`, `TagRefresh`: one instance's manifest, and who waits for
   the log, how long. Proved: that what was told is held or `completeSince` is past it,
   and that it never moves back.
4. `UseCacheCommon`, `DefaultUseCache`, `RemoteUseCache`: `'use cache'` over the
   manifest.
5. `IncrementalCache`: pages and fetches over memory, S3 and CloudFront.
6. `PostDeploy`, `RedeployStage`: one deployment after another.
7. `ServerRuntime`: requests in a process, to their end.
8. `Routes`, `FunctionGroups`, `Dispatch`, `RouteParams`: from a URL to a file.
9. `EdgeRouting`, `BasePaths`, `Prerenders`, `BuildOutputs`: what the build and the
   constructs say of URLs.
10. `ImageOptimizer`, `StaticServing`, `RequestShape`, `ResponseShape`, `Uploads`:
    the rest of a request's way.
11. `NextjsBuild`, `Wiring`, `ViewerFunctions`: what synths leave, and what a
    template ties together.

Compositions: `MCUseCache`, `MCDeployment` and `MCRequest` put independent parts in
one run, one part per behaviour, chosen by `mode`. `Prerenders` and `BuildOutputs`
carry their claims over two parties each (seeding and serving, manifest and
package), `Dispatch` over edge, runtime and client.

Each part that has state is built to be proved about: parameters are CONSTANTS with
named assumptions, an action per operation, no RECURSIVE operator. Proved, in this
order: `MarkerRows`, `RevalidationLog`, `TagRefresh`, `ServerRuntime`,
`RedeployStage`, both `'use cache'` handlers, `PostDeploy`, `IncrementalCache`,
`TrackedTagMarkers`, `NextjsBuild` (section 6).

## 3. Modules and the code

`PROJECT.json`'s "map" gives every definition's lines. Where there is a
clock it is an integer the environment advances, and code between two awaits is one
action: JavaScript runs it without interruption. What has no state is a function of
its input.

### Revalidation and caches

**TagMarkers** (no state). A marker is a record of three stamps, `Absent` = -1
for `undefined`. `MarkerFor`, `ApplyMarker`, `MergeMarkers`, `MarkerState`,
`KnownBy` are the functions of the same names. `Durations` abstract a profile to
whether there is one, and its `expire`.

**MarkerRows**. One tag: `row` is its row in DynamoDB, `writes` every
revalidation run so far and how far its UpdateItem got, `known` and `heard` per
instance what it tracks and what it took in. `Revalidate` is
`TrackedTagMarkers.write` up to its await, `Land` DynamoDB, `Answer` the rest of
`write`, `MergeLogRow` what `sync` does with a row, `MergeRow` what `readInto`
does. `Drift` is by how much an instance's `markerClock` runs ahead.

**RevalidationFeed**. The abstract promise: an append-only set of recorded
revalidations, a reader's horizon that only advances past what it has heard, or
starts over.

**RevalidationLog**. `puts` is `putLogRow` with `RevalidationLog.put` inside it:
`FreshPut` stamps, `Collide` moves to the next millisecond, `Resend` is the
SDK's retry of a request that had been stored, `AnswerPut` re-puts a slow one
under a fresh stamp and gives up the second time. The follower is `sync`:
`RefreshPastGap` and `ForgetTruncated` are its two ways to start over,
`AnswerQuery` is DynamoDB (a row younger than `Lag` may be missing), `ApplyRows`
moves the cursor to the start of the query less the lookback.

**TrackedTagMarkers**. `known` is all of what the instance knows (`tags` and
`marker` are the LRU map, `logged` and `logOnly` the other, `pending`, `applied`,
`floor`, `later`). `Revalidate`/`LandRow`/`LandLogRow`/`AnswerRow` are `write`
and its two requests, here or elsewhere (`Own`); `Ensure`/`ReadAgain`/
`ResumeRead`/`FailRead` are `ensure` and `readInto`, including the read made
again because `forget` ran meanwhile; `RefreshPastGap`/`Refresh`/`ApplyRows`/
`ForgetTruncated`/`FailQuery` are `sync`, with `rememberLogged`, `pruneLogged`
and `prunedAgainst` inside `ApplyRows`: `ApplyAll` is its loop over the rows, `PruneLogged`
the one over `logOnly`, and `RaiseFloors` those of `forget`, each a recursive function. `versions` are the versions of a row an
eventually consistent read may still return. `told` is a history variable: the
merge of everything the instance was ever told.

**TagRefresh**. `refreshing` is the promise in flight with its timer;
`Refresh`, `Settle`, `PausedSinceRefreshStarted`, `Behind`, `BehindInRender` are
the methods. A request arrives through `catchUp` or past it, then looks entries
up (`RefreshTags`, or `RefreshTagsBlocking` for the remote handler) and stores
some. `Freeze` stops the process, possibly with a refresh in flight, while
DynamoDB (`AskLog`) goes on. `asOf` is a history variable: when the last refresh
to settle ran its query. `canFreeze` and the interval are chosen in `Init`, so
one run covers Lambda and containers, with and without an interval.

**UseCacheCommon, DefaultUseCache, RemoteUseCache**. One key. The manifest is
reduced to what a handler can tell: what the instance was `told` of each tag,
what it still knows, which tags are `tracked` and being read, and
`completeSince`; `Evict` and `Forget` let go as `remember` and `forget` do. A read
(`AnswerRead`) shows any revalidation there was, or none, or fails: it tracks its tag,
and `short` are those it left with less than was told.
A `get` is a record of where it waits (`PendingSets`, reads, S3), the entry in
hand, and three observations made when it answers. A read whose answer has come
is continued before anything else happens (`Quiet`): its continuation is a
microtask of the same turn. `DropEntry` stands for `EntryLru`'s bounds.

**IncrementalCache**. One key and tag, several instances, one bucket, table and
distribution. An entry carries what it shows (`gen`, the revalidations its render
came after) beside what it is judged by (`modified`). `job` is a `get` of
`cache-handler.ts` on its way through the memory layer, the markers, S3 and the
markers again, or the render and `set` that follow, `reval` a `revalidateTag`:
mark, mapping rows, invalidation and its retries. A log that is asked shows any part of
what was recorded: it failed, lags, or was asked less than `refreshIntervalMs` ago
(`behind`). `Setup` says what the deployment
is: prerendered or not, behind CloudFront or not, an entry of a page or a fetch, a
tag that names the path, calls that may fail, a route that comes to be gone.
`DropMemory` stands for the memory layer's time to live and its bound.

### Deployments

**PostDeploy**. `Deploy`, `Upload`, `Switch`, `Invoke`, `Succeed`/`RollBack`/
`Complete` are CloudFormation. A stack whose `parts` are `Ordered`, "functions" and
"cdn", has them before its post-deploy; a service it does not wait for. A rollback from
before the post-deploy ran leaves that out and makes the uploads again
(`RollBackBeforePruning`, "reverting", "reverted"); one from after it goes through all of
it for the old build. A task is one of the four prunings, taken one
request at a time (`TaskStep`), so that a rejection of one leaves the others where
they are (`left`) to go on in a later invocation. Instances of every build in
`serving` write rows and objects meanwhile, and CloudFront caches what they answer.

**RedeployStage**. `tree` is the API's resources, a deployment a snapshot of them;
`DeployStack` and `CleanUp` are CloudFormation's two halves of an update, a run is
`redeployStage` call by call: create a deployment for the stage, ask which ones stages
point to, list them all, delete those of earlier runs that nobody points to.

**NextjsBuild**. A synth's constructor, step by step over what is on disk: the build
(or its absence), the adapter's manifest and cache, the chunks patched, the roots
staged with sharp's binaries, the warnings. Each step may be the last (`Fail`), and
the next synth starts from what there is, with other props. `OtherFetch` and
`OtherFetched` are another app's synth over the shared directory.

**FunctionGroups**, over **Routes** (paths, templates, patterns). `Assign` is
`assignRoutesToGroups` for one entry, which the code visits in an order of its
manifest's, here any; `MatchPatterns`, `Intercept`, `Replay`, `CheckRewrites` the
checks after it, each of which may refuse; a rewrite is a `beforeFiles`, `afterFiles` or
`fallback` one. **AppMenus** holds the small apps.

**BuildOutputs**. From `OutputsOf` an app, `Pathnames` is `buildAdapterManifest` and
`Package` is `collectGroupStagingPlan`; `Resolve` is Next.js's resolution over them.

**Prerenders**. `GroupPrerenders` to `Seeds` is `init-cache.ts`, `KeyAsked` what the
server asks for, the invalidation paths those of `s3-cache-handler.ts` and of
`revalidate` in `core.ts`, with the batch's bound and the collapse into a wildcard.

**BasePaths, EdgeRouting**. `ResolveBasePath` over all the ways to ask for one; a
deployment's behaviors in CloudFront's order and its resources at API Gateway,
byte for byte where names cannot be spelled in a pattern, and the bucket behind them.

**Wiring**. A template as resources, the references between them, what each compute
unit's environment says and what its role may do, against what the runtime uses.

**ViewerFunctions**. By behavior: the one function CloudFront runs, ours and the
user's spliced, which headers are added, what is cached by.

### Requests

**ServerRuntime**. `req` is a request from `Arrive` to `handle`'s end: load, dispatch,
invoke, head, body, the drain of `waitUntil`; `modules` is what the process has
loaded; the shutdown is `Sigterm`, `Closed`, `Exit`. A request of `Inner` is made by
a handler that revalidates a page and is answered to the runtime itself.

**Dispatch**, over Routes. A client's URL, the edge's choice of a function by the URL
as spelled, middleware, resolution, the runtime's use of the result, and the redirect
the client follows. **RouteParams**: a dynamic route's params from the URL to the
page, through the expansion and its repair. **ImageOptimizer**: requests for one image, its import, read, optimization and
deferred write. **StaticServing**: one file by `send`, whose errors
`httpErrorStatus` maps, and the same one out of S3.

**RequestShape**: a viewer's request through each of four shells to
`NextjsRuntime.handle` and on to another origin. **ResponseShape**: headers and body
of an answer to the wire. **Uploads**: the two branches of a body, the request's
buffer and pump. **RequestMenus** holds the inputs.

`MC*` modules give constants values; `MarkerRows`, `TagRefresh` and `RemoteUseCache` are
checked directly too, and `MCBuild` holds the inputs of the two runs at build time. In `MCRequest` and `MCDeployment` a behaviour is one part's, by `mode`,
or one `input` of a function, whose single state the invariant is checked in.

## 4. Runs, bounds and what they show

| run | shows | bounds, and why they are enough |
|---|---|---|
| `revalidation_log` | `NothingMissed`, `RecordedStands`, `IInv`, `ImplementsFeed` | 2 symmetric revalidations of a tag, who run together only at first (`TogetherAtFirst`: they meet only in keys, of which there are 2 to try); durations of 1, `Lookback` and `Ttl` just as large as the code's comments require: a `Ttl` one less breaks it, a `Lookback` two less. 8 instants: a put, its retry, a gap and an expiry. Proved for all |
| `tag_manifest` | `NothingLetGo`, `ManifestConsistent` (type, `KnownInOnePlace`, `PrunedStaysPruned`), `CompleteSinceNeverMovesBack` | 2 tags and room for 1, so every `remember` evicts; 2 revalidations, one run here with a profile, one elsewhere; oldest entries before, at and after it; `OwnOnItsTag` follows the own one on its tag. Proved for all, `NothingLetGo` for profiles that agree on `expire` |
| `tag_manifest_first_read` (violated) | `JudgedByAllTold` | a row pending on a first read is hidden by the instance's own revalidation |
| `marker_row_order` (violated) | `RowRecordsLast` | the row ends with the earlier of two stamps |
| `tag_refresh` | `LetGoCurrent`, `RefreshConsistent` (type, `SettledIsAsked`), `AtMostTwoWaits`, `EveryWaitEnds` | 1 request at a time, which arrives any number of times, 1 freeze, every duration 1, intervals 0 and 1, 7 instants: an idle spell, a freeze longer than `Pause`, and the refresh after it. The three invariants are proved for all |
| `use_cache` | `JudgedWhenServed` (`ServedIsJudged` of both handlers), `GetsAnswered` | default: 1 get, 2 overlapping sets, a plain and an implicit tag; remote: 1 get, 1 set, other instances' puts, `revalidate` 0 and `expire` 1, so that S3 is asked for both reasons; 3 instants. `JudgedWhenServed` is proved for all |
| `remote_use_cache_forget` (violated) | `ExpiredIsDropped` | the markers are forgotten while S3 is asked |
| `incremental_cache` | `FreshShowsWhatWasHeard`, `StaleAtEdgeIsAwaited`, `TypeOK` | 2 symmetric instances, 8 setups, 2 renders, 1 revalidation, and a second after the first on the plain page (`SecondOnPage`); 1 retry of an invalidation. Proved for all |
| `request` | see below | 3 outer requests and an inner one, 2 breaks, 1 shutdown; menus of apps, params, files, requests, answers; 3 chunks over a buffer of 2 |
| `deployment` | see below | 2 deployments over 3 builds, 1 retry; 2 stack updates, 1 failed run or repeated event; 2 synths; menus of apps, distributions, templates |
| `interception` (violated) | `SplitInterceptionThrows` | an intercepted URL with a literal behind a parameter |
| `data_routes` (violated) | `DataOfItsPage` | a static page's data route beside a template's |

`CHECK_DEADLOCK FALSE` throughout: time is bounded, a system nobody calls may stop,
and a function of an input has no step. Every action fires in some passing run. Each
property has a mutant of a mapped definition, defined next to the original and marked
`Mutant:`, that breaks it: a dropped condition, an off-by-one, a swapped order, a
missing reset.

**`deployment`**, 2.8 million states:

| property | of | says |
|---|---|---|
| `HeardIsKnown`, `KnownNeverMovesBack` | MarkerRows | nothing heard is unlearned or moved back by a merge. 2 instances, one clock 1 ahead, 3 revalidations of every kind, times 0-1: ties, both orders, and a third to overwrite. Proved for all |
| `CurrentStands`, `OldGo` | PostDeploy | no pruning takes what the deployed build needs, and behind functions none leaves what is stale at the edge, but for the causes below; what earlier builds left goes, except for the reasons `lost` and `stray` name. Proved for all |
| `StageKept` | RedeployStage | once all events are delivered and done the stage serves the tree; a run's older deployments go; CloudFormation's and other stages' stand. Proved for all |
| `FilesWhereAsked`, `RefusedForCause` | FunctionGroups | each URL, intercepted one and rewrite goes to a function that has its file. A build is misrouted, split or crossing only if some URL, interception or rewrite really goes wrong, and a pattern is a typo only if no file could move for it. URLs of up to 3 segments, some thousand apps |
| `EdgeReaches` | EdgeRouting, BasePaths | a file's URL gets that file with its kind's headers, any other one the function of the group that covers it best; as many behaviors as were counted; no pattern twice; and nothing is said of a base path exactly if the app's own links reach it |
| `PrerendersKept` | Prerenders | a seed is whole under the key asked for; what a tag or a page's revalidation concerns is among the invalidated paths |
| `BuildAnswers` | BuildOutputs | a URL leads to its page, and its group's package holds what answering takes |
| `DoneIsAsAsked` | NextjsBuild | a synth that ended well left roots of its props and build, each with the binaries of its platform, chunks patched once, and warned where it should. `MaxSynths` 2: a synth depends only on what the one before it left. Proved for all |
| `WiredAsUsed` | Wiring | nothing in a template waits for itself or for what is not there; every unit of compute learns of what it uses and may use it, all groups alike, with the user's variables beside; pruning runs after every upload; what the user gave is used; the app is probed, and announced, where it answers |
| `EdgeRunsAll` | ViewerFunctions | no behavior has two functions of an event, none of an override's is lost, the user's code runs in every behavior before any origin, the server gets the viewer's Host, a worker's scope is said once, only a policy that keeps nothing has no key |
| `TypesOK` | MarkerRows, PostDeploy, FunctionGroups | every variable is within its type, and a marker is mixed from none but what was revalidated |

Bounds there: `OnceTogether` leaves retries, the edge and the rows out of the stacks
that prune several things at once, having them where one thing is pruned alone;
`StageOnce` allows one failed run or one repeated event; `MaxWildcards` 4 stands for
the code's 15.

**`request`**, 0.7 million states:

| property | of | says |
|---|---|---|
| `WorkIsDone` | ServerRuntime | work registered with `waitUntil`, that of work too, has settled when `handle` resolves, and when the process exits. Proved for all |
| `NothingInherited` | ServerRuntime | an error answer carries nothing of the page that failed; a failed load is not remembered; a page another group owns is no success of a revalidation. Proved for all |
| `AlwaysEnds` | ServerRuntime | whatever the client, the sink, modules and handlers do, `handle` resolves |
| `AnsweredAsAsked` | Dispatch | the URL's file answers, in its locale if by none; redirects end and are no more than it takes; the rules' headers are on every answer. 200 small apps, 2 redirects |
| `ParamsAsCaptured` | RouteParams | the page gets what the URL spelled |
| `AnsweredForSource` | ImageOptimizer | whoever asks, whenever it joins another's optimization, is answered what `next start` answers for that source, unless a read or an import failed under it |
| `ServedAlike` | StaticServing | a file is itself, a failed precondition is a 412 off the disk and nothing asked is a 500; S3 answers as the disk does what it is asked; and no part of one version for another |
| `RequestAsSent` | RequestShape | whatever is in between, Next.js gets the request a viewer sent: path, query, cookies, an origin no client's header names; no internal header; and no signature goes on to another origin |
| `ResponseAsWritten` | ResponseShape | the headers a handler set are sent as node:http would, but for one Location and no empty cookie; encoding and length fit the body; caches are told what varies; a Lambda's answer is never empty |
| `UploadReadWhole` | Uploads | who reads a body has its chunks in order and the end only after them; nobody's copy piles up |

Three requests are given what to do by `MCScenarios`: one of any kind that registers
work twice; two that meet at the modules and the shutdown; one that revalidates.

What the properties leave open on purpose:

- `HeardIsKnown` excepts a revalidation by an instance whose clock is behind the
  one it heard: `applyMarker` overwrites, by design.
- `LetGoCurrent`'s window is the documented "about 2 s" spelled out: interval,
  grace, a refresh's longest run, and a pause too short to be told from a slow
  query, once per freeze.
- `ServedIsJudged` excepts tags let go of while the `get` waited, tags whose latest
  read fell short of what was told before they were let go of, and a revalidation at an
  entry's very timestamp; see section 7.
- `FreshShowsWhatWasHeard` excepts what was rendered across a revalidation, which is
  stamped when it is stored, and what a failed render wrote back;
  `StaleAtEdgeIsAwaited` answers on their way while paths are invalidated, calls that
  failed for good, answers judged by a log that the refresh interval left behind
  (`behind`), and keys whose mapping row was lost, deleted or not there yet when a
  revalidation asked for it (`unmapped`).
- `CurrentStands` excepts what tasks of a failed invocation delete when thawed
  (`tainted`), rows that a deployment pruned which failed afterwards (`tainted` too),
  what the edge cached of a build given up before its post-deploy (`abandoned`), and,
  at the edge, stacks that are not `Ordered`.
- `RefusedForCause`: a `fallback` rewrite whose source a dynamic template answers never
  applies and is refused all the same. `RewritesReachTheirFile` excepts the reverse: an
  `afterFiles` one of a source spelled as a template applies, and is not looked at.
- `ParamsAsCaptured` excepts an optional catch-all that nothing fills and whose name
  begins with an earlier param's (`Leftover`).
- `ServedAlike` compares S3 with the disk less what S3 is not asked about (`Untold`):
  If-Match, If-Unmodified-Since, no-cache and, with an If-Range, the Range; not an
  object's own CacheControl, nor the heads of a 304 and a 416.
- `RequestAsSent` excepts a repeated slash under a stage or mapping that the app's
  basePath does not cover: the redirect that removes it loses the stage (`Strays`).
- `FilesWhereAsked` takes rewrite sources at their literal prefix, as the code does.
- `UploadReadWhole` excepts a middleware that takes a reader and stops reading
  (its branch piles up), and one that takes it only after dispatch (it gets an empty
  body).

## 5. Fairness

Safety asks for none. Where liveness is checked:

- `tag_refresh`: weak fairness of `Settle`, because every request of the table has
  a timeout (`TAG_TABLE_REQUEST_TIMEOUT_MS`) and a refresh settles in `finally`;
  and of `Resume`, because the event loop runs the continuations of a settled
  promise. Neither is enabled while the process is frozen with the promise
  unsettled, and nothing makes Lambda thaw it: a request that waits is an
  invocation, during which Lambda does not freeze.
- `use_cache`: weak fairness of a set ending one way or the other (Next.js's stream
  ends or errors), of a read being answered (success or timeout, both
  `AnswerRead`), and of a `get` that has begun taking its next step. Nothing is
  assumed of arrivals, revalidations, evictions or S3 puts.
- `request`: weak fairness of a request that has arrived taking its next step and of
  a module's load settling. A handler's own promise settles: what a page's code
  awaits for ever is not the runtime's. Nothing is assumed of clients or of signals.
  A Pages API handler that never ends its answer is not among the handlers: it holds
  its request until the client leaves.

## 6. Proofs

`tlapm` proves, for every value of the constants that meets the named
assumptions:

**MarkerRowsProofs.** `TypeCorrect`: TypeOK is inductive.
`HeardStaysKnown` (`Spec => []HeardIsKnown`) rests on `MergeNotBehind`
(a merge is behind neither side), hence `MergeHolds` and `NotBehindHolds`
(whatever an instance holds it still holds after a merge), and on the case of
the instance's own revalidation, where `applyMarker` overwrites and the newly
stamped one is the witness the exception asks for. `HeardIsKnown` is inductive
relative to TypeOK as it stands. `MergesNeverMoveBack`
(`Spec => KnownNeverMovesBack`) is an action property from the same lemmas.
Assumptions: drifts are natural numbers, profiles are durations. No bound on
instances, revalidations or time is used.

**RevalidationLogProofs.** `NothingMissed` is not inductive: it speaks of
recorded rows behind the cursor, and why there are none involves rows not yet
recorded and queries in flight. `IInv` adds that the cursor trails the last
query by exactly the lookback and a query in flight began within the gap
(`FollowerInTime`); that a put began no later than its row says, give or take
the clocks, and was stored within `MaxPut` if accepted (`PutsInTime`); that a
stored row stands until its time to live (`RowsStand`); that an answer has every
row settled when its refresh began (`AnswerShows`); and that below the cursor
every row stored *in time*, accepted or not, was read (`HeardBelowCursor`), which
implies `NothingMissed`. The proof has one lemma per actor (`WriterStepKeeps`,
`EnvironmentKeeps`, `ForgetKeeps`, the follower's steps); the two assumptions of
the code's comments enter in one place each:

- `LookbackCovers`: `MaxPut + Skew + Lag <= Lookback`, in `HeardBelowCursor` when
  a row lands and when the cursor moves;
- `LogOutlivesGap`: `Lookback + MaxGap + MaxQuery < Ttl`, in `AnswerShows`, so
  that no row the query must return has expired.

They are hypotheses of the theorems, not axioms: `Inductive`, `TypeCorrect`,
`LogMissesNothing`, `RecordedRowsStand` and `LogImplementsFeed` all begin
`ASSUME LookbackCovers, LogOutlivesGap`. `LogImplementsFeed` maps
every step to a step of the feed or a stutter, the horizon being the cursor.

**TagRefreshProofs.** `LetGoCurrent` speaks of a request at the moment it is let
go, and why it is current lies in the freezes before. `IInv` adds how long the process
was frozen while the refresh in flight ran: at most a pause per freeze, unless that was
found or is about to be (`FreezesAreFound`); that who waits, or is resumed, waited for a
refresh that is recent enough (`WaitsForCurrent`); that Lambda serves one request at a
time (`OneAtATime`), which is why the waits are two at most (`WaitsCounted`); that entries
held came after the last refresh that was none (`EntriesFollow`); and that no stamp is
ahead of the clock. Assumptions: times are natural numbers, the tick is not 0. Any
interval, grace, pause and number of freezes.

**TrackedTagMarkersProofs.** `NothingLetGo` compares what is held with all that was
told, and is far from inductive: a step must know why each part of what was told may be
missing. `IInv` says (`Sound`) that of every tag each stamp told is held somewhere, or is
at or before `floor`, and with a `staleAt` let go of its `expiredAt` is too, or lies in a
span of `laterFloors` (`Stands`); that a marker's second pair of stamps is one
revalidation's (`Paired`); that a row marked applied was told (`AppliedTold`), or skipping
it would lose it; and (`Shape`) that the maps are disjoint, bounded and without repeats,
and the spans of `laterFloors` lie apart. Then each operation is shown once, by a lemma
of its own (`RememberIs`, `SetIs`, `RememberLoggedIs`, `PruneLoggedIs`, `ForgottenIs`,
`ApplyAllSteps`, `LaterFloorCovers`), to keep or let go of what it should, and never to
move what was let go of back (`Moved`): the action property `NeverBack` is that. The loops
are recursive functions; `Recursion` shows that they exist and `StepByStep` carries an
invariant through them.

Proved without condition: `Consistent` (`ManifestConsistent`), `NeverBack`,
`StampsAreHeld` (a revalidation told, outright or by profile, and after an entry that may
be judged, is still held). `JudgesAsTold`, that an entry is held back as much as by all
that was told, is of every tag whose profiles all have an `expire`, or all have none
(`Uniform`), and `NothingIsLetGo` takes that of every tag. Next.js's own profiles
all have one, which `revalidateTag` hands on (ACS 98), and the run's do. The condition
is needed: where the
two kinds are mixed on a tag, a marker may carry an older expiry under the newer
stamp (ACS 1689, section 7), and which it carries depends on the order it was merged
in: with a third revalidation TLC finds the instance with an earlier expiry than what it was
told adds up to. `Uniform` is used in two lemmas: `PairIs`, that equal `staleAt`s come with
equal `expiredAt`s, and `AllExpire`. Other assumptions: finitely many revalidations, of
known tags; room for one tag; times are integers; and of the model's, that two
revalidations of a tag are never stamped alike. The clock's bound is not used.

**UseCacheProofs.** Of each handler: a tag is known as it was told, or
`completeSince` covers all it was told and it is not tracked, or its read fell short
(`Remembered`, `Sure`); a `get` that has begun to judge is `Sure` of every tag it has no
read to wait for, but for those let go of since (`Judges`, through the fetch from S3
too). `JudgedWhenServed` is proved of
the two side by side, `DefaultServesJudged` of the default handler alone. Assumed:
implicit tags are tags. `Quiet`, that a read's continuation runs before anything else,
is in the model and is used.

**IncrementalCacheProofs.** Three things keep a stale page from being served or kept.
An entry is judged by what it shows (`Right`: unless blurred or written back by a failed
render, `modified` is its `gen`), which every copy between layers has to preserve. An
answer that no invalidation crossed, judged by a log that was not behind, has every recorded revalidation among those it asked
about, or that one's invalidation is still to come (`Heeds`); a stale one has its key in
`softRevalidatedKeys` (`StaleIsNoted`). And a key that no row names has nothing
stored (`Mapped`), or a revalidation that finds no path would leave it at the edge.
`StaleAtEdgeIsAwaited` is part of `IInv`; `FreshShowsWhatWasHeard` follows from `Right`
and that what was asked is heard (`ShowsAsked`). The steps are grouped by whom they
disturb: a job's own (`OwnStepHolds`), an invalidation, which marks all jobs
(`CrossHolds`), a revalidation's (`RevalidationHolds`). Assumptions: bounds are natural
numbers, setups are setups.

**DeploymentProofs, PostDeploy.** `CurrentStands` and `OldGo` speak of a stack that has come to
rest, so `IInv` follows the tasks: none will delete what is its own build's or another
stack's (`Spared`); the uploads of the build the stack is at stand until the next one's
land, and after a rollback again (`Standing`, `Landed`, `UploadsStand`); the rows noted of
that build and of the target stand (`NotedStands`), across deployments that fail; and what an earlier build left is recorded, queried, listed or accounted for
(`RowsRecorded`, `Queried`, `BucketListed`), at CloudFront too (`EdgeFollows`,
for stacks whose functions come first).
Assumption: a stack has parts, the first build is one, and the names of no build are not, and no
asset's key is a row.

**DeploymentProofs, RedeployStage.** `StageKept` speaks of the time when nothing is under way.
Before that, a deployment no stage points to that a run made is covered by a run that will
delete it, or by one to come (`Covered`); no run has one of CloudFormation's on its list
(`Named`); the last run to create sees the tree as it is (`ServesWhenLast`). New ids exist
because those given are bounded (`Bounded`).

**DeploymentProofs, NextjsBuild.** `DoneIsAsAsked` speaks of the end of a synth only. What
makes it true is that wherever one ends before, the directory is of one build
(`OneBuild`: the manifest is written after its roots and goes with the next compile);
that a download has its name only once it is whole (`DownloadsWhole`), so that the root
whose sharp is in place has whole binaries (`RootAsFar`); and that the roots done stay
done while the next ones are staged (`RootsInTurn`). Assumption: each traced package has
binaries of known platforms, and none is sharp. Neither the number of synths nor how
their props differ matters.

**ServerRuntimeProofs.** `WorkIsDone` is nearly inductive: it takes that once no
connection is left all requests under way are awaited (`ShutdownKnows`).
`NothingInherited` takes what a request collected before it has a head to send
(`HeadIsOfFile`, `HeadIsNotCached`), and that failures are counted (`FailuresCounted`).
A step of one request is proved to keep it `Sound` and the others as they are.
Assumptions: inner requests are not outer, limits are natural numbers.

**Only model-checked.** What is temporal under fairness (`EveryWaitEnds`,
`GetsAnswered`, `AlwaysEnds`), which TLAPS does not reach, nor ENABLED, which
`UploadReadWhole` contains. The functions of an input (routing, groups, the edge,
prerenders, build outputs, wiring, request and response shapes, `ImageOptimizer` but for
its states): they fold over sequences and compare sets built from menus, and
what they compute for every input is an induction over data. No module
declares a RECURSIVE operator.

## 7. Where code and comments disagree

Checked as violated runs, each listed as a finding:

- `RowRecordsLast`: the UpdateItem of a marker row has no condition on the stamp;
  the last to land wins, whatever it says (ACS 315).
- `JudgedByAllTold`: `set` takes in `logOnly` but not `pendingRows`, and
  `knownMarker` stops at the tracked marker: a row that came during the first
  read counts for nothing until the read returns (ACS 834).
- `ExpiredIsDropped`: the state that sent a `get` to S3 is asked again after it,
  when the manifest may have forgotten (`use-cache-remote-handler.ts` 202).
- `SplitInterceptionThrows`: an intercepted URL with a literal behind a parameter is
  taken to be whole (`function-groups.ts` 915).
- `DataOfItsPage`: a static page's data route is left out where a template of data
  matches it, and resolves to the template (`build-outputs.ts` 890).

Met while modelling, in the models as behaviours or exceptions, and not kept as runs.
*Caches*:

- `use-cache-common.ts` 133 against 119: a second set of a key takes the first one's
  registration and may end first, so a wait ends with a set in flight.
- ACS 1689: a profile without an `expire` that lands over an older one leaves the
  older expiry under the newer stamp, and a merge may then take it over a third
  one's.
- ACS 1261: the gap is checked when a refresh starts. A process frozen between
  that and its query may query a log whose rows have expired. The model's
  `MaxQuery` bounds that time; the proofs need it to fit `LogOutlivesGap`.
- ACS 1619: `remember` evicts a tag and leaves its rows in `applied`: read again
  before its marker row shows the revalidation, the tag misses it until the
  rolling re-read.
- `use-cache-default-handler.ts` 99 and 106: which reads are needed is settled before
  they are awaited, so a tag let go of meanwhile is not read again; and an implicit
  tag expires an entry of its very millisecond, which `completeSince` does not cover.
- ACS 1417: a first read that fails tracks its tag with an empty marker, "assume the
  entry is valid", and an eventually consistent one may show less than the instance had
  heard before an eviction or a forget: older entries are served until the rolling
  re-read, although `completeSince` would have held them back.
- ACS 1042: a refresh within `refreshIntervalMs` of the last asks nothing. A page judged
  fresh by that log after its revalidation's invalidation is cached again at the edge,
  with nobody left to invalidate it until its s-maxage. `docs/caching-guide.md` 475
  counts on the invalidation taking longer.
- `s3-cache-handler.ts` 1152-1206: a delete that races a set deletes the mapping rows
  of a live entry, and between a put and its mapping row a revalidation finds no path.
  A stale page whose regeneration answers notFound stays at the edge; memory copies
  elsewhere outlive a delete; `softRevalidatedKeys` (406) is lost with its instance and
  bounded (613); `lastModified` is stamped at `set`, not at the render.

*Deployments*:

- The tasks of the post-deploy Lambda that a rejected sibling left behind freeze, and
  may go on in a later invocation, by then under another build.
- `prune-revalidation-table.ts`: an error of the metadata's GetItem is swallowed, a
  failed batch logged, and a failed deployment's build never recorded: those rows are
  never pruned. `msTtl` counts from the upload.
- A deployment that fails after its post-deploy has pruned the rows of the build the
  stack rolls back to: its revalidations are forgotten, where `docs/pruning-guide.md` 121
  has "Rollback Protection: Previous deployment data preserved during rollout window".
  One that fails before it, its compute already serving, leaves responses of the build
  that is given up at the edge: the rollback runs no post-deploy.
- `post-deploy.lambda.ts` 63 says the pruning of static assets "will not run for
  regional"; it runs for every type, all of which have that bucket. On
  regional types and containers the post-deploy is not ordered after the new compute.
- The adapter writes its manifest before the cache of seeds: a build killed in
  between and a synth with `skipBuild` after it use a part of a cache. A build command
  that never reaches `next build` deploys without seeds.
- `NextjsGlobalContainers` reads the load balancer of its service, which CDK refuses
  for an imported one, as the comment of `getUrl` says.

*URLs*:

- `path-patterns.ts` 91: two names with as many characters that cannot be spelled
  (`??b.png`) give one pattern twice, which CloudFront rejects (167-168).
- A directory `public/_next/` becomes a behavior `_next/*` ahead of the image
  optimizer's and the data routes' on CloudFront, and a duplicate construct on API
  Gateway; there, a page `/docs` beside `public/docs/` hits a resource with no method.
- `/` and `/index` in one Pages Router app: the root's data is grouped with
  `/index`, so `/` is seeded with `{}`. `/index` is reported as `/index/index`. The
  home page's data under a basePath has no owner. Where cache keys are not scoped by
  route, an App Router `/index` shares the key of `/`.
- `function-groups.ts` 1386: "`afterFiles` and `fallback` only apply when no file matched
  the URL", but `afterFiles` come before dynamic templates, and a source spelled as one is
  skipped; a `fallback` source that a template answers as anything else is refused.
- `dispatch.ts` 805: "an unfilled value `routeMatches` does not vouch for is always this",
  but an unfilled param may have been filled by the prefix collision: /[id]/[[...id2]] at
  /a is rendered with `id2: ["a2"]`.
- `static-files.ts` 205-229: S3 is not asked about If-Match and If-Unmodified-Since, which
  off the disk are a 412.
- `static-files.ts` 233-245: a 304 out of S3 says `public, max-age=0` and an ETag even
  for an object with a CacheControl of its own, or with `generateEtags` off; a
  request's `Cache-Control: no-cache` is not honoured there.
- A repeated slash under a stage the basePath does not cover is redirected to a
  Location without the stage.

*Requests*:

- `keepAliveTimeout` (65 s) is longer than ECS waits after SIGTERM (30 s).
- Work registered after a Pages API handler has ended its answer is not tracked.
- A revalidation is accepted on the head of a 200, whatever becomes of its body; and on
  `x-nextjs-cache: REVALIDATED` (`core.ts` 677), which `sendError` leaves on the 500 of a
  page that failed after it was set.
- A middleware that takes the body's reader only in `waitUntil` gets an empty body; an
  upload that breaks off before anything reads it errors a stream nobody listens to.

## 8. What is not modelled

- **Data.** Times are integers with the code's inequalities between them; payloads,
  keys, tags, headers' values and files are model values or small sets. How values
  are encoded in a query, a base64 body or an entry's JSON is left out, and so are the
  lengths of patterns and keys but for the policy's name and the function's size.
- **Tag manifest.** An instance without a table, `update`'s coalescing of equal updates
  in one turn, the jitter of re-reads (any order here); that a rolling re-read happens
  is not required of anything. **Handlers**: profiles, `getExpiration`, the bytes of
  `EntryLru` (an eviction at any time).
- **Incremental cache.** Several keys; tags of one key beyond one; the store of
  `next build` (`local-file-cache-handler.ts`), one build's own files.
- **Post-deploy.** A Lambda event delivered twice, the guard of 101 pages; a prefix is
  one page of a listing; a resource that fails while the post-deploy runs (the stack is
  taken to wait for its answer first); which row of a partition was deleted; answers of
  the old compute on their way while the edge is invalidated. **Synths**: single files are written whole; sharp's versions and
  fallbacks; packages' size in bytes; other synths are of the same platform; the
  patch's code itself; a patch with no end marker, which this code never leaves.
- **Groups, dispatch.** The basePath in front of every route alike; templates of RSC
  payloads; next.config's rewrites and redirects at run time, queries, domains with
  locales of their own (`@next/routing`); the case of exact pathnames beyond
  `case-redirect.ts`; i18n's and middleware's data rules in `BuildOutputs`; the
  symlinks and hashes of staged files.
- **Edge.** Only GETs; symbolic links in `public/`; names with `*`; service workers but
  for their header. **Wiring**: brought buckets and tables count as the template's;
  what CDK's grants allow is external. **Viewer functions**: a user's own default
  behavior under functions without code, overrides of a policy's own header keys.
- **HTTP.** Socket fields, server timeouts, backpressure of answers; cancelling a
  locked branch; `writeHead` before other calls; a declared Content-Length of an empty
  body that a shell pads; `If-None-Match: *`.
- **Loading and setup.** Environment files, Next.js's `setup`, the health check's own
  answer, the load of the middleware's module.
- **Not modelled at all.** The generated structs (optional copies of CDK's property
  types), `.projenrc.ts` and the scripts of the repository (its build), the examples.
