----------------------------- MODULE IncrementalCache ---------------------------
(***************************************************************************)
(* The incremental cache of one key behind CloudFront: the orchestrator of *)
(* src/adapter/cache-handler.ts, its memory layer, and S3CacheHandler, in  *)
(* several instances over one bucket, one table and one distribution.      *)
(*                                                                         *)
(* A revalidation reaches the pages served through three places that know  *)
(* nothing of each other: the markers an instance has heard of, the copies *)
(* in memory and in S3, judged by when they were stored, and the copies at *)
(* the edge, that nobody judges and only an invalidation removes. So an    *)
(* entry carries what it shows (`gen`: how many revalidations its render   *)
(* came after) beside what it is judged by (`modified`: how many ran when  *)
(* it was stamped). What ties a marker to a log row, and an instance to    *)
(* the log, is the tag manifest's business: TrackedTagMarkers, TagRefresh. *)
(*                                                                         *)
(* The key carries one tag. Next.js runs one get or regeneration of a key  *)
(* at a time in an instance (its response cache's batches).                *)
(***************************************************************************)
EXTENDS Integers, FiniteSets

CONSTANTS
    Instances,
    Setups,           \* what the deployment may be, of Setup
    Retries,          \* INVALIDATION_RETRIES
    MaxRevalidations, \* bound: the revalidations of a behaviour
    MaxRenders        \* bound: its renders

ASSUME BoundsAssumption ==
    Retries \in Nat /\ MaxRevalidations \in Nat /\ MaxRenders \in Nat

\* kind: a response or a fetch entry. cdn: `invalidatesCdn`. manifest: whether
\* nextTagsManifest finds Next.js's. seeded: a build-time prerender. path: the
\* tag names the key's route itself. gone: the route may come to answer notFound.
\* faulty: a call to S3, DynamoDB or CloudFront may fail.
Setup == [kind : {"page", "fetch"}, cdn : BOOLEAN, manifest : BOOLEAN, seeded : BOOLEAN,
          path : BOOLEAN, gone : BOOLEAN, faulty : BOOLEAN]

ASSUME SetupsAssumption == Setups \subseteq Setup

VARIABLES
    setup,    \* the deployment, chosen once
    revs,     \* how many revalidations were begun; they are numbered from 1
    soft,     \* those run with a profile
    recorded, \* those whose rows are in the table
    heard,    \* by instance: those its tag manifest knows
    store,    \* the entry in S3
    rows,     \* whether the table maps the tag to the key
    memory,   \* by instance: the memory layer's copy
    waiting,  \* by instance: whether softRevalidatedKeys has the key
    edge,     \* the copies CloudFront holds, over its locations and by query: what
              \* each shows, the ones it is known to be left with left out
    job,      \* by instance: the get, render or set under way
    reval,    \* by instance: the revalidateTag under way
    renders,  \* how many renders were begun
    unmapped  \* history: a mapping row failed to be written, was deleted, or was not
              \* there yet when a revalidation asked for it

settings  == <<setup, unmapped, renders>>
tagVars   == <<revs, soft, recorded, heard>>
stored    == <<store, rows>>
vars == <<settings, tagVars, stored, memory, waiting, edge, job, reval>>

None == [gen |-> -1, blurred |-> FALSE, modified |-> -1, short |-> FALSE, handed |-> FALSE]

\* blurred: a revalidation ran during its render. short: written back by a failed
\* render, to live shortly. handed: this very object is in `servedStale`.
Entry == [gen : 0 .. MaxRevalidations, blurred : BOOLEAN, modified : 0 .. MaxRevalidations,
          short : BOOLEAN, handed : BOOLEAN]

\* copy: what is judged, served, then written. asked: the revalidations known once
\* the log was asked. behind: the table had others by then. gen: what the render
\* comes after. crossed: paths were invalidated meanwhile.
Job == [phase : {"idle", "asking", "asked", "reading", "answered", "rendering",
                 "putting", "dropping", "mapping", "tagging", "deleting", "unmapping"},
        from : {"memory", "s3"}, copy : Entry \cup {None},
        verdict : {"fresh", "stale", "expired", "missed"},
        asked : SUBSET (1 .. MaxRevalidations), gen : 0 .. MaxRevalidations,
        behind : BOOLEAN, crossed : BOOLEAN, attempt : 0 .. Retries]
Idle == [phase |-> "idle", from |-> "memory", copy |-> None, verdict |-> "fresh",
         asked |-> {}, gen |-> 0, behind |-> FALSE, crossed |-> FALSE, attempt |-> 0]

Revalidation == [phase : {"idle", "recording", "querying", "dropping"},
                 number : 0 .. MaxRevalidations, attempt : 0 .. Retries]
NoRevalidation == [phase |-> "idle", number |-> 0, attempt |-> 0]

Seeded == [None EXCEPT !.gen = 0, !.modified = 0]

Init ==
    /\ setup \in Setups
    /\ revs = 0 /\ soft = {} /\ recorded = {}
    /\ heard = [i \in Instances |-> {}]
    /\ store = IF setup.seeded THEN Seeded ELSE None
    /\ rows = FALSE
    /\ memory = [i \in Instances |-> None]
    /\ waiting = [i \in Instances |-> FALSE]
    /\ edge = {}
    /\ job = [i \in Instances |-> Idle]
    /\ reval = [i \in Instances |-> NoRevalidation]
    /\ renders = 0
    /\ unmapped = FALSE

\* Whether CloudFront holds responses of the key, and the key maps its tags.
AtEdge == setup.cdn /\ setup.kind = "page"

Step(i, next) == job' = [job EXCEPT ![i] = next]

--------------------------------------------------------------------------------
(* get: the memory layer, the check of its tags, S3, the check again.      *)

MissMemory(i) ==
    /\ job[i].phase = "idle"
    /\ memory[i] = None
    /\ Step(i, [Idle EXCEPT !.phase = "reading"])
    /\ UNCHANGED <<settings, tagVars, stored, memory, waiting, edge, reval>>

\* An entry past the memory layer's time to live, or evicted by another key.
DropMemory(i) ==
    /\ memory[i] # None
    /\ memory' = [memory EXCEPT ![i] = None]
    /\ UNCHANGED <<settings, tagVars, stored, waiting, edge, job, reval>>

\* An object that is not there, fails to be read or does not parse is a miss.
ReadS3(i) ==
    /\ job[i].phase = "reading"
    /\ \/ /\ store # None
          /\ Step(i, [job[i] EXCEPT !.phase = "asking", !.from = "s3",
                                    !.copy = [store EXCEPT !.handed = FALSE]])
       \/ /\ setup.faulty \/ store = None
          /\ Step(i, [job[i] EXCEPT !.phase = "answered", !.verdict = "missed", !.copy = None])
    /\ UNCHANGED <<settings, tagVars, stored, memory, waiting, edge, reval>>

\* tags.refresh: the log's rows as of now; those of an earlier moment, from a query
\* already in flight; or none, within refreshIntervalMs of the last query or when it
\* fails.
AskTags(i, asking) ==
    \E answer \in SUBSET recorded :
       LET known == heard[i] \cup answer
       IN  /\ heard' = [heard EXCEPT ![i] = known]
           /\ Step(i, [asking EXCEPT !.phase = "asked", !.asked = known,
                                     !.behind = ~(recorded \subseteq known)])

HitMemory(i) ==
    /\ job[i].phase = "idle"
    /\ memory[i] # None
    /\ AskTags(i, [Idle EXCEPT !.copy = memory[i]])
    /\ UNCHANGED <<settings, revs, soft, recorded, stored, memory, waiting, edge, reval>>

CheckS3(i) ==
    /\ job[i].phase = "asking"
    /\ AskTags(i, job[i])
    /\ UNCHANGED <<settings, revs, soft, recorded, stored, memory, waiting, edge, reval>>

\* checkIfRevalidated, of what the instance knows after the awaits.
State(i, entry) ==
    LET newer == {r \in heard[i] : r > entry.modified}
    IN  CASE newer = {}                              -> "fresh"
          [] newer # {} /\ newer \subseteq soft
                        /\ setup.manifest            -> "stale"
          [] OTHER                                   -> "expired"

\* noteSoftRevalidated, and the value as `servedStale` leaves it.
Noted(verdict) == verdict = "stale" /\ setup.kind = "page" /\ setup.cdn
Handed(entry, verdict) == [entry EXCEPT !.handed = @ \/ Noted(verdict)]
NoteSoftRevalidated(i, verdict) == waiting' = [waiting EXCEPT ![i] = @ \/ Noted(verdict)]

\* A memory hit is answered, or dropped by its key and S3 read for it.
JudgeMemory(i) ==
    LET verdict == State(i, job[i].copy)
        copy    == Handed(job[i].copy, verdict)
    IN  /\ job[i].phase = "asked"
        /\ job[i].from = "memory"
        /\ NoteSoftRevalidated(i, verdict)
        /\ \/ /\ verdict = "expired"
              /\ memory' = [memory EXCEPT ![i] = None]
              /\ Step(i, [Idle EXCEPT !.phase = "reading", !.crossed = job[i].crossed])
           \/ /\ verdict # "expired"
              /\ memory' = [memory EXCEPT ![i] = IF @ = job[i].copy THEN copy ELSE @]
              /\ Step(i, [job[i] EXCEPT !.phase = "answered", !.verdict = verdict,
                                        !.copy = copy])
        /\ UNCHANGED <<settings, tagVars, stored, edge, reval>>

\* Mutant of Promoted: the copy in memory is stamped when it is copied.
PromotedNow(entry) == [entry EXCEPT !.modified = revs]

\* What the memory layer is given of an entry read from S3: its own lastModified.
Promoted(entry) == entry

\* An expired fetch entry is a miss, an expired response is handed back to be
\* rendered before it is answered. Neither is copied to memory.
JudgeS3(i) ==
    LET verdict == State(i, job[i].copy)
        copy    == Handed(job[i].copy, verdict)
    IN  /\ job[i].phase = "asked"
        /\ job[i].from = "s3"
        /\ NoteSoftRevalidated(i, verdict)
        /\ \/ /\ verdict = "expired"
              /\ setup.kind = "fetch"
              /\ Step(i, [job[i] EXCEPT !.phase = "answered", !.verdict = "missed",
                                        !.copy = None])
              /\ UNCHANGED memory
           \/ /\ verdict = "expired"
              /\ setup.kind = "page"
              /\ Step(i, [job[i] EXCEPT !.phase = "answered", !.verdict = "expired"])
              /\ UNCHANGED memory
           \/ /\ verdict # "expired"
              /\ memory' = [memory EXCEPT ![i] = Promoted(copy)]
              /\ Step(i, [job[i] EXCEPT !.phase = "answered", !.verdict = verdict,
                                        !.copy = copy])
        /\ UNCHANGED <<settings, tagVars, stored, edge, reval>>

--------------------------------------------------------------------------------
(* What Next.js does with the answer.                                      *)

\* The response reaches the edge: `entry` as it was served. Not counted are a
\* short-lived one, and what StaleAtEdgeIsAwaited leaves out.
Reach(entry, leftOut) ==
    edge' = IF AtEdge /\ ~entry.short
                  /\ ~entry.blurred /\ ~leftOut
            THEN edge \cup {entry.gen} ELSE edge

\* An invalidation is created: what the edge holds goes, what is under way to it
\* may come after. Or there is none: what the edge holds stays, and is no longer
\* counted.
Invalidated == edge' = {}
LeftAtEdge  == edge' = {}

\* A fresh or stale answer is served. A stale one is rendered again in the
\* background, one that is due by its age too; an expired or missing one is
\* rendered before anything is answered.
Deliver(i) ==
    LET served == job[i].verdict \in {"fresh", "stale"}
    IN  /\ job[i].phase = "answered"
        /\ IF served THEN Reach(job[i].copy, job[i].crossed \/ job[i].behind) ELSE UNCHANGED edge
        /\ \/ /\ job[i].verdict = "fresh"
              /\ Step(i, Idle)
              /\ UNCHANGED renders
           \/ /\ renders < MaxRenders
              /\ renders' = renders + 1
              /\ Step(i, [job[i] EXCEPT !.phase = "rendering", !.gen = revs, !.asked = {},
                                        !.behind = FALSE, !.crossed = FALSE])
        /\ UNCHANGED <<setup, unmapped, tagVars, stored, memory, waiting, reval>>

\* set of both layers, up to the put: the stamp is the time of the set.
Set(i, entry) ==
    LET stamped == [entry EXCEPT !.modified = revs]
    IN  /\ memory' = [memory EXCEPT ![i] = stamped]
        /\ Step(i, [Idle EXCEPT !.phase = "putting", !.copy = stamped])

Rendered(i) ==
    [None EXCEPT !.gen = job[i].gen, !.blurred = job[i].gen < revs]

\* A blocking render is answered with what it rendered, which is then set.
RenderEnds(i) ==
    /\ job[i].phase = "rendering"
    /\ IF job[i].verdict \in {"expired", "missed"}
       THEN Reach(Rendered(i), job[i].crossed) ELSE UNCHANGED edge
    /\ Set(i, Rendered(i))
    /\ UNCHANGED <<settings, tagVars, stored, waiting, reval>>

\* A render that fails writes the entry back, to live shortly; without one it is
\* an error.
RenderFails(i) ==
    /\ job[i].phase = "rendering"
    /\ \/ /\ job[i].copy # None
          /\ Set(i, [job[i].copy EXCEPT !.short = TRUE])
       \/ /\ job[i].copy = None
          /\ Step(i, Idle)
          /\ UNCHANGED memory
    /\ UNCHANGED <<settings, tagVars, stored, waiting, edge, reval>>

\* The route answers notFound: set of null. There is no regeneration left to wait
\* for, and the copies at the edge outlive the object.
RenderNothing(i) ==
    /\ job[i].phase = "rendering"
    /\ setup.gone
    /\ LeftAtEdge
    /\ memory' = [memory EXCEPT ![i] = None]
    /\ waiting' = [waiting EXCEPT ![i] = FALSE]
    /\ Step(i, [Idle EXCEPT !.phase = "tagging"])
    /\ UNCHANGED <<settings, tagVars, stored, reval>>

--------------------------------------------------------------------------------
(* set, from the put on.                                                   *)

\* Mutant: the regeneration of an entry served stale is like any other.
PutLandsQuietly(i) ==
    /\ job[i].phase = "putting"
    /\ store' = [job[i].copy EXCEPT !.handed = FALSE]
    /\ waiting' = [waiting EXCEPT ![i] = FALSE]
    /\ Step(i, IF setup.cdn THEN [Idle EXCEPT !.phase = "mapping"] ELSE Idle)
    /\ UNCHANGED <<settings, tagVars, rows, memory, edge, reval>>

\* The object is in S3. The key's paths go again if it was served stale, unless
\* this is what was served; a fetch key has none.
PutLands(i) ==
    LET regenerated == ~job[i].copy.handed /\ waiting[i]
    IN  /\ job[i].phase = "putting"
        /\ store' = [job[i].copy EXCEPT !.handed = FALSE]
        /\ waiting' = [waiting EXCEPT ![i] = @ /\ ~regenerated]
        /\ \/ /\ regenerated
              /\ Step(i, [Idle EXCEPT !.phase = "dropping"])
           \/ /\ ~regenerated /\ setup.cdn
              /\ Step(i, [Idle EXCEPT !.phase = "mapping"])
           \/ /\ ~regenerated /\ ~setup.cdn
              /\ Step(i, Idle)
        /\ UNCHANGED <<settings, tagVars, rows, memory, edge, reval>>

\* The put's error is logged, and what comes after it in the set is skipped.
PutFails(i) ==
    /\ job[i].phase = "putting"
    /\ setup.faulty
    /\ unmapped' = (unmapped \/ ~rows)
    /\ Step(i, Idle)
    /\ UNCHANGED <<setup, renders, tagVars, stored, memory, waiting, edge, reval>>

\* storeDynamoDBTagMappings: its error is swallowed.
StoreMappings(i) ==
    /\ job[i].phase = "mapping"
    /\ \/ rows' = TRUE /\ UNCHANGED unmapped
       \/ setup.faulty /\ UNCHANGED rows /\ unmapped' = TRUE
    /\ Step(i, Idle)
    /\ UNCHANGED <<setup, renders, tagVars, store, memory, waiting, edge, reval>>

\* storedEntryTags: without the tags the rows cannot be named.
ReadStoredTags(i) ==
    /\ job[i].phase = "tagging"
    /\ \E found \in IF setup.faulty THEN {store, None} ELSE {store} :
          Step(i, [job[i] EXCEPT !.phase = "deleting", !.copy = found])
    /\ UNCHANGED <<settings, tagVars, stored, memory, waiting, edge, reval>>

DeleteObject(i) ==
    /\ job[i].phase = "deleting"
    /\ \/ /\ store' = None
          /\ IF setup.cdn /\ job[i].copy # None
             THEN Step(i, [job[i] EXCEPT !.phase = "unmapping"])
             ELSE Step(i, Idle)
       \/ /\ setup.faulty
          /\ UNCHANGED store
          /\ Step(i, Idle)
    /\ UNCHANGED <<settings, tagVars, rows, memory, waiting, edge, reval>>

\* deleteDynamoDBTagMappings: by the key, whatever has been stored since.
DeleteMappings(i) ==
    /\ job[i].phase = "unmapping"
    /\ \/ rows' = FALSE /\ unmapped' = TRUE
       \/ setup.faulty /\ UNCHANGED <<rows, unmapped>>
    /\ Step(i, Idle)
    /\ UNCHANGED <<setup, renders, tagVars, store, memory, waiting, edge, reval>>

--------------------------------------------------------------------------------
(* revalidateTag, and invalidateCloudFrontPaths.                           *)

\* The marker is stamped, and this instance knows it, at once.
Revalidate(i, profile) ==
    LET r == revs + 1
    IN  /\ reval[i].phase = "idle"
        /\ revs < MaxRevalidations
        /\ revs' = r
        /\ soft' = IF profile THEN soft \cup {r} ELSE soft
        /\ heard' = [heard EXCEPT ![i] = @ \cup {r}]
        /\ reval' = [reval EXCEPT ![i] = [NoRevalidation EXCEPT !.phase = "recording",
                                                               !.number = r]]
        /\ UNCHANGED <<settings, recorded, stored, memory, waiting, edge, job>>

\* tags.update is answered. Unrecorded, the whole app is dropped from the edge.
Recorded(i) ==
    /\ reval[i].phase = "recording"
    /\ \/ /\ recorded' = recorded \cup {reval[i].number}
          /\ reval' = [reval EXCEPT ![i] = IF setup.cdn THEN [@ EXCEPT !.phase = "querying"]
                                           ELSE NoRevalidation]
       \/ /\ setup.faulty
          /\ UNCHANGED recorded
          /\ reval' = [reval EXCEPT ![i] = IF setup.cdn THEN [@ EXCEPT !.phase = "dropping"]
                                           ELSE NoRevalidation]
    /\ UNCHANGED <<settings, revs, soft, heard, stored, memory, waiting, edge, job>>

\* tagRoutes: the rows, the build's tags and the tag itself name the key's path. A
\* query that fails or is cut short, or no build manifest, takes the whole app.
NamesPath == rows \/ setup.seeded \/ setup.path

\* The key's paths, or the whole app, are to be invalidated.
FindPaths(i) ==
    /\ reval[i].phase = "querying"
    /\ NamesPath \/ setup.faulty
    /\ reval' = [reval EXCEPT ![i] = [@ EXCEPT !.phase = "dropping"]]
    /\ UNCHANGED <<settings, tagVars, stored, memory, waiting, edge, job>>

\* An answer or a render under way, that an invalidation may come before.
Crossed(j) ==
    [job[j] EXCEPT !.crossed = @ \/ job[j].phase \in {"asking", "asked", "reading", "answered"}
                                 \/ /\ job[j].phase = "rendering"
                                    /\ job[j].verdict \in {"expired", "missed"}]

\* Nothing names the path, as before the key's first set has stored its row: what
\* that set's render was answered with may be at the edge already, and stays.
MissRow(i) ==
    /\ reval[i].phase = "querying"
    /\ ~NamesPath
    /\ reval' = [reval EXCEPT ![i] = NoRevalidation]
    /\ unmapped' = (unmapped \/ \E j \in Instances :
                                  job[j].phase \in {"putting", "dropping", "mapping"})
    /\ job' = [j \in Instances |-> Crossed(j)]
    /\ UNCHANGED <<setup, renders, tagVars, stored, memory, waiting, edge>>

DropRevalidated(i) ==
    /\ reval[i].phase = "dropping"
    /\ Invalidated
    /\ job' = [j \in Instances |-> Crossed(j)]
    /\ reval' = [reval EXCEPT ![i] = NoRevalidation]
    /\ UNCHANGED <<settings, tagVars, stored, memory, waiting>>

\* Mutant: one retry too many.
MayRetryOnceMore(attempt) == attempt <= Retries

\* CloudFront's quota is full: ask again, for the whole app.
MayRetry(attempt) == attempt < Retries

RetryRevalidated(i) ==
    /\ reval[i].phase = "dropping"
    /\ setup.faulty
    /\ MayRetry(reval[i].attempt)
    /\ reval' = [reval EXCEPT ![i].attempt = @ + 1]
    /\ UNCHANGED <<settings, tagVars, stored, memory, waiting, edge, job>>

GiveUpRevalidated(i) ==
    /\ reval[i].phase = "dropping"
    /\ setup.faulty
    /\ LeftAtEdge
    /\ job' = [j \in Instances |-> Crossed(j)]
    /\ reval' = [reval EXCEPT ![i] = NoRevalidation]
    /\ UNCHANGED <<settings, tagVars, stored, memory, waiting>>

\* The paths of an entry that was served stale, from its set.
Regenerated(i) ==
    job' = [[j \in Instances |-> Crossed(j)] EXCEPT
               ![i] = [job[i] EXCEPT !.phase = "mapping", !.attempt = 0]]

DropRegenerated(i) ==
    /\ job[i].phase = "dropping"
    /\ Invalidated
    /\ Regenerated(i)
    /\ UNCHANGED <<settings, tagVars, stored, memory, waiting, reval>>

RetryRegenerated(i) ==
    /\ job[i].phase = "dropping"
    /\ setup.faulty
    /\ MayRetry(job[i].attempt)
    /\ Step(i, [job[i] EXCEPT !.attempt = @ + 1])
    /\ UNCHANGED <<settings, tagVars, stored, memory, waiting, edge, reval>>

GiveUpRegenerated(i) ==
    /\ job[i].phase = "dropping"
    /\ setup.faulty
    /\ LeftAtEdge
    /\ Regenerated(i)
    /\ UNCHANGED <<settings, tagVars, stored, memory, waiting, reval>>

--------------------------------------------------------------------------------
GetStep(i) ==
    \/ HitMemory(i) \/ MissMemory(i) \/ DropMemory(i) \/ ReadS3(i) \/ CheckS3(i)
    \/ JudgeMemory(i) \/ JudgeS3(i) \/ Deliver(i)
    \/ RenderEnds(i) \/ RenderFails(i) \/ RenderNothing(i)

SetStep(i) ==
    \/ PutLands(i) \/ PutFails(i) \/ StoreMappings(i)
    \/ DropRegenerated(i) \/ RetryRegenerated(i) \/ GiveUpRegenerated(i)
    \/ ReadStoredTags(i) \/ DeleteObject(i) \/ DeleteMappings(i)

RevalidateStep(i) ==
    \/ \E profile \in BOOLEAN : Revalidate(i, profile)
    \/ Recorded(i) \/ FindPaths(i) \/ MissRow(i)
    \/ DropRevalidated(i) \/ RetryRevalidated(i) \/ GiveUpRevalidated(i)

Next == \E i \in Instances : GetStep(i) \/ SetStep(i) \/ RevalidateStep(i)

Spec == Init /\ [][Next]_vars

--------------------------------------------------------------------------------
TypeOK ==
    /\ setup \in Setups /\ unmapped \in BOOLEAN /\ rows \in BOOLEAN
    /\ revs \in 0 .. MaxRevalidations /\ renders \in 0 .. MaxRenders
    /\ soft \subseteq 1 .. revs /\ recorded \subseteq 1 .. revs
    /\ heard \in [Instances -> SUBSET (1 .. revs)]
    /\ store \in Entry \cup {None}
    /\ memory \in [Instances -> Entry \cup {None}]
    /\ waiting \in [Instances -> BOOLEAN]
    /\ edge \subseteq 0 .. MaxRevalidations
    /\ \A i \in Instances : job[i] \in Job /\ reval[i] \in Revalidation

\* What is answered as fresh, from memory or from S3, shows every revalidation the
\* instance had heard of when it asked: whichever layer it went through and
\* whoever wrote it. Left out are what was rendered across a revalidation, which
\* is stamped when it is stored, and what a failed render wrote back.
FreshShowsWhatWasHeard ==
    \A i \in Instances :
        job[i].phase = "answered" /\ job[i].verdict = "fresh"
        /\ ~job[i].copy.blurred /\ ~job[i].copy.short
            => \A r \in job[i].asked : r <= job[i].copy.gen

\* The edge is not left with a page from before a revalidation: somebody will
\* still invalidate it - the revalidation, or the instance that served the page
\* stale and renders it again, however often its renders fail. Left out are
\* answers on their way while paths were invalidated, answers judged by a log from
\* before the revalidation (`behind`: refreshIntervalMs, of which
\* docs/caching-guide.md 475 says that it is within what the invalidation takes),
\* keys that no row names, and calls that failed for good.
StaleAtEdgeIsAwaited ==
    AtEdge /\ ~unmapped =>
        \A shown \in edge : (\E r \in recorded : shown < r) =>
            \E i \in Instances :
                \/ reval[i].phase # "idle" /\ shown < reval[i].number
                \/ waiting[i]
                \/ job[i].phase = "dropping"
=================================================================================
