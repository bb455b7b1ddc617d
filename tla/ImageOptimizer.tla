----------------------------- MODULE ImageOptimizer -----------------------------
(***************************************************************************)
(* Requests for one image through RuntimeImageOptimizer.handle             *)
(* (src/runtime/image.ts) in one process: the cache handler, imported once *)
(* and forgotten if that fails; Next.js's ResponseCache over it, which     *)
(* optimizes once for all who miss and serves a stale entry meanwhile; the *)
(* source, from the bucket or else from the app's own routes; and the      *)
(* write of what was optimized, left to waitUntil.                         *)
(***************************************************************************)
EXTENDS Integers, FiniteSets

CONSTANTS
    Viewers,
    Sources,  \* see Source
    MaxFaults \* bound: imports, reads and writes that fail

VARIABLES
    source,
    handler,  \* imageCache: absent, loading or loaded
    failures, \* of its import
    entry,    \* the image in the cache: absent, fresh or stale
    run,      \* the optimization in progress
    writes,   \* how many writes of an image are under way
    faults,
    viewer

imageVars == <<source, handler, failures, entry, run, writes, faults, viewer>>

\* What the src is: a URL of another origin, whose `object` is what it names, or a
\* path, which may be that of an object in the bucket and of a route of the app.
Source(absolute, bucket, object, route) ==
    [absolute |-> absolute, bucket |-> bucket, object |-> object, route |-> route]

NoRun == [step |-> "none", for |-> {}, got |-> "none"]
\* knew: the failed imports before it asked; met: what its 500 is for.
Idle == [phase |-> "idle", status |-> 0, cache |-> "none", knew |-> 0, met |-> "none"]

Init ==
    /\ source \in Sources
    /\ handler = "absent" /\ failures = 0 /\ entry = "absent" /\ run = NoRun /\ writes = 0 /\ faults = 0
    /\ viewer = [v \in Viewers |-> Idle]

Give(set, status, cache) ==
    viewer' = [v \in Viewers |->
        IF v \in set THEN [viewer[v] EXCEPT !.phase = "done", !.status = status, !.cache = cache] ELSE viewer[v]]
Move(v, phase) == viewer' = [viewer EXCEPT ![v].phase = phase]
Fault == faults < MaxFaults /\ faults' = faults + 1

-----------------------------------------------------------------------------
\* validateParams, of Next.js, refuses some.
Handle(v) ==
    /\ viewer[v].phase = "idle"
    /\ \/ viewer' = [viewer EXCEPT ![v] = [@ EXCEPT !.phase = "done", !.status = 400, !.met = "params"]]
       \/ viewer' = [viewer EXCEPT ![v] = [@ EXCEPT !.phase = "load", !.knew = failures]]
    /\ UNCHANGED <<source, handler, failures, entry, run, writes, faults>>

LoadCache(v) ==
    /\ viewer[v].phase = "load"
    /\ IF handler = "loaded" THEN Move(v, "get") /\ UNCHANGED handler
       ELSE /\ handler' = IF handler = "absent" THEN "loading" ELSE handler
            /\ Move(v, "import")
    /\ UNCHANGED <<source, failures, entry, run, writes, faults>>

\* Mutant: the failed promise is kept.
Kept == "failed"
\* loadCache's eviction.
AfterFailure == "absent"

Importing == {v \in Viewers : viewer[v].phase = "import"}
ImportEnds ==
    /\ Importing # {}
    /\ \/ /\ handler = "loading" /\ handler' = "loaded"
          /\ viewer' = [v \in Viewers |-> IF v \in Importing THEN [viewer[v] EXCEPT !.phase = "get"] ELSE viewer[v]]
          /\ UNCHANGED <<failures, faults>>
       \/ /\ handler' = AfterFailure
          /\ IF handler = "loading" THEN Fault /\ failures' = failures + 1
             ELSE UNCHANGED <<faults, failures>>
          /\ viewer' = [v \in Viewers |->
                 IF v \in Importing THEN [viewer[v] EXCEPT !.phase = "done", !.status = 500, !.met = "import"]
                 ELSE viewer[v]]
    /\ UNCHANGED <<source, entry, run, writes>>

\* ResponseCache.get: a hit, a stale entry and its regeneration, or a miss, which
\* joins an optimization in progress.
Get(v) ==
    /\ viewer[v].phase = "get"
    /\ CASE entry = "fresh" -> Give({v}, 200, "HIT") /\ UNCHANGED run
         [] entry = "stale" ->
              /\ Give({v}, 200, "STALE")
              /\ run' = IF run.step = "none" THEN [NoRun EXCEPT !.step = "fetch"] ELSE run
         [] OTHER ->
              /\ Move(v, "wait")
              /\ run' = IF run.step = "none" THEN [NoRun EXCEPT !.step = "fetch", !.for = {v}]
                        ELSE [run EXCEPT !.for = @ \cup {v}]
    /\ UNCHANGED <<source, handler, failures, entry, writes, faults>>

\* A run that fails answers those who wait for it; an entry it was to replace stands.
RunFails(status) == run' = NoRun /\ Give(run.for, status, "none")
FetchNext == run' = [run EXCEPT !.step = "internal"] /\ UNCHANGED viewer
Got(what) == run' = [run EXCEPT !.step = "optimize", !.got = what] /\ UNCHANGED viewer

\* Mutant: an object that is not there is an error as any other.
MissingIsError == 500
\* fetchLocal: NoSuchKey is left to the routes.
IfMissing == 0

\* fetchExternalImage, or fetchFromS3, one of whose errors is not the viewer's.
Fetch ==
    /\ run.step = "fetch"
    /\ \/ Fault /\ run' = NoRun
          /\ viewer' = [v \in Viewers |-> IF v \in run.for
                          THEN [viewer[v] EXCEPT !.phase = "done", !.status = 500, !.met = "source"] ELSE viewer[v]]
       \/ /\ UNCHANGED faults
          /\ CASE ~source.absolute /\ ~source.bucket -> FetchNext
               [] source.object \in {"image", "text"} -> Got(source.object)
               [] source.object = "large" -> RunFails(413)
               [] source.absolute -> RunFails(404)
               [] OTHER -> IF IfMissing = 0 THEN FetchNext ELSE RunFails(IfMissing)
    /\ UNCHANGED <<source, handler, failures, entry, writes>>

\* Mutant: what another group has is not an image.
OtherGroupUnseen(route) == IF route = "large" THEN 413 ELSE 400
\* What fetchInternal's response is refused with.
InternalError(route) == CASE route = "large" -> 413 [] route = "other group" -> 502 [] OTHER -> 400
\* fetchInternal of core.ts; a route that fails answers with text.
FetchInternal ==
    /\ run.step = "internal"
    /\ IF source.route \in {"image", "text"} THEN Got(source.route) ELSE RunFails(InternalError(source.route))
    /\ UNCHANGED <<source, handler, failures, entry, writes, faults>>

\* imageOptimizer, which refuses what is no image; and deferWrites: the answer does
\* not wait for the write.
Optimize ==
    /\ run.step = "optimize"
    /\ IF run.got = "image" THEN run' = NoRun /\ Give(run.for, 200, "MISS") /\ writes' = writes + 1
       ELSE RunFails(400) /\ UNCHANGED writes
    /\ UNCHANGED <<source, handler, failures, entry, faults>>

\* A write that fails is logged.
WriteEnds ==
    /\ writes > 0 /\ writes' = writes - 1
    /\ \/ entry' = "fresh" /\ UNCHANGED faults
       \/ Fault /\ UNCHANGED entry
    /\ UNCHANGED <<source, handler, failures, run, viewer>>

Expire ==
    /\ entry = "fresh" /\ entry' = "stale"
    /\ UNCHANGED <<source, handler, failures, run, writes, faults, viewer>>

Next ==
    \/ \E v \in Viewers : Handle(v) \/ LoadCache(v) \/ Get(v)
    \/ ImportEnds \/ Fetch \/ FetchInternal \/ Optimize \/ WriteEnds \/ Expire

-----------------------------------------------------------------------------
(* Properties. *)

TypeOK ==
    /\ handler \in {"absent", "loading", "loaded"} /\ entry \in {"absent", "fresh", "stale"}
    /\ run.step \in {"none", "fetch", "internal", "optimize"} /\ run.for \subseteq Viewers
    /\ run.step = "none" => run.for = {}
    /\ failures <= faults /\ faults \in 0 .. MaxFaults /\ writes \in 0 .. Cardinality(Viewers)
    /\ \A v \in Viewers :
          /\ viewer[v].phase \in {"idle", "load", "import", "get", "wait", "done"}
          /\ viewer[v].phase = "wait" <=> v \in run.for
          /\ viewer[v].phase = "import" => handler = "loading"

\* What `next start`, which fetches every local source from its own routes, answers.
AsNextStart ==
    LET found == IF source.absolute \/ (source.bucket /\ source.object # "none") THEN source.object ELSE source.route
    IN  CASE found = "image" -> 200 [] found = "large" -> 413 [] found = "other group" -> 502
          [] source.absolute /\ found = "none" -> 404 [] OTHER -> 400

\* Whoever asks, whenever it joins, is answered what `next start` answers for that
\* source, but where a read or an import failed under it, or its parameters are
\* refused (RuntimeImageOptimizer.handle, fetchLocal).
AnsweredForSource ==
    \A v \in Viewers : viewer[v].phase = "done" =>
        \/ viewer[v].status = AsNextStart
        \/ viewer[v].status = 400 /\ viewer[v].met = "params"
        \/ viewer[v].status = 500 /\ viewer[v].met \in {"import", "source"}

\* A failed import of the cache handler fails those who waited for it and no one who
\* came later (image.ts:306).
ImportFailureIsFresh ==
    \A v \in Viewers : viewer[v].met = "import" => failures > viewer[v].knew
=================================================================================
