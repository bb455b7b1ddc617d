------------------------------ MODULE ServerRuntime ------------------------------
(***************************************************************************)
(* Requests through NextjsRuntime.handle (src/runtime/core.ts), each with  *)
(* its response stream and sink (src/runtime/http), in one process that    *)
(* keeps the modules it loaded (src/runtime/entrypoints.ts) and, in the    *)
(* Containers shell, is told to stop while they run.                       *)
(*                                                                         *)
(* A request is over when its answer has reached the client, or no longer  *)
(* can, and the work it registered with waitUntil has settled: a Lambda    *)
(* freezes then, a container may exit. An inner request is made by a       *)
(* handler that revalidates a page, and answered to the runtime itself.    *)
(***************************************************************************)
EXTENDS Integers, Sequences

CONSTANTS
    Outer,     \* the requests of clients
    Inner,     \* those of handlers
    NoOne,
    Scenarios, \* each: request -> what it may be for, of Targets
    MaxWork,   \* bound: request -> the promises it registers
    MaxBroken  \* bound: the throws, failed loads, refused heads and departures

VARIABLES
    server,   \* open, closing (told to stop), draining (no connection left), stopped
    awaited,  \* the requests the shutdown waits for
    modules,  \* EntrypointRegistry.handlers: file -> absent, loading, loaded or failed
    fails,    \* file -> how many of its loads failed
    broken,   \* how many things went wrong
    req       \* request -> where it is

process == <<server, awaited>>
loader  == <<modules, fails>>
vars    == <<process, loader, broken, req>>

Requests == Outer \cup Inner
Files == {"page", "api", "notFound", "errorPage"}
\* foreign: a page of another function group; stream: the middleware's own answer, or
\* that of an origin a rewrite names.
Targets == {"at once", "unmatched", "page", "api", "foreign", "stream"}

ASSUME RuntimeAssumption ==
    /\ NoOne \notin Requests /\ Outer \cap Inner = {}
    /\ Scenarios \subseteq [Requests -> SUBSET Targets] /\ MaxWork \in [Requests -> Nat]
    /\ MaxBroken \in Nat

\* describes: whose body Content-Length and ETag are of; by: whose body is sent.
Heads == [status : {0, 200, 308, 404, 500}, cache : {"none", "public", "no-store"},
          describes : Files \cup {"none"}, by : Files \cup {"none"}]
NoHead == [status |-> 0, cache |-> "none", describes |-> "none", by |-> "none"]
Phases == {"idle", "route", "load", "render", "revalidate", "stream", "error", "finish", "drain", "done"}

Request ==
    [phase : Phases, asks : SUBSET Targets, target : Targets \cup {"none"}, file : Files \cup {"none"},
     told : {"none", "waiting", "loaded", "failed"}, head : Heads, wire : Heads,
     out : {"unsent", "piping", "ended", "destroyed"}, settled : BOOLEAN,
     client : {"none", "here", "gone", "served"}, refuses : BOOLEAN,
     work : Seq({"pending", "settled"}), drained : Nat, seen : [Files -> 0 .. MaxBroken],
     caller : Requests \cup {NoOne}, only : BOOLEAN, accepted : SUBSET Inner]
Fresh == [phase |-> "idle", asks |-> {}, target |-> "none", file |-> "none", told |-> "none",
          head |-> [NoHead EXCEPT !.status = 200], wire |-> NoHead, out |-> "unsent",
          settled |-> FALSE, client |-> "none", refuses |-> FALSE,
          work |-> <<>>, drained |-> 0, seen |-> [f \in Files |-> 0],
          caller |-> NoOne, only |-> FALSE, accepted |-> {}]

TypeOK ==
    /\ server \in {"open", "closing", "draining", "stopped"} /\ awaited \subseteq Outer
    /\ modules \in [Files -> {"absent", "loading", "loaded", "failed"}]
    /\ fails \in [Files -> 0 .. MaxBroken] /\ broken \in 0 .. MaxBroken
    /\ req \in [Requests -> Request]
    /\ \A r \in Requests :
          /\ req[r].out \in {"piping", "ended"} => req[r].wire # NoHead
          /\ Len(req[r].work) <= MaxWork[r]

Init ==
    /\ server = "open" /\ awaited = {} /\ broken = 0
    /\ modules = [f \in Files |-> "absent"] /\ fails = [f \in Files |-> 0]
    /\ \E asks \in Scenarios : req = [r \in Requests |-> [Fresh EXCEPT !.asks = asks[r]]]

Set(r, new) == req' = [req EXCEPT ![r] = new]
In(r, phase) == req[r].phase = phase
Enter(r, phase) == Set(r, [req[r] EXCEPT !.phase = phase])
Breaks == broken < MaxBroken /\ broken' = broken + 1
-----------------------------------------------------------------------------
(* The response stream and its sink. *)

DestroyedQuietly(q) ==
    [q EXCEPT !.out = "destroyed", !.settled = IF q.wire # NoHead THEN TRUE ELSE @]
\* res.destroy(): the pipeline fails, or, before the head, "close" is all there is.
Destroyed(q) == [q EXCEPT !.out = "destroyed", !.settled = TRUE]

\* What NodeResponseSink sends in place of a head that Node refuses to.
FailedHead == [NoHead EXCEPT !.status = 500, !.cache = "no-store"]

\* The head goes out once, with the first byte or with the end.
Begun(q, head, by) ==
    IF q.out # "unsent" THEN q
    ELSE IF q.refuses THEN [Destroyed(q) EXCEPT !.wire = FailedHead]
    ELSE [q EXCEPT !.out = "piping", !.wire = [head EXCEPT !.by = by]]
EndedHeadless(q, head, by) == [q EXCEPT !.out = IF @ = "destroyed" THEN @ ELSE "ended"]
Ended(q, head, by) ==
    [Begun(q, head, by) EXCEPT !.out = IF @ = "piping" THEN "ended" ELSE @]
Finish(r, head, by) ==
    Set(r, [Ended(req[r], head, by) EXCEPT !.phase = "finish", !.head = head])

HeadersSent(r) == req[r].wire # NoHead
Delivered(r) ==
    /\ req[r].out = "ended" /\ ~req[r].settled
    /\ Set(r, [req[r] EXCEPT !.settled = TRUE, !.client = "served"])
    /\ UNCHANGED <<process, loader, broken>>

\* clientAbortSignal: before or after the head, while the handler runs or since.
ClientLeaves(r) ==
    /\ r \in Outer /\ req[r].client = "here" /\ Breaks
    /\ Set(r, [Destroyed(req[r]) EXCEPT !.client = "gone"])
    /\ UNCHANGED <<process, loader>>
-----------------------------------------------------------------------------
(* Loading modules. *)

\* registry.load(f), by a request that is then as `q` is: a load under way is shared.
Load(r, f, q) ==
    /\ modules' = [modules EXCEPT ![f] = IF @ = "absent" THEN "loading" ELSE @]
    /\ Set(r, [q EXCEPT !.phase = "load", !.file = f,
                        !.told = IF modules[f] \in {"loaded", "failed"} THEN modules[f] ELSE "waiting"])

KeptFailure == "failed"
\* A failed load is evicted as it fails, ahead of those who wait for it.
AfterFailure == "absent"

LoadEnds(f, outcome) ==
    /\ modules[f] = "loading"
    /\ IF outcome = "failed" THEN Breaks ELSE UNCHANGED broken
    /\ fails' = [fails EXCEPT ![f] = IF outcome = "failed" THEN @ + 1 ELSE @]
    /\ modules' = [modules EXCEPT ![f] = IF outcome = "failed" THEN AfterFailure ELSE outcome]
    /\ req' = [r \in Requests |->
                  IF In(r, "load") /\ req[r].file = f /\ req[r].told = "waiting"
                  THEN [req[r] EXCEPT !.told = outcome] ELSE req[r]]
    /\ UNCHANGED process

\* sendError's last rung: plain text.
Fallback(r) ==
    Finish(r, [req[r].head EXCEPT !.status = 500, !.cache = "no-store", !.describes = "none"], "none")

\* A handler starts; sooner or later it sets the headers of the body it is going to
\* send. Next keeps a Cache-Control that is set.
Described(r) == [req[r].head EXCEPT !.describes = req[r].file,
                                    !.cache = IF @ = "none" THEN "public" ELSE @]
Loaded(r) ==
    /\ In(r, "load") /\ req[r].told # "waiting"
    /\ \/ req[r].told = "loaded" /\ Enter(r, "render")
       \/ req[r].told = "loaded" /\ Set(r, [req[r] EXCEPT !.phase = "render", !.head = Described(r)])
       \/ req[r].told = "failed" /\ req[r].file # "errorPage" /\ Enter(r, "error")
       \/ req[r].told = "failed" /\ req[r].file = "errorPage" /\ Fallback(r)
    /\ UNCHANGED <<process, loader, broken>>
-----------------------------------------------------------------------------
(* Routing, and the answers that need no handler. *)

\* A connection already open may carry another request after server.close.
Arrive(r) ==
    /\ r \in Outer /\ In(r, "idle") /\ req[r].asks # {}
    /\ \/ server = "open"
       \/ server = "closing" /\ \E o \in Outer : req[o].client = "here"
    /\ \E refuses \in BOOLEAN :
          /\ IF refuses THEN Breaks ELSE UNCHANGED broken
          /\ Set(r, [req[r] EXCEPT !.phase = "route", !.client = "here", !.refuses = refuses,
                                   !.seen = fails])
    /\ UNCHANGED <<process, loader>>

For(r, target) == In(r, "route") /\ target \in req[r].asks

\* A redirect (of repeated slashes too), a file, a 405, a status of a rule.
AnswerAtOnce(r) ==
    /\ For(r, "at once")
    /\ \E status \in {200, 308} : Finish(r, [req[r].head EXCEPT !.status = status], "none")
    /\ UNCHANGED <<process, loader, broken>>

\* In place of whatever the matched rule put there: a missing build asset is immutable.
UnmatchedHead(head) == [head EXCEPT !.status = 404, !.cache = "no-store"]

\* Plain text or a prerendered page, or the app's own not-found page.
SendUnmatched(r, head, target) ==
    \/ /\ Set(r, [Ended(req[r], UnmatchedHead(head), "none")
                     EXCEPT !.phase = "finish", !.target = target, !.head = UnmatchedHead(head)])
       /\ UNCHANGED modules
    \/ Load(r, "notFound", [req[r] EXCEPT !.target = target, !.head = UnmatchedHead(head)])

Unmatched(r) ==
    /\ For(r, "unmatched")
    /\ \E cache \in {"none", "public"} :
          SendUnmatched(r, [req[r].head EXCEPT !.cache = cache], "unmatched")
    /\ UNCHANGED <<process, fails, broken>>

Match(r) ==
    /\ \E f \in {"page", "api"} : For(r, f) /\ Load(r, f, [req[r] EXCEPT !.target = f])
    /\ UNCHANGED <<process, fails, broken>>

\* RouteInOtherGroupError: the canonical spelling if the case is all that differs.
MatchForeign(r) ==
    /\ For(r, "foreign")
    /\ \/ Finish(r, [req[r].head EXCEPT !.status = 308], "none") /\ UNCHANGED modules
       \/ SendUnmatched(r, req[r].head, "foreign")
    /\ UNCHANGED <<process, fails, broken>>

MatchStream(r) ==
    /\ For(r, "stream") /\ Set(r, [req[r] EXCEPT !.phase = "stream", !.target = "stream"])
    /\ UNCHANGED <<process, loader, broken>>
StreamEnds(r) ==
    /\ In(r, "stream")
    /\ Finish(r, [req[r].head EXCEPT !.cache = "public"], "none")
    /\ UNCHANGED <<process, loader, broken>>
-----------------------------------------------------------------------------
(* A handler at work. *)

Rendering(r) == In(r, "render")
Pending(r) == \E i \in DOMAIN req[r].work : req[r].work[i] = "pending"

\* waitUntil, by the middleware, an image's deferred write, the handler or work that
\* one of them registered.
Register(r) ==
    /\ In(r, "route") \/ Rendering(r) \/ Pending(r)
    /\ Len(req[r].work) < MaxWork[r]
    /\ Set(r, [req[r] EXCEPT !.work = Append(@, "pending")])
    /\ UNCHANGED <<process, loader, broken>>
WorkEnds(r) ==
    /\ \E i \in DOMAIN req[r].work :
          req[r].work[i] = "pending" /\ Set(r, [req[r] EXCEPT !.work = [@ EXCEPT ![i] = "settled"]])
    /\ UNCHANGED <<process, loader, broken>>

Flush(r) ==
    /\ Rendering(r) \/ In(r, "stream")
    /\ req[r].out = "unsent"
    /\ Set(r, Begun(req[r], req[r].head, req[r].file))
    /\ UNCHANGED <<process, loader, broken>>

\* A Pages API route ends its own response, now or later.
Returns(r) ==
    /\ Rendering(r)
    /\ IF req[r].file = "api" THEN Enter(r, "finish")
       ELSE Finish(r, req[r].head, req[r].file)
    /\ UNCHANGED <<process, loader, broken>>
ApiEnds(r) ==
    /\ req[r].file = "api" /\ req[r].phase \in {"render", "finish"}
    /\ req[r].out \in {"unsent", "piping"}
    /\ Set(r, Ended(req[r], req[r].head, "api"))
    /\ UNCHANGED <<process, loader, broken>>

\* render404: before a byte is sent, in place of the page.
Render404(r) ==
    /\ Rendering(r) /\ req[r].file = "page"
    /\ req[r].out = "unsent" /\ req[r].head.describes = "none"
    /\ Load(r, "notFound", [req[r] EXCEPT !.head = [@ EXCEPT !.status = 404]])
    /\ UNCHANGED <<process, fails, broken>>

\* Dispatch or the middleware, an upstream, a handler.
Throws(r) ==
    /\ req[r].phase \in {"route", "stream", "render"} /\ Breaks
    /\ IF req[r].file # "errorPage" THEN Enter(r, "error")
       ELSE IF HeadersSent(r) THEN Set(r, [Destroyed(req[r]) EXCEPT !.phase = "finish"])
       ELSE Fallback(r)
    /\ UNCHANGED <<process, loader>>

KeptLength(head) == [head EXCEPT !.status = 500, !.cache = "no-store"]
\* Nothing of the render that threw may describe the body of the error page.
ErrorHead(head) == [head EXCEPT !.status = 500, !.cache = "no-store", !.describes = "none"]
SendError(r) ==
    /\ In(r, "error")
    /\ \/ /\ HeadersSent(r)
          /\ Set(r, [Destroyed(req[r]) EXCEPT !.phase = "finish"]) /\ UNCHANGED modules
       \/ ~HeadersSent(r) /\ Load(r, "errorPage", [req[r] EXCEPT !.head = ErrorHead(@)])
       \/ ~HeadersSent(r) /\ Finish(r, ErrorHead(req[r].head), "none") /\ UNCHANGED modules
    /\ UNCHANGED <<process, fails, broken>>
-----------------------------------------------------------------------------
(* res.revalidate(): a request of its own, whose head is all that is kept. *)

Revalidate(r, i) ==
    /\ Rendering(r) /\ req[r].file = "api" /\ i \in Inner /\ In(i, "idle") /\ req[i].asks # {}
    /\ \E only \in BOOLEAN :
          req' = [req EXCEPT ![r].phase = "revalidate",
                             ![i] = [@ EXCEPT !.phase = "route", !.caller = r, !.only = only,
                                              !.seen = fails]]
    /\ UNCHANGED <<process, loader, broken>>

AcceptsAnyGroup(i, said) ==
    said \/ req[i].wire.status \in {200} \cup (IF req[i].only THEN {404} ELSE {})
\* The other group's page is a 404 too, which unstable_onlyGenerated would accept.
Accepts(i, said) ==
    /\ req[i].target # "foreign"
    /\ said \/ req[i].wire.status \in {200} \cup (IF req[i].only THEN {404} ELSE {})

\* The page's handler may have said x-nextjs-cache: REVALIDATED, which nothing removes.
Revalidated(r, i) ==
    /\ In(r, "revalidate") /\ req[i].caller = r /\ In(i, "done") /\ i \notin req[r].accepted
    /\ \E said \in BOOLEAN :
          /\ said => req[i].target = "page" /\ HeadersSent(i)
          /\ IF Accepts(i, said) THEN Set(r, [req[r] EXCEPT !.phase = "render", !.accepted = @ \cup {i}])
                                 ELSE Enter(r, "error")
    /\ UNCHANGED <<process, loader, broken>>
-----------------------------------------------------------------------------
(* The end of handle, and of the process. *)

AwaitedOnce(r, registered) == IF registered > 0 /\ In(r, "finish") THEN "drain" ELSE "done"
\* Work that settles may have registered more.
NextPhase(r, registered) == IF registered > req[r].drained THEN "drain" ELSE "done"
Drain(r) ==
    /\ (In(r, "finish") /\ req[r].settled) \/ In(r, "drain")
    /\ \A i \in 1 .. req[r].drained : req[r].work[i] = "settled"
    /\ Set(r, [req[r] EXCEPT !.phase = NextPhase(r, Len(req[r].work)), !.drained = Len(req[r].work)])
    /\ UNCHANGED <<process, loader, broken>>

Sigterm == server = "open" /\ server' = "closing" /\ UNCHANGED <<awaited, loader, broken, req>>

\* server.close calls back when the last connection is gone.
InFlight == {r \in Outer : ~In(r, "idle") /\ ~In(r, "done")}
NobodyAwaited == {r \in InFlight : req[r].client = "here"}
Awaited == InFlight
Closed ==
    /\ server = "closing" /\ \A r \in Outer : req[r].client # "here"
    /\ server' = "draining" /\ awaited' = Awaited
    /\ UNCHANGED <<loader, broken, req>>
Exit ==
    /\ server = "draining" /\ \A r \in awaited : In(r, "done")
    /\ server' = "stopped" /\ UNCHANGED <<awaited, loader, broken, req>>

\* What the runtime and the handlers do of themselves.
Step(r) ==
    \/ AnswerAtOnce(r) \/ Unmatched(r) \/ Match(r) \/ MatchForeign(r) \/ MatchStream(r)
    \/ Loaded(r) \/ Register(r) \/ WorkEnds(r) \/ Flush(r) \/ Returns(r) \/ ApiEnds(r)
    \/ Render404(r) \/ StreamEnds(r) \/ Throws(r) \/ SendError(r)
    \/ \E i \in Inner : Revalidate(r, i) \/ Revalidated(r, i)
    \/ Delivered(r) \/ Drain(r)
LoadStep == \E f \in Files : LoadEnds(f, "loaded") \/ LoadEnds(f, "failed")

Next ==
    \/ \E r \in Requests : Arrive(r) \/ Step(r) \/ ClientLeaves(r)
    \/ LoadStep
    \/ Sigterm \/ Closed \/ Exit

\* The event loop runs what is ready; handlers, upstreams and loads come to an end.
Fairness == WF_vars(LoadStep \/ \E r \in Requests : Step(r))
Spec == Init /\ [][Next]_vars /\ Fairness
-----------------------------------------------------------------------------
(* Properties. *)

\* Whatever the client, the sink, the modules and the handlers do, handle resolves:
\* a request left hanging keeps its Lambda running or its container from stopping
\* (core.ts, NextjsRuntime.handle; sink.ts, pipeToSink).
AlwaysEnds == []<>(InFlight = {})

\* When it has resolved, all the work registered with waitUntil has settled, that
\* of work which was itself registered late too (core.ts:251).
NothingAbandoned == \A r \in Requests : In(r, "done") => ~Pending(r)

\* An error, and the 404 of what nothing serves, is never left to be cached, and no
\* length or tag of a body that was given up goes out with another body (sendError,
\* sendUnmatched).
ErrorsAreTheirOwn == \A r \in Requests :
    LET wire == req[r].wire
    IN  /\ wire.describes \in {"none", wire.by}
        /\ wire.status = 500 => wire.cache = "no-store"
        /\ wire.status = 404 /\ req[r].target \in {"unmatched", "foreign"} => wire.cache = "no-store"

\* A request is failed only by a load that failed since it arrived, never by one that
\* failed before it and was kept (entrypoints.ts, load).
FailureIsFresh == \A r \in Requests :
    In(r, "load") /\ req[r].told = "failed" => fails[req[r].file] > req[r].seen[req[r].file]

\* What a handler is told was revalidated is a page of its own group, whose render
\* has come to an end with everything it registered (core.ts, revalidate).
AcceptedIsCommitted == \A r \in Requests : \A i \in req[r].accepted :
    /\ In(i, "done") /\ ~Pending(i)
    /\ req[i].target # "foreign"

\* The container exits when no request it took is under way, its waitUntil work
\* included (node-server.ts, shutdown).
StopsClean == server = "stopped" => InFlight = {}

\* Registered work is abandoned neither by an answer nor by a shutdown; and every
\* variable stays within its type.
WorkIsDone == TypeOK /\ NothingAbandoned /\ StopsClean

\* An answer is this request's alone: nothing of what failed earlier is in it, neither a
\* header nor a failed load, and a page another group owns is no success of a revalidation
\* (sendError, loadModule, revalidate).
NothingInherited == ErrorsAreTheirOwn /\ AcceptedIsCommitted /\ FailureIsFresh
=============================================================================
