------------------------------- MODULE ViewerFunctions -------------------------------
(***************************************************************************)
(* What CloudFront does around an origin, by behavior: the functions it    *)
(* runs on a viewer's request, cdk-nextjs's and the user's                 *)
(* `viewerRequestFunctionCode` in one, the headers it adds and what it     *)
(* caches by (src/nextjs-distribution.ts,                                  *)
(* src/utils/viewer-request-functions.ts, src/utils/cache-keys.ts).        *)
(***************************************************************************)
EXTENDS Integers, Sequences, FiniteSets, FiniteSetsExt

\* A distribution, `d`: whether its origins are functions; what it has besides the app's
\* files and pages; the user's code, if any; the events that the overrides of behaviors
\* associate functions with; whether the default behavior is overridden, the distribution
\* brought; the static response headers policy, or what is added to it; the TTLs given,
\* Unset ones among them.
Unset == -1
Kinds(d) == {"static", "public", "image", "default"} \cup d.besides  \* workers, cdn, group, base
Dynamic == {"default", "group", "base"}
Overridden(d, kind) == d.events[IF kind \in Dynamic THEN "dynamic" ELSE IF kind = "image" THEN "image" ELSE "static"]
\* The default behavior is the user's.
Theirs(d, kind) == kind = "default" /\ (d.ownDefault \/ d.brought)

-----------------------------------------------------------------------------
(* The functions. *)

\* createDynamicCloudFrontFunctionAssociations, addAssetPrefixBehavior,
\* getPassThroughFunction: what cdk-nextjs's own function of a behavior is for.
Ours(d, kind) ==
    CASE Theirs(d, kind) -> "none"
      [] kind \in Dynamic \cup {"image"} /\ d.functions -> "host"
      [] kind = "cdn" -> "rewrite"
      [] OTHER -> IF d.code.there THEN "pass" ELSE "none"

\* assertViewerRequestUnclaimed
Claimed(d, kind) == Ours(d, kind) # "none" /\ "request" \in Overridden(d, kind)

Sizes == [host |-> 2, rewrite |-> 1, pass |-> 1, none |-> 0]
Limit == 4
\* checkFunctionCodeSize
TooLong(d, kind) == d.code.there /\ d.code.size + Sizes[Ours(d, kind)] > Limit

\* checkViewerRequestCode
Unusable(d) == d.code.there /\ (~d.code.entry \/ d.code.handler)
\* getDistribution: the user's default behavior would leave the code out.
LosesCode(d) == d.code.there /\ d.ownDefault /\ "base" \notin d.besides /\ ~d.brought

Refused(d) ==
    \/ d.keyValueStore /\ ~d.code.there
    \/ Unusable(d) \/ LosesCode(d)
    \/ \E kind \in Kinds(d) : Claimed(d, kind) \/ TooLong(d, kind)

On(event, function) == [event |-> event, function |-> function]
OurAssociation(d, kind) == IF Ours(d, kind) = "none" THEN {} ELSE {On("request", Ours(d, kind))}
\* Mutants: an override replaces what is there; the pass-through function stays beside the rewrite.
OverrideReplaces(d, kind) ==
    IF Overridden(d, kind) # {} THEN {On(e, "override") : e \in Overridden(d, kind)} ELSE OurAssociation(d, kind)
PassesToo(d, kind) ==
    {On(e, "override") : e \in Overridden(d, kind)} \cup OurAssociation(d, kind)
    \cup (IF kind = "cdn" /\ d.code.there THEN {On("request", "pass")} ELSE {})
\* withDynamicFunctionAssociations
Associations(d, kind) ==
    IF Theirs(d, kind) THEN {} ELSE {On(e, "override") : e \in Overridden(d, kind)} \cup OurAssociation(d, kind)

Goes(request) == [answered |-> FALSE, request |-> request]
Answered == [answered |-> TRUE, request |-> [path |-> <<>>, host |-> "none", forwarded |-> "none"]]
\* What the user's code does: it answers, or it leaves the request, changed or not.
Verdicts == {"answers", "moves", "forwards", "leaves"}
UsersCode(verdict, request) ==
    CASE verdict = "answers" -> Answered
      [] verdict = "moves" -> Goes([request EXCEPT !.path = <<"moved">>])
      [] verdict = "forwards" -> Goes([request EXCEPT !.forwarded = "another"])
      [] OTHER -> Goes(request)
Handler(function, request) ==
    CASE function = "host" -> [request EXCEPT !.forwarded = request.host]
      [] function = "rewrite" -> [request EXCEPT !.path = <<"base">> \o request.path]
      [] OTHER -> request

\* Mutants: the user's code comes after; what it answers with is taken for a request.
RunAfter(d, function, verdict, request) ==
    IF d.code.there THEN UsersCode(verdict, Handler(function, request)) ELSE Goes(Handler(function, request))
RunsOn(d, function, verdict, request) == Goes(Handler(function, UsersCode(verdict, request).request))
\* spliceViewerRequest
Run(d, function, verdict, request) ==
    LET result == UsersCode(verdict, request)
    IN  IF ~d.code.there THEN Goes(Handler(function, request))
        ELSE IF result.answered THEN result ELSE Goes(Handler(function, result.request))

Viewed(d, kind, verdict, request) ==
    LET own == {a \in Associations(d, kind) : a.event = "request" /\ a.function # "override"}
    IN  IF own = {} THEN Goes(request) ELSE Run(d, (CHOOSE a \in own : TRUE).function, verdict, request)

-----------------------------------------------------------------------------
(* The headers. *)

Header(name, value) == [name |-> name, value |-> value]
Security == Header("security", "ours")
Allowed == Header("service-worker-allowed", "ours")
\* Mutants: what the policy has besides is lost; what it says of service workers is said twice.
WorkersAlone(d) == {Security, Allowed}
SaidTwice(d) == {Security, Allowed} \cup d.headers
\* addServiceWorkerBehavior
WorkerHeaders(d) ==
    {Security} \cup d.headers
    \cup (IF \E h \in d.headers : h.name = Allowed.name THEN {} ELSE {Allowed})
Headers(d, kind) ==
    IF d.ownPolicy THEN {Header("theirs", "theirs")}
    ELSE IF kind = "workers" THEN WorkerHeaders(d) ELSE {Security} \cup d.headers

-----------------------------------------------------------------------------
(* The dynamic cache. *)

\* Mutant: only the most is looked at.
ChecksMost(t) == t.max = 0
\* isCachingDisabled
IsCachingDisabled(t) == t.max = 0 /\ t.default \in {Unset, 0} /\ t.min \in {Unset, 0}
\* DYNAMIC_CACHE_KEY, DISABLED_CACHE_KEY
CacheKey(t) == IF IsCachingDisabled(t) THEN "nothing" ELSE "all a response varies by"

\* What CDK makes of the TTLs: each raised to the one below.
Or(ttl, else) == IF ttl = Unset THEN else ELSE ttl
LongestKept(t) == Max({Or(t.min, 0), Or(t.default, 0), Or(t.max, 365)})

-----------------------------------------------------------------------------
(* Property. *)

\* Of what synth does not refuse: no behavior has two functions of an event, and none of
\* an override's is lost. "run first on every viewer request, static assets included":
\* the user's code runs in every behavior of the app, and answers instead of any origin;
\* else the URI is the object's under an assetPrefix, and a function, which trusts it, gets
\* the viewer's Host as X-Forwarded-Host, whatever was there. A service worker's scope is
\* said once, in the static policy. And only a policy that keeps nothing has no key.
EdgeRunsAll(d) == ~Refused(d) =>
    /\ \A kind \in Kinds(d) : ~Theirs(d, kind) =>
          /\ \A a, b \in Associations(d, kind) : a.event = b.event => a = b
          /\ {On(e, "override") : e \in Overridden(d, kind)} \subseteq Associations(d, kind)
          /\ \A verdict \in Verdicts :
                LET request == [path |-> <<"asked">>, host |-> "viewer's", forwarded |-> "another"]
                    result == Viewed(d, kind, verdict, request)
                IN  /\ result.answered <=> d.code.there /\ verdict = "answers"
                    /\ ~result.answered /\ kind = "cdn" =>
                          result.request.path = <<"base", IF d.code.there /\ verdict = "moves" THEN "moved" ELSE "asked">>
                    /\ ~result.answered /\ d.functions /\ kind \in Dynamic \cup {"image"} =>
                          result.request.forwarded = request.host
    /\ ~d.ownPolicy =>
          /\ Cardinality({h \in Headers(d, "workers") : h.name = Allowed.name}) = 1
          /\ Headers(d, "static") \subseteq Headers(d, "workers")
    /\ CacheKey(d.ttls) = "nothing" <=> LongestKept(d.ttls) = 0
======================================================================================
