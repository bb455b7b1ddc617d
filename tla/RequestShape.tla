------------------------------ MODULE RequestShape ------------------------------
(***************************************************************************)
(* What becomes of a viewer's request on its way to NextjsRuntime.handle   *)
(* (src/runtime/core.ts): through CloudFront's function, an API Gateway or *)
(* Function URL event (src/runtime/lambda-event.ts, api-gateway-path.ts)   *)
(* or a node:http request (src/runtime/http/node-server.ts), and on to     *)
(* another origin. A path is its slashes, backslashes and names; a query   *)
(* its decoded pairs; the values of a header are those that matter.        *)
(***************************************************************************)
EXTENDS Integers, SequencesExt

CONSTANTS
    Deployments, \* each: its type, the app's basePath, what API Gateway strips, and
                 \* whether its Function URL wants requests signed
    Viewers      \* what viewers send

Unset == "unset"
Names == {"host", "x-forwarded-host", "x-forwarded-proto", "cloudfront-forwarded-proto",
          "authorization", "x-nextjs-data", "next-resume"}
Without(headers, names) == [n \in Names |-> IF n \in names THEN Unset ELSE headers[n]]

-----------------------------------------------------------------------------
(* Paths. *)

\* Mutant: whatever begins with it.
BeginsWith(path, prefix) == prefix # <<>> /\ IsPrefix(prefix, path)
\* "" is the prefix of none, and /docs not of /docsearch, or of /docs\a.
HasPathPrefix(path, prefix) == prefix # <<>> /\ (path = prefix \/ IsPrefix(prefix \o <<"/">>, path))
Beneath(path, prefix) ==
    LET rest == SubSeq(path, Len(prefix) + 1, Len(path)) IN IF rest = <<>> THEN <<"/">> ELSE rest

OneSlash(path) == FoldLeft(LAMBDA done, c : IF c = "/" /\ done # <<>> /\ Last(done) = "/" THEN done ELSE Append(done, c),
                           <<>>, path)
\* As normalizeRepeatedSlashes of Next.js does it.
CollapseRepeatedSlashes(path) == OneSlash(ReplaceAll(path, "\\", "/"))

\* API Gateway's event.path, beneath what it strips, against requestContext.path.
WithRepeatedSlashes(unstripped, path) ==
    LET after == {i \in DOMAIN unstripped :
                     unstripped[i] = "/" /\ \A j \in 1 .. i - 1 : unstripped[j] = "/" => unstripped[j + 1] # "/"}
        suffixes == {SubSeq(unstripped, i, Len(unstripped)) : i \in after}
        matching == {s \in suffixes : OneSlash(s) = path}
    IN  IF matching = {} THEN path ELSE CHOOSE s \in matching : \A t \in matching : Len(t) <= Len(s)
ApiGatewayRequestPath(event, base) ==
    IF HasPathPrefix(event.unstripped, base) THEN event.unstripped
    ELSE WithRepeatedSlashes(event.unstripped, event.path)

-----------------------------------------------------------------------------
(* Queries and cookies. *)

\* As events have them, by name.
Keys(query) == FoldLeft(LAMBDA done, pair : IF pair[1] \in ToSet(done) THEN done ELSE Append(done, pair[1]), <<>>, query)
ValuesOf(query, name) == SelectSeq(query, LAMBDA pair : pair[1] = name)
\* Mutant: from queryStringParameters.
LastValues(query) == FlattenSeq([i \in DOMAIN Keys(query) |-> <<Last(ValuesOf(query, Keys(query)[i]))>>])
FormatQuery(query) == FlattenSeq([i \in DOMAIN Keys(query) |-> ValuesOf(query, Keys(query)[i])])

-----------------------------------------------------------------------------
(* What is ahead of a shell. *)

\* X_FORWARDED_HOST_HANDLER: a redirect, or the viewer's host by another name.
ViewerRequest(v) ==
    IF CollapseRepeatedSlashes(v.path) # v.path
    THEN [redirect |-> TRUE, path |-> CollapseRepeatedSlashes(v.path), query |-> FormatQuery(v.query)]
    ELSE [redirect |-> FALSE, headers |-> [v.headers EXCEPT !["x-forwarded-host"] = v.headers["host"]]]

\* CloudFront in front of a Function URL, which it names as the host and signs for.
FunctionUrlEvent(d, v) ==
    [path |-> v.path, query |-> v.query, cookies |-> FlattenSeq(v.cookies), body |-> v.body, iam |-> d.signed,
     headers |-> [ViewerRequest(v).headers EXCEPT
         !["host"] = "function url", !["x-forwarded-proto"] = "https", !["cloudfront-forwarded-proto"] = Unset,
         !["authorization"] = IF d.signed THEN "signature" ELSE @]]
\* API Gateway, which normalizes only what it has stripped.
RestEvent(d, v) ==
    [unstripped |-> v.path, path |-> OneSlash(Beneath(v.path, d.stripped)), query |-> FormatQuery(v.query),
     cookies |-> v.cookies, body |-> v.body, headers |-> [v.headers EXCEPT !["x-forwarded-proto"] = "https"]]
\* A load balancer, which CloudFront reaches over plain HTTP.
NodeRequest(d, v) ==
    [path |-> v.path, query |-> v.query, cookies |-> FlattenSeq(v.cookies), method |-> v.method, body |-> v.body,
     headers |-> IF d.type = "REGIONAL_CONTAINERS" THEN [v.headers EXCEPT !["x-forwarded-proto"] = v.proto]
                 ELSE [v.headers EXCEPT !["x-forwarded-proto"] = "http", !["cloudfront-forwarded-proto"] = v.proto]]

-----------------------------------------------------------------------------
(* The shells. *)

RuntimeRequest(path, query, cookies, headers, body, trusted, encrypted) ==
    [path |-> path, query |-> query, cookies |-> cookies, headers |-> headers, body |-> body,
     trustForwardedHost |-> trusted, encrypted |-> encrypted]

\* Mutant: of any Function URL.
TrustsAny(event) == TRUE
IsIamAuthenticated(event) == event.iam
FromFunctionUrl(event) ==
    RuntimeRequest(event.path, event.query, event.cookies, event.headers, event.body,
                   IsIamAuthenticated(event), TRUE)
\* Two Cookie headers are one.
FromApiGateway(event, base) ==
    RuntimeRequest(ApiGatewayRequestPath(event, base), FormatQuery(event.query), FlattenSeq(event.cookies),
                   event.headers, event.body, FALSE, TRUE)

HasRequestBody(req) == req.method # "GET" /\ req.body
ViewerHeaders(headers, trustCloudFrontProto) ==
    IF trustCloudFrontProto /\ headers["cloudfront-forwarded-proto"] # Unset
    THEN [headers EXCEPT !["x-forwarded-proto"] = headers["cloudfront-forwarded-proto"]] ELSE headers
Serve(d, req) ==
    RuntimeRequest(req.path, req.query, req.cookies, ViewerHeaders(req.headers, d.type = "GLOBAL_CONTAINERS"),
                   HasRequestBody(req), FALSE, FALSE)

ToRuntimeRequest(d, v) ==
    CASE d.type = "GLOBAL_FUNCTIONS" -> FromFunctionUrl(FunctionUrlEvent(d, v))
      [] d.type = "REGIONAL_FUNCTIONS" -> FromApiGateway(RestEvent(d, v), d.base)
      [] OTHER -> Serve(d, NodeRequest(d, v))

-----------------------------------------------------------------------------
(* NextjsRuntime.handle. *)

InternalHeaders == {"x-nextjs-data", "next-resume"}
\* Mutant: the client's are kept for a data request.
WithItsHeaders(headers, path, base) == headers
WithoutInternalHeaders(headers, path, base) ==
    LET beneath == IF HasPathPrefix(path, base) THEN Beneath(path, base) ELSE path
        data == IsPrefix(<<"/", "_next", "/", "data", "/">>, beneath) /\ Last(beneath) = "a.json"
    IN  [Without(headers, InternalHeaders) EXCEPT !["x-nextjs-data"] = IF data THEN "1" ELSE Unset]

ValidAuthority(value) == IF value = "not a host" THEN Unset ELSE value
AbsoluteUrl(request) ==
    LET forwarded == IF request.trustForwardedHost THEN ValidAuthority(request.headers["x-forwarded-host"]) ELSE Unset
        host == ValidAuthority(request.headers["host"])
        proto == request.headers["x-forwarded-proto"]
    IN  [host |-> IF forwarded # Unset THEN forwarded ELSE IF host # Unset THEN host ELSE "localhost",
         proto |-> IF proto \in {"http", "https"} THEN proto ELSE IF request.encrypted THEN "https" ELSE "http"]

\* What proxyExternal sends on, of the headers.
DroppedHeaders(request) == {"host"} \cup IF request.trustForwardedHost THEN {"authorization"} ELSE {}

Handle(d, request) ==
    IF CollapseRepeatedSlashes(request.path) # request.path
    THEN [redirect |-> TRUE, path |-> CollapseRepeatedSlashes(request.path), query |-> request.query]
    ELSE [redirect |-> FALSE, path |-> request.path, query |-> request.query, cookies |-> request.cookies,
          headers |-> WithoutInternalHeaders(request.headers, request.path, d.base),
          url |-> AbsoluteUrl(request), body |-> request.body,
          proxied |-> Without(WithoutInternalHeaders(request.headers, request.path, d.base), DroppedHeaders(request))]

Answer(d, v) ==
    IF d.type = "GLOBAL_FUNCTIONS" /\ ViewerRequest(v).redirect THEN ViewerRequest(v)
    ELSE Handle(d, ToRuntimeRequest(d, v))
\* A redirect is followed.
Followed(d, v) ==
    LET first == Answer(d, v)
    IN  IF first.redirect THEN Answer(d, [v EXCEPT !.path = first.path, !.query = first.query]) ELSE first

-----------------------------------------------------------------------------
(* Properties. *)

\* A stage, or a mapping, that the app does not know of is not in its redirects.
Strays(d, v) == d.stripped # <<>> /\ ~HasPathPrefix(v.path, d.base) /\ CollapseRepeatedSlashes(v.path) # v.path

\* Whatever is between them, Next.js gets the request a viewer sent, after one redirect
\* if it repeats a slash: its path, whole if the app has the prefix that is stripped, each name's
\* values in their order, every cookie; an origin no header of the client's names, where
\* the deployment's own hop does not; none of Next.js's internal headers but the one
\* that says what the path says; and no signature goes to another origin
\* (toRuntimeRequest, absoluteUrl, proxyExternal).
RequestAsSent(d, v) ==
    ~Strays(d, v) =>
    LET seen == Followed(d, v)
        path == CollapseRepeatedSlashes(v.path)
        covers == d.base # <<>> /\ (path = d.base \/ IsPrefix(d.base \o <<"/">>, path))
        whole == d.stripped = <<>> \/ covers
        data == \E prefix \in {<<>>, d.base} : seen.path = prefix \o <<"/", "_next", "/", "data", "/", "id", "/", "a.json">>
    IN  /\ ~seen.redirect /\ (Answer(d, v).redirect <=> path # v.path)
        /\ seen.path = IF whole THEN path ELSE Beneath(path, d.stripped)
        /\ \A name \in ToSet(Keys(v.query)) \cup ToSet(Keys(seen.query)) :
              ValuesOf(seen.query, name) = ValuesOf(v.query, name)
        /\ seen.cookies = FlattenSeq(v.cookies)
        /\ seen.headers["next-resume"] = Unset /\ (seen.headers["x-nextjs-data"] # Unset <=> data)
        /\ seen.url = [proto |-> v.proto,
                       host |-> IF d.type = "GLOBAL_FUNCTIONS" /\ ~d.signed THEN "function url"
                                ELSE IF v.headers["host"] = "not a host" THEN "localhost" ELSE v.headers["host"]]
        /\ v.method # "GET" => seen.body = v.body
        /\ seen.proxied["authorization"] =
              IF d.type = "GLOBAL_FUNCTIONS" /\ d.signed THEN Unset ELSE v.headers["authorization"]
=================================================================================
