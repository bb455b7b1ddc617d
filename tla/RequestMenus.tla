------------------------------ MODULE RequestMenus ------------------------------
(* The apps and the requests that run `request` gives the modules of its parts. *)
EXTENDS Routes

Pages == {<<>>, <<"a">>, <<"A">>, <<"a", "x">>, <<"A", "X">>, <<"x">>, Image, <<"404">>,
          <<"_next", "static", "[p].ext">>, <<"_next", "static", "%5Bp%5D.ext">>,
          <<"logo@.ext">>, <<"logo%40.ext">>, <<"x.ext">>, <<"y.ext">>, <<"a", "b", "x">>}
Chunk == <<"_next", "static", "[p].ext">>

EntryMenu == {{<<>>, <<"a">>, <<"a", "[p]">>}, {<<"[...c]">>}, {<<"[[...o]]">>, <<"x.ext">>},
              {<<"a", "[...c]">>, <<"[p]", "[p]">>, <<"_error">>}}
PublicMenu == {{<<"logo@.ext">>, <<"x.ext">>}, {Chunk, <<"x">>}}
Plain ==
    {[App(trailing, {}, NoLocale, {}, entries, {<<"404">>, <<"x">>, <<"y.ext">>}, {Chunk}, public)
         EXCEPT !.prefix = prefix, !.middleware = mw, !.to = to, !.images = images] :
       trailing \in BOOLEAN, entries \in EntryMenu, public \in PublicMenu,
       prefix \in {Nothing, <<"a">>}, images \in BOOLEAN,
       mw \in {"next", "respond", "rewrite"}, to \in {<<"a", "x">>, <<"x.ext">>}}

Locales == {"en", "fr", "nl"}
LocalizedPages == {p \in Pages : \A i \in DOMAIN p : p[i] # "A"} \ {<<"404">>}
Localized ==
    {App(trailing, Locales, "en", {"fr"},
         {<<l, "a">> : l \in Locales} \cup {<<l, "a", "[p]">> : l \in Locales} \cup {<<"_error">>},
         {<<l>> : l \in Locales} \cup {<<l, "404">> : l \in Locales},
         {Chunk}, {<<"logo@.ext">>, <<"a">>}) : trailing \in BOOLEAN}

\* A group has all that its pattern covers (FunctionGroups), and middleware stays in it.
DispatchApps ==
    {a \in Plain : a.prefix # Nothing => <<"a">> \in a.entries /\ a.middleware # "rewrite"} \cup Localized
DispatchAsked(a) ==
    IF a.locales = {} THEN {Ask(p, s, NoLocale, m) : p \in Pages, s \in BOOLEAN, m \in {"GET", "POST"}}
    ELSE {Ask(p, s, l, "GET") : p \in LocalizedPages \cup {<<l>> \o p : l \in {"fr", "nl"}, p \in LocalizedPages},
                                s \in BOOLEAN, l \in {"en", "nl"}}

\* For RouteParams: names that begin with one another, and segments with an encoded
\* slash or percent sign.
Id == <<"i", "d">>
ParamRoutes == {t \in {<<[name |-> Id, repeats |-> FALSE, optional |-> FALSE, kept |-> first],
                  [name |-> second, repeats |-> repeats, optional |-> optional, kept |-> kept]>> :
                first \in BOOLEAN, second \in {Id \o <<"2">>, <<"x">>}, repeats \in BOOLEAN,
                optional \in BOOLEAN, kept \in BOOLEAN} : t[2].optional => t[2].repeats}
ParamSegments == {<<"a">>, <<"a", "%2F", "b">>, <<"%25", "b">>, <<"2">>}

\* For ImageOptimizer.
ImageObjects == {"none", "image", "text", "large"}
ImageRoutes == {"image", "text", "large", "empty", "other group"}
ImageSources ==
    {[absolute |-> TRUE, bucket |-> FALSE, object |-> o, route |-> "none"] : o \in ImageObjects}
    \cup {[absolute |-> FALSE, bucket |-> b, object |-> o, route |-> r] :
             b \in BOOLEAN, o \in ImageObjects, r \in ImageRoutes}

\* For StaticServing: `a`, `100%`, and one that is another file's name once decoded.
FileNames == {<<"a">>, <<"100", "%">>, <<"a", "%", "20", "b">>}

\* For RequestShape: each deployment's base path, with what API Gateway strips.
Prod == <<"/", "prod">>
ShapeDeployments ==
    {[type |-> t, base |-> base, stripped |-> <<>>, signed |-> signed] :
        t \in {"GLOBAL_FUNCTIONS", "GLOBAL_CONTAINERS", "REGIONAL_CONTAINERS", "REGIONAL_FUNCTIONS"},
        base \in {<<>>, <<"/", "docs">>}, signed \in BOOLEAN}
    \cup {[type |-> "REGIONAL_FUNCTIONS", base |-> base, stripped |-> Prod, signed |-> FALSE] :
             base \in {<<>>, Prod, Prod \o <<"/", "docs">>}}
DataPath == <<"/", "_next", "/", "data", "/", "id", "/", "a.json">>
ShapePaths ==
    {<<"/">>, <<"/", "a", "/">>, <<"/", "a", "/", "a">>, <<"/", "/", "a", "/", "a">>, <<"/", "a", "\\", "/", "a">>,
     <<"/", "docs", "earch">>, <<"/", "docs", "/", "a">>, <<"/", "docs", "/", "/">>, <<"/", "docs", "\\", "a">>, DataPath,
     <<"/", "docs">> \o DataPath, <<"/", "a", "/", "prod", "/", "/", "a">>, <<"/", "docs", "/", "a", "/", "/", "docs">>}
Header(set) == set @@ [n \in {"host", "x-forwarded-host", "x-forwarded-proto", "cloudfront-forwarded-proto",
                              "authorization", "x-nextjs-data", "next-resume"} |-> IF n = "host" THEN "site" ELSE "unset"]
PlainViewer == [method |-> "GET", proto |-> "https", path |-> <<"/", "a">>, query |-> <<>>, cookies |-> <<>>,
                headers |-> Header(<<>>), body |-> FALSE]
ShapeQueries == {<<>>, <<<<"q", "1">>, <<"r", "1">>, <<"q", "2">>>>, <<<<"r", "2">>, <<"r", "1">>, <<"q", "1">>>>}
ShapeViewers ==
    {[PlainViewer EXCEPT !.path = path, !.query = query, !.cookies = cookies] :
        path \in ShapePaths, query \in ShapeQueries, cookies \in {<<<<"c">>>>, <<<<"c", "d">>, <<"e">>>>}}
    \cup {[PlainViewer EXCEPT !.path = path, !.method = method, !.body = body, !.proto = proto,
            !.headers = Header(("host" :> host) @@ ("x-forwarded-host" :> forwarded) @@ ("x-forwarded-proto" :> xproto)
                               @@ ("cloudfront-forwarded-proto" :> cproto) @@ ("authorization" :> auth)
                               @@ ("x-nextjs-data" :> internal) @@ ("next-resume" :> internal))] :
             path \in {<<"/", "a">>, DataPath}, method \in {"GET", "POST"}, body \in BOOLEAN, proto \in {"http", "https"},
             host \in {"site", "not a host"}, forwarded \in {"unset", "other", "not a host"},
             xproto \in {"unset", "http"}, cproto \in {"unset", "http"}, auth \in {"unset", "mine"},
             internal \in {"unset", "1"}}
\* CloudFront and API Gateway are asked over TLS by who names their host, or, where
\* there is a stage, somewhere under it.
ShapeAsked ==
    {asked \in ShapeDeployments \X ({PlainViewer} \cup ShapeViewers \cup
                {[v EXCEPT !.path = Prod \o @] : v \in {x \in ShapeViewers : x.cookies # <<>>}}) :
        /\ asked[1].type # "REGIONAL_CONTAINERS" => asked[2].proto = "https" /\ asked[2].headers["host"] = "site"
        /\ asked[1].signed => asked[1].type = "GLOBAL_FUNCTIONS"
        /\ asked[1].stripped # <<>> => IsPrefix(asked[1].stripped, asked[2].path)}

\* For ResponseShape: up to three calls, and writeHead; and bodies.
Pair(name, values) == [name |-> name, values |-> values]
HeaderCalls ==
    {[op |-> op, pairs |-> <<pair>>] : op \in {"set", "append"},
        pair \in {Pair("set-cookie", <<"a", "b">>), Pair("set-cookie", <<"">>), Pair("location", <<"1">>), Pair("location", <<"2", "3">>)}}
    \cup {[op |-> "remove", pairs |-> <<Pair("set-cookie", <<>>)>>],
          [op |-> "apply", pairs |-> <<Pair("set-cookie", <<"c">>), Pair("link", <<"1">>), Pair("set-cookie", <<"d">>)>>]}
HeadCalls == {<<>>, <<[op |-> "writeHead", pairs |-> <<Pair("link", <<"2">>), Pair("set-cookie", <<"e">>), Pair("link", <<"3">>)>>]>>}
ShapeCalls == {calls \o head : calls \in BoundedSeq(HeaderCalls, 3), head \in HeadCalls}

Said(coding, length, vary) ==
    [n \in {"set-cookie", "location", "vary", "link", "content-encoding", "content-length"} |->
        CASE n = "content-encoding" /\ coding # "identity" -> <<coding>>
          [] n = "content-length" -> length [] n = "vary" -> vary [] OTHER -> <<>>]
ShapeResponses ==
    {[status |-> status, coding |-> coding, said |-> Said(coding, length, vary), compressible |-> c, noTransform |-> n,
      chunks |-> chunks, web |-> web] :
        status \in {200, 204, 206, 304}, coding \in {"identity", "br"}, length \in {<<>>, <<"whole">>},
        vary \in {<<>>, <<"cookie", "accept-encoding">>}, c \in BOOLEAN, n \in BOOLEAN,
        chunks \in {<<>>, <<"x", "y">>}, web \in BOOLEAN}
Coding(name, q) == [name |-> name, q |-> q]
ShapeRequests ==
    {[method |-> method, accepts |-> accepts] : method \in {"GET", "HEAD"},
        accepts \in {<<>>, <<Coding("br", 1), Coding("gzip", 1)>>, <<Coding("gzip", 0), Coding("*", 1)>>,
                     <<Coding("*", 1), Coding("gzip", 0)>>, <<Coding("*", 1)>>, <<Coding("gzip", 1), Coding("*", 0)>>}}
ShapeSinks == {[compress |-> TRUE, pads |-> TRUE], [compress |-> TRUE, pads |-> FALSE], [compress |-> FALSE, pads |-> TRUE]}
PlainResponse == CHOOSE r \in ShapeResponses : r.status = 200 /\ ~r.web /\ r.said["vary"] = <<>> /\ r.coding = "identity"
ShapeAnswers ==
    {[calls |-> calls, response |-> PlainResponse, request |-> request, sink |-> sink] :
        calls \in ShapeCalls, request \in {CHOOSE r \in ShapeRequests : r.method = "GET"}, sink \in {CHOOSE s \in ShapeSinks : s.pads}}
    \cup {[calls |-> <<>>, response |-> response, request |-> request, sink |-> sink] :
             response \in ShapeResponses, request \in ShapeRequests, sink \in ShapeSinks}
=================================================================================
