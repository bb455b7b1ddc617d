-------------------------------- MODULE AppMenus --------------------------------
(* Small apps: with the ways to split them, for FunctionGroups; with their files, for *)
(* EdgeRouting.                                                                       *)
EXTENDS Routes, FiniteSetsExt

\* What `next build` refuses to have next to each other.
Clash(t, u) == t # <<>> /\ Kind(Last(t)) = 3
               /\ (u = Front(t) \/ (u # <<>> /\ Front(u) = Front(t) /\ Kind(Last(u)) = 2))
Apps(menu, most) == {app \in UNION {kSubset(k, menu) : k \in 1 .. most} : \A t, u \in app : ~Clash(t, u)}

SplitApp(entries) == [entries |-> entries, rules |-> {}]
Plain == {SplitApp({Entry(p, p, type) : p \in app}) : type \in {"app", "page"}, app \in
             Apps({<<>>, <<"a">>, <<"a", "b">>, <<"a", "[p]">>, <<"a", "[...c]">>, <<"a", "[[...o]]">>,
                   <<"b">>, <<"[p]">>, <<"[p]", "b">>, <<"[...c]">>, <<"[[...o]]">>}, 3)}

\* Root params: one file behind several templates.
Shared == {SplitApp({Entry(p, <<"s">>, "app") : p \in app} \cup {Entry(<<"a", "b">>, f, "app")}) :
              app \in Apps({<<"a">>, <<"b">>, <<"[p]">>, <<"a", "[p]">>}, 2), f \in {<<"s">>, <<"own">>}}

Interceptions == {Intercepting(<<"b", "a", "[p]">>, <<"i">>, "(..)", 2),
                  Intercepting(<<"b", "[p]", "b">>, <<"i">>, "(...)", 2),
                  Intercepting(<<"[p]">>, <<"i">>, "(.)", 1),
                  Intercepting(<<"b", "b", "a">>, <<"i">>, "(..)(..)", 3)}
Intercepted == {SplitApp({Entry(p, p, "app") : p \in app} \cup {i}) : i \in Interceptions, app \in
                   Apps({<<"a">>, <<"a", "b">>, <<"a", "[p]">>, <<"a", "[[...o]]">>, <<"b">>, <<"[p]">>}, 2)}

\* Before the files, after those that are no template, or after them all.
Rule(source, optional, destination, at) ==
    [source |-> source, optional |-> optional, destination |-> destination, at |-> at]
Rules == {Rule(<<"b">>, FALSE, <<"a">>, at) : at \in {"beforeFiles", "afterFiles", "fallback"}}
         \cup {Rule(<<"b", "[p]">>, TRUE, <<"a", "b">>, "beforeFiles"),
               Rule(<<"[p]">>, FALSE, <<"a">>, "beforeFiles"), Rule(<<"[p]">>, FALSE, <<"a">>, "fallback"),
               Rule(<<"a", "[p]">>, FALSE, <<"b">>, "afterFiles")}
Rewritten == {[entries |-> {Entry(p, p, "app") : p \in app}, rules |-> {rule}] : rule \in Rules, app \in
                 Apps({<<"a">>, <<"a", "b">>, <<"a", "[p]">>, <<"b">>, <<"[p]">>, <<"[...c]">>}, 3)}

SplitApps == Plain \cup Shared \cup Intercepted \cup Rewritten

\* Of the patterns that are worth a try, one, two of one group, and one of each of two.
One(r)    == <<[name |-> "g", routes |-> r]>>
Two(r, s) == <<[name |-> "g", routes |-> r], [name |-> "h", routes |-> s]>>
SplitsOf(entries) ==
    LET routes == {r \in {Exact(<<"a">>), Subtree(<<"a">>), Exact(<<"a", "b">>), Subtree(<<"a", "b">>),
                          Exact(<<"b">>)} : \E e \in entries : IsPrefix(r.path, e.path)}
    IN  {<<>>, One(<<Subtree(<<>>)>>)} \cup {One(<<r>>) : r \in routes}
        \cup {One(<<r, s>>) : r, s \in routes} \cup {Two(<<r>>, <<s>>) : r, s \in routes}
SplitLiterals == {"a", "b"}

-----------------------------------------------------------------------------
(* For EdgeRouting. A name of characters no pattern spells, one of some that are. *)

WideChars == {"e'"}
WideName == <<"e'">>
MixedName == <<"e'", "b">>
Name(letter) == <<letter>>
BuiltDir == <<<<"_next">>, <<"static">>>>
Chunk == Append(BuiltDir, <<"chunk">>)
Worker == BuiltDir \o <<<<"service-worker">>, Name("a")>>

\* Files and directories, of a plain name and of the others; one that is built too.
PublicMenu == {{}, {<<Name("a")>>, <<MixedName>>},
               {<<Name("a"), Name("b")>>, <<WideName>>, <<WideName, Name("a")>>},
               {Chunk, <<Name("b")>>}, {<<MixedName, Name("a")>>, <<Name("b")>>, Append(BuiltDir, Name("b"))}}
Routed(path, under, group) == [path |-> path, under |-> under, group |-> group]
GroupMenu == {<<>>, <<Routed(<<Name("b")>>, FALSE, "g")>>, <<Routed(<<WideName>>, TRUE, "g")>>,
              <<Routed(<<Name("b"), Name("a")>>, FALSE, "h"), Routed(<<Name("b"), Name("b")>>, TRUE, "h"),
                Routed(<<Name("b")>>, TRUE, "g")>>,
              <<Routed(<<Name("a"), Name("b")>>, TRUE, "g"), Routed(<<Name("a")>>, FALSE, "h")>>}
RoutedApps == [api : BOOLEAN, base : {<<>>, <<Name("a")>>, <<Name("b"), Name("a")>>},
               cdn : {<<>>, <<Name("a")>>, <<Name("b")>>}, public : PublicMenu,
               chunks : {{Chunk}, {Chunk, Worker}}, groups : GroupMenu, data : BOOLEAN]
PageNames == {Name("a"), Name("b"), Name("c"), MixedName, WideName, <<"_next">>}
RoutedPages == UNION {[1 .. n -> PageNames] : n \in 0 .. 2} \cup [1 .. 3 -> {Name("a"), Name("b")}]

-----------------------------------------------------------------------------
(* For Prerenders: pages side by side, rendered by the build or by a request, one of *)
(* them of a template, with a tag that begins another; and a page that is asked for  *)
(* in a locale.                                                                      *)

EscapedSegments == [x \in {"h e"} |-> "h%20e"]
LongPaths == {<<"a", "long">>}
Tagged(tags) == {[implicit |-> FALSE, at |-> t] : t \in tags}
Prerender(kind, file, path, built, tags) ==
    [kind |-> kind, file |-> file, path |-> path, built |-> built, tags |-> tags, status |-> 200, body |-> TRUE]
Static(kind, path, tags) == Prerender(kind, path, path, TRUE, tags)
PrerenderMenu ==
    {Static(kind, path, Tagged(tags)) : kind \in {"APP_PAGE", "PAGES"},
         path \in {<<>>, <<"a">>, <<"a", "index">>}, tags \in {{}, {<<"user">>}}}
    \cup {Prerender("APP_PAGE", <<"a", "[p]">>, <<"a", s>>, built, Tagged(tags)) :
             s \in {"h e", "[p]", "long"}, built \in BOOLEAN, tags \in {{<<"user">>}, {<<"user", "42">>}}}
    \cup {Static("APP_ROUTE", <<"b">>, Tagged({<<"user">>})), Static("APP_PAGE", <<"a", "layout">>, {}),
          [Static("PAGES", <<"b">>, {}) EXCEPT !.status = 404], [Static("APP_PAGE", <<"b">>, {}) EXCEPT !.body = FALSE]}
Together(pages) == \A p, q \in pages : p.path = q.path => p = q
Built(pages) == {[base |-> base, scoped |-> s[1], files |-> s[2], pages |-> pages] : base \in {<<>>, <<"a">>},
                    s \in {<<TRUE, "route-cache">>, <<TRUE, "elsewhere">>, <<FALSE, "elsewhere">>}}
AtIndex == {Static(kind, <<"index">>, Tagged({<<"user">>})) : kind \in {"APP_PAGE", "PAGES"}}
PrerenderedApps ==
    UNION {Built(pages) : pages \in {s \in {{p, q} : p, q \in PrerenderMenu} : Together(s)}}
    \cup UNION {{app \in Built({page}) : app.scoped} : page \in AtIndex}
RevalidatedTags == {{t} : t \in Tagged({<<"user">>, <<"user", "42">>})}
                   \cup {{[implicit |-> TRUE, at |-> at]} : at \in {<<>>, <<"a">>, <<"a", "layout">>, <<"layout">>, <<"a", "h e">>}}
                   \cup {Tagged({<<"user">>}) \cup {[implicit |-> TRUE, at |-> <<>>]}}

Asked(locales) == [base : {<<>>, <<"a">>}, page : {<<>>, <<"a">>, <<"a", "b">>, <<"h e">>}, locales : {locales},
                   default : locales, locale : locales]
RevalidatedPages == [base : {<<>>, <<"a">>}, page : {<<>>, <<"a">>, <<"h e">>}, locales : {{}},
                     default : {NoLocale}, locale : {NoLocale}] \cup Asked({"en", "fr"})

-----------------------------------------------------------------------------
(* For BuildOutputs: pages of either router, static ones and templates whose params *)
(* are known, open or closed, side by side with what answers errors.                *)

Made(router, route, renders) ==
    [router |-> router, route |-> route, renders |-> renders, closed |-> FALSE, data |-> renders # {},
     html |-> FALSE, runtime |-> "nodejs", assets |-> {route}]
Html(route) == [Made("pages", route, {}) EXCEPT !.html = TRUE]
Closed(page) == [page EXCEPT !.closed = TRUE]
MadePages ==
    {Made(router, route, {}) : router \in {"app", "pages"}, route \in {<<>>, <<"a">>}} \cup {Made("app", <<"index">>, {})}
    \cup {Made(router, route, {route}) : router \in {"app", "pages"}, route \in {<<>>, <<"a">>}}
    \cup {Made(router, <<"[p]">>, {<<"a">>, <<"b">>}) : router \in {"app", "pages"}}
    \cup {Closed(Made("app", <<"[p]">>, {<<"a">>, <<"b">>})), Closed(Made("app", <<"[p]", "a">>, {<<"b", "a">>})),
          Made("pages", <<"a", "[...c]">>, {<<"a", "b">>, <<"a", "b", "a">>}), Made("app", <<"a", "[[...o]]">>, {<<"a">>, <<"a", "b">>}),
          Html(<<>>), Html(<<"a">>), Html(<<"404">>), Made("pages", <<"_error">>, {}), Made("app", <<"_not-found">>, {}), Made("pages", <<"404">>, {<<"404">>}),
          [Made("app", <<"b">>, {}) EXCEPT !.runtime = "edge"]}
\* What `next build` lets through: of one route, only one page.
Apart(pages) == \A p, q \in pages : p # q => p.route # q.route
BuiltApps ==
    UNION {[base : {<<>>, <<"base">>}, pages : {pages}, middleware : {"none", "nodejs", "edge"},
            split : {{}} \cup {{<<page.router>> \o page.route} : page \in {p \in pages : ~p.html}}] :
               pages \in {s \in {{p, q, r} : p, q, r \in MadePages} : Apart(s)}}

-----------------------------------------------------------------------------
(* For Wiring: every type of deployment, and what may be set of one a few at a time. *)

Owners == {"all", "default", "g", "task"}
Nowhere(what) == [o \in Owners |-> what]
BasesOf(type) ==
    {[app |-> <<>>, resolved |-> <<>>, stripped |-> <<>>]}
    \cup CASE type = "REGIONAL_CONTAINERS" -> {[app |-> app, resolved |-> <<"a">>, stripped |-> <<>>] : app \in {<<>>, <<"b">>}}
           [] type = "REGIONAL_FUNCTIONS" -> {[app |-> <<"prod", "a">>, resolved |-> <<"a">>, stripped |-> <<"prod">>]}
           [] OTHER -> {[app |-> <<"a">>, resolved |-> <<"a">>, stripped |-> <<>>]}
Deployed(type, groups, base) ==
    [type |-> type, groups |-> groups, base |-> base, env |-> Nowhere({}), name |-> Nowhere("none"),
     vpc |-> [prop |-> "none", override |-> "none"], arch |-> Nowhere("none"), machine |-> "arm64",
     uploads |-> {"static", "public"}, seedMib |-> 1, unlisted |-> FALSE, clusterBrought |-> FALSE, file |-> "none"]
DeployedAs == UNION {{Deployed(type, groups, base) : base \in BasesOf(type),
                         groups \in IF type \in {"GLOBAL_FUNCTIONS", "REGIONAL_FUNCTIONS"} THEN {{}, {"g"}} ELSE {{}}} :
                     type \in {"GLOBAL_FUNCTIONS", "GLOBAL_CONTAINERS", "REGIONAL_FUNCTIONS", "REGIONAL_CONTAINERS"}}
SeedSizes == {0, 191, 192, 193, 448, 449, 4032, 4033, 5056, 5057}
Varied(d) ==
    {[d EXCEPT !.env["all"] = all, !.env["g"] = own] : all, own \in {{}, {"DB"}, {"CACHE_BUCKET_NAME", "LOG"}}}
    \cup {[d EXCEPT !.name["all"] = all, !.name["g"] = own] : all \in {"none", "n"}, own \in {"none", "m"}}
    \cup {[d EXCEPT !.vpc = vpc, !.clusterBrought = brought] :
             vpc \in [prop : {"none", "v"}, override : {"none", "w"}], brought \in BOOLEAN}
    \cup {[d EXCEPT !.arch["all"] = all, !.arch["g"] = own] : all, own \in {"none", "arm64", "x64"}}
    \cup {[d EXCEPT !.uploads = uploads, !.seedMib = mib] :
             uploads \in SUBSET {"static", "workers", "public"} \ {{}}, mib \in SeedSizes}
    \cup {[d EXCEPT !.unlisted = unlisted, !.file = file] :
             unlisted \in BOOLEAN, file \in {"none", "developer's", "this version's", "another version's"}}
WiredDeployments == UNION {Varied(d) : d \in DeployedAs}

-----------------------------------------------------------------------------
(* For ViewerFunctions. *)

CodeMenu == [there : {TRUE}, entry : {TRUE}, handler : {FALSE}, size : 1 .. 3]
            \cup [there : {TRUE}, entry : BOOLEAN, handler : BOOLEAN, size : {1}]
NoTtls == [max |-> -1, default |-> -1, min |-> -1]
PlainEdge(functions, besides) ==
    [functions |-> functions, besides |-> besides, keyValueStore |-> FALSE, ownDefault |-> FALSE, brought |-> FALSE,
     code |-> [there |-> FALSE, entry |-> FALSE, handler |-> FALSE, size |-> 0],
     events |-> [static |-> {}, dynamic |-> {}, image |-> {}], ownPolicy |-> FALSE, headers |-> {}, ttls |-> NoTtls]
PlainEdges == {PlainEdge(functions, besides) : functions \in BOOLEAN, besides \in SUBSET {"workers", "cdn", "base"}}
              \cup {PlainEdge(TRUE, {"group"})}
WithCode(d) == {d} \cup {[d EXCEPT !.code = code] : code \in CodeMenu}
HeaderMenu == SUBSET {[name |-> "x", value |-> "theirs"], [name |-> "service-worker-allowed", value |-> "theirs"]}
Distributions ==
    UNION {{[e EXCEPT !.events = [static |-> s, dynamic |-> w, image |-> i]] :
               s, w, i \in {{}, {"request"}, {"response"}}} : e \in UNION {WithCode(d) : d \in PlainEdges}}
    \cup UNION {{[e EXCEPT !.keyValueStore = store, !.ownDefault = own, !.brought = brought] :
               store, own, brought \in BOOLEAN} : e \in UNION {WithCode(d) : d \in PlainEdges}}
    \cup {[PlainEdge(TRUE, {"workers"}) EXCEPT !.ownPolicy = own, !.headers = headers] :
               own \in BOOLEAN, headers \in HeaderMenu}
    \cup {[PlainEdge(TRUE, {}) EXCEPT !.ttls = ttls] : ttls \in [max : -1 .. 2, default : -1 .. 2, min : -1 .. 2]}
=================================================================================
