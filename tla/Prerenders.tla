------------------------------- MODULE Prerenders -------------------------------
(***************************************************************************)
(* What a build's prerenders become: the entries the cache is seeded with  *)
(* (src/adapter/init-cache.ts, src/adapter/cache-utils.ts), under the keys *)
(* the server asks for, and what CloudFront is told to drop when a tag or  *)
(* a page of theirs is revalidated (src/adapter/s3-cache-handler.ts,       *)
(* src/runtime/core.ts). A path is its segments; a segment's characters    *)
(* only matter where an invalidation spells them.                          *)
(***************************************************************************)
EXTENDS Routes, FiniteSetsExt

CONSTANTS
    Escaped,        \* the segments a browser escapes, and what into
    Long,           \* the paths whose keys no object can have
    MaxWildcards    \* that fit one invalidation

NoPath == <<"no path">>

\* An app: its base path, whether its Next.js scopes cache keys by route, and where it
\* `files` the prerenders. A page: its route's `file`, its `path`, whether the build
\* renders it or a request, and with what.
Page(kind, file, path, built, tags) ==
    [kind |-> kind, file |-> file, path |-> path, built |-> built, tags |-> tags,
     status |-> 200, body |-> TRUE]

-----------------------------------------------------------------------------
(* Next.js: what it emits, asks for and tags. *)

NormalizePagePath(path) ==
    IF path = <<>> \/ path[1] = "index" THEN <<"index">> \o path ELSE path

\* The outputs of a build, each with the base of its pathname.
Output(page, variant, pathname) == [variant |-> variant, pathname |-> pathname, page |-> page]
OutputsOf(app, page) ==
    {Output(page, "html", app.base \o page.path)}
    \cup IF page.kind # "APP_PAGE" THEN {}
         ELSE {Output(page, v, app.base \o IF page.path = <<>> THEN <<"index">> ELSE page.path) :
                  v \in {"rsc", "segments"}}
    \cup IF page.kind # "PAGES" THEN {}
         ELSE {Output(page, "data", app.base \o NormalizePagePath(page.path))}
Outputs(app) == UNION {OutputsOf(app, page) : page \in {p \in app.pages : p.built}}

Key(scope, path) == [scope |-> scope, path |-> path]
RouteKey(page) == Key(page.file, NormalizePagePath(page.path))
KeyAsked(app, page) ==
    IF app.scoped THEN RouteKey(page)
    ELSE Key(<<>>, IF page.path = <<>> THEN <<"index">> ELSE page.path)

AppTag(names) == [implicit |-> FALSE, at |-> names]
PathTag(path) == [implicit |-> TRUE, at |-> path]
ImplicitTags(page) ==
    {PathTag(SubSeq(page.file, 1, n) \o <<"layout">>) : n \in 0 .. Len(page.file)}
    \cup {PathTag(page.file \o <<"page">>), PathTag(page.path)}
TagsOf(page) == page.tags \cup ImplicitTags(page)

-----------------------------------------------------------------------------
(* Seeding the cache. *)

HtmlPathnames(outputs) == {o.pathname : o \in {x \in outputs : x.variant = "html"}}

\* Mutant: a page at .../index is never its own.
IndexIsParents(outputs, base) ==
    IF base # <<>> /\ Last(base) = "index" /\ Front(base) \in HtmlPathnames(outputs)
    THEN Front(base) ELSE base
\* `/index.rsc` is of the page at `/`, unless there is one at `/index`.
RouteOf(outputs, base) ==
    IF base # <<>> /\ Last(base) = "index" /\ base \notin HtmlPathnames(outputs)
       /\ Front(base) \in HtmlPathnames(outputs)
    THEN Front(base) ELSE base
GroupOf(outputs, o) ==
    IF o.variant = "html" THEN o.pathname ELSE RouteOf(outputs, o.pathname)
GroupPrerenders(outputs) ==
    {{o \in outputs : GroupOf(outputs, o) = route} : route \in {GroupOf(outputs, o) : o \in outputs}}

Of(group, variant) == {o.page : o \in {x \in group : x.variant = variant}}
PrerenderPath(outputs, group) == GroupOf(outputs, CHOOSE o \in group : TRUE)
\* cacheKindOf: of whose output its page is.
KindOf(group) ==
    LET source == IF Of(group, "html") # {} THEN Of(group, "html") ELSE {o.page : o \in group}
    IN  (CHOOSE page \in source : TRUE).kind

\* A page that was not found has a status, and a postponed one no file.
HasContent(group) ==
    \E page \in Of(group, "html") : page.body /\ (KindOf(group) = "PAGES" => page.status = 200)

WithoutBase(app, path) ==
    IF app.base # <<>> /\ IsPrefix(app.base, path) THEN SubSeq(path, Len(app.base) + 1, Len(path)) ELSE path
PrerenderPathToCacheKey(app, path) ==
    LET route == WithoutBase(app, path)
    IN  Key(<<>>, IF route = <<>> THEN <<"index">> ELSE route)

Unscoped(app) == app.scoped /\ app.files = "elsewhere"
CacheKey(app, outputs, group) ==
    IF app.scoped THEN RouteKey(CHOOSE page \in Of(group, "html") : TRUE)
    ELSE PrerenderPathToCacheKey(app, PrerenderPath(outputs, group))
CacheObjectName(key) == [long |-> key.path \in Long, key |-> key]

Seeded(outputs) == {group \in GroupPrerenders(outputs) : HasContent(group)}
BuildFails(app) == Unscoped(app) /\ Seeded(Outputs(app)) # {}
\* What the cache holds once deployed: of a group, its pages by variant.
InitCache(app) ==
    LET outputs == Outputs(app)
    IN  {[name |-> CacheObjectName(CacheKey(app, outputs, group)), kind |-> KindOf(group),
          of |-> [v \in {"html", "rsc", "segments", "data"} |-> Of(group, v)]] : group \in Seeded(outputs)}
Get(app, page) ==
    {entry \in InitCache(app) : entry.name = CacheObjectName(KeyAsked(app, page))}

\* The keys, by tag, of what says its tags in a header.
TagManifest(app, tag) ==
    LET outputs == Outputs(app)
    IN  {CacheKey(app, outputs, group) :
            group \in {g \in Seeded(outputs) : KindOf(g) # "PAGES"
                                               /\ \E page \in Of(g, "html") : tag \in TagsOf(page)}}

-----------------------------------------------------------------------------
(* Revalidating a tag. *)

\* A row of the table, under a sort key of the tag's names and, if it maps one, a key.
NoKey == Key(<<"none">>, <<>>)
Row(tag, key) == [tag |-> tag, key |-> key]
FetchKey == Key(<<"fetch">>, <<"hash">>)
Rows(app) ==
    UNION {{Row(tag, NoKey) : tag \in page.tags} : page \in app.pages}
    \cup UNION {{Row(tag, key) : tag \in TagsOf(page), key \in {KeyAsked(app, page), FetchKey}} :
                   page \in {p \in app.pages : ~p.built /\ p.kind # "PAGES"}}

\* begins_with, of the tag's names and a "#".
BeginsWith(row, tag) ==
    /\ row.tag.implicit = tag.implicit
    /\ IF tag.implicit THEN row.tag = tag /\ row.key # NoKey
       ELSE IsPrefix(tag.at, row.tag.at) /\ (row.tag.at = tag.at => row.key # NoKey)
\* What is behind a longer tag's "#" starts with no build's id.
MappedKeys(app, tag) ==
    {row.key : row \in {r \in Rows(app) : BeginsWith(r, tag) /\ r.tag = tag}}

\* denormalizePagePath
Denormalize(path) == IF path # <<>> /\ path[1] = "index" THEN Tail(path) ELSE path
Templated(path) == \E i \in 1 .. Len(path) : Kind(path[i]) # 0
S3KeyToRoute(key) ==
    CASE key = FetchKey \/ Templated(key.path) -> NoPath
      [] key.scope # <<>> -> Denormalize(key.path)
      [] OTHER -> IF key.path = <<"index">> THEN <<>> ELSE key.path

\* revalidatePath(path, type) puts its type last.
ImplicitTagPaths(tag) ==
    IF ~tag.implicit THEN {}
    ELSE {path \in {tag.at} \cup IF tag.at # <<>> /\ Last(tag.at) \in {"layout", "page"}
                                 THEN {Front(tag.at)} ELSE {} : ~Templated(path)}

TagRoutes(app, tag) ==
    ({S3KeyToRoute(key) : key \in MappedKeys(app, tag) \cup TagManifest(app, tag)} \ {NoPath})
    \cup ImplicitTagPaths(tag)

\* A path, then a tail: "*" for a wildcard.
Pattern(path, tail) == [path |-> path, tail |-> tail]
EncodeRoute(route) ==
    [i \in DOMAIN route |-> IF route[i] \in DOMAIN Escaped THEN Escaped[route[i]] ELSE route[i]]
\* Mutant: the route as the cache spells it.
AsDecoded(route, base) ==
    IF route = <<>> THEN {Pattern(base, tail) : tail \in IF base = <<>> THEN {"", "?*"} ELSE {"", "?*", "/", "/?*"}}
    ELSE {Pattern(base \o route, "*")}
CdnInvalidationPaths(route, base) ==
    IF route = <<>> THEN {Pattern(base, tail) : tail \in IF base = <<>> THEN {"", "?*"} ELSE {"", "?*", "/", "/?*"}}
    ELSE {Pattern(base \o EncodeRoute(route), "*")}
\* wholeAppInvalidationPaths
WholeApp(base) ==
    IF base = <<>> THEN {Pattern(<<>>, "/*")} ELSE {Pattern(base, tail) : tail \in {"", "?*", "/*"}}

\* One request's worth (invalidateCloudFrontPaths).
Fitting(app, paths) ==
    IF Cardinality({p \in paths : p.tail \notin {"", "/"}}) > MaxWildcards THEN WholeApp(app.base) ELSE paths
RevalidateTags(app, tags) ==
    Fitting(app, UNION {CdnInvalidationPaths(route, app.base) : route \in UNION {TagRoutes(app, t) : t \in tags}})

-----------------------------------------------------------------------------
(* Revalidating a page of the Pages Router. *)

DataDir == <<"_next", "data", "id">>
\* Without i18n there is one pair; else the default locale's page has two.
RevalidatedPageRoutes(asked, locales, default) ==
    LET locale == IF asked # <<>> /\ asked[1] \in locales THEN asked[1] ELSE default
        page == IF asked # <<>> /\ asked[1] \in locales THEN Tail(asked) ELSE asked
        localized == <<locale>> \o page
    IN  IF locales = {} THEN {asked, DataDir \o IF asked = <<>> THEN <<"index">> ELSE asked}
        ELSE {localized, DataDir \o localized} \cup IF locale = default THEN {page} ELSE {}
RevalidatePage(app, asked, locales, default) ==
    Fitting(app, UNION {CdnInvalidationPaths(route, app.base) :
                           route \in RevalidatedPageRoutes(asked, locales, default)})

-----------------------------------------------------------------------------
(* Properties. *)

\* Where CloudFront holds what a path answers: with a slash or a query, or without.
Uris(base, path) ==
    {[path |-> base \o EncodeRoute(path), slash |-> s, query |-> q] :
        s \in IF base \o path = <<>> THEN {FALSE} ELSE BOOLEAN, q \in BOOLEAN}
Drops(pattern, uri) ==
    LET same == uri.path = pattern.path
    IN  CASE pattern.tail = "" -> same /\ ~uri.slash /\ ~uri.query
          [] pattern.tail = "?*" -> same /\ ~uri.slash /\ uri.query
          [] pattern.tail = "/" -> same /\ uri.slash /\ ~uri.query
          [] pattern.tail = "/?*" -> same /\ uri.slash /\ uri.query
          [] pattern.tail = "*" -> IsPrefix(pattern.path, uri.path)
          [] pattern.tail = "/*" -> IsPrefix(pattern.path, uri.path) /\ (same /\ pattern.path # <<>> => uri.slash)
AllDropped(paths, uris) == \A uri \in uris : \E pattern \in paths : Drops(pattern, uri)

\* The server finds a page that was prerendered under the key it asks for, whole and
\* with nothing of another page, or the build has failed (writeInitCache).
SeedsAreWhole(app) ==
    \/ BuildFails(app) /\ Unscoped(app)
    \/ \A page \in app.pages :
          LET servable == page.built /\ page.body /\ (page.kind = "PAGES" => page.status = 200)
              whole == [v \in {"html", "rsc", "segments", "data"} |->
                           {o.page : o \in {x \in OutputsOf(app, page) : x.variant = v}}]
          IN  {[kind |-> entry.kind, of |-> entry.of] : entry \in Get(app, page)} =
                 IF servable THEN {[kind |-> page.kind, of |-> whole]} ELSE {}

\* When tags are revalidated, each page that carries one goes from CloudFront wherever
\* it may be held, and what goes by name is such a page or is named by a tag itself
\* (tagRoutes, cdnInvalidationPaths).
TaggedGo(app, tags) ==
    LET sent == RevalidateTags(app, tags)
        tagged == {page \in app.pages : page.kind # "PAGES" /\ page.body /\ TagsOf(page) \cap tags # {}}
    IN  /\ \A page \in tagged : ~Templated(page.path) => AllDropped(sent, Uris(app.base, page.path))
        /\ \A tag \in tags : \A route \in TagRoutes(app, tag) :
              (\E page \in tagged : page.path = route) \/ route \in ImplicitTagPaths(tag)

\* A page that is revalidated goes with its data, as any of its URLs asks for it, and
\* in an app of several locales only its own (revalidatedPageRoutes).
PageGoes(app, page, locales, default, locale) ==
    LET forms == IF locales = {} THEN {page}
                 ELSE {<<locale>> \o page} \cup IF locale = default THEN {page} ELSE {}
        data == DataDir \o IF locales # {} THEN <<locale>> \o page ELSE IF page = <<>> THEN <<"index">> ELSE page
    IN  \A asked \in forms :
           LET sent == RevalidatePage(app, asked, locales, default)
           IN  /\ \A path \in forms \cup {data} : AllDropped(sent, Uris(app.base, path))
               /\ \A other \in locales \ {locale} :
                     sent # WholeApp(app.base) /\ page # <<>> =>
                     ~\E pattern \in sent : \E uri \in Uris(app.base, <<other>> \o page) : Drops(pattern, uri)
=================================================================================
