------------------------------ MODULE BuildOutputs ------------------------------
(***************************************************************************)
(* buildAdapterManifest and writeBuildOutputs (src/adapter/build-          *)
(* outputs.ts): from the outputs of `next build`, which pathname is        *)
(* answered by which file, and which files go into the package of each     *)
(* function group. A path is its segments, a pathname a path and what is   *)
(* put behind it: nothing, ".rsc", or ".json" for a path under             *)
(* /_next/data.                                                            *)
(***************************************************************************)
EXTENDS Routes, FiniteSetsExt

\* A page: its `route`, the paths of it the build `renders`, whether its params can
\* only be those (`closed`), whether it has `data`, or is nothing but an HTML file,
\* and what it requires. An app: its base path, pages and middleware, and the group of
\* each file that is not of the default one.
Page(router, route, renders) ==
    [router |-> router, route |-> route, renders |-> renders, closed |-> FALSE, data |-> renders # {},
     html |-> FALSE, runtime |-> "nodejs", assets |-> {route}]

FileOf(page) == <<page.router>> \o page.route
Pathname(path, form) == [path |-> path, form |-> form]
Groups == {"default", "g"}

-----------------------------------------------------------------------------
(* What Next.js emits, and how it resolves a URL. *)

Dynamical(page) == \E i \in 1 .. Len(page.route) : Kind(page.route[i]) # 0
Index(path) == IF path = <<>> THEN <<"index">> ELSE path
Normalized(path) == IF path = <<>> \/ path[1] = "index" THEN <<"index">> \o path ELSE path

\* Of a page, or an HTML file, [id, pathname, file, page].
Output(page, pathname) == [id |-> page.route, pathname |-> pathname, file |-> FileOf(page), page |-> page]
OutputsOf(app, page) ==
    IF page.router = "pages" THEN {Output(page, Pathname(app.base \o Normalized(page.route), ""))}
    ELSE {Output(page, Pathname(app.base \o page.route, "")),
          Output(page, Pathname(app.base \o Index(page.route), ".rsc"))}
Invocable(app)   == UNION {OutputsOf(app, page) : page \in {p \in app.pages : ~p.html}}
StaticFiles(app) == UNION {OutputsOf(app, page) : page \in {p \in app.pages : p.html}}

\* A template is prerendered too, for its fallback.
Rendered(page) == page.renders \cup IF Dynamical(page) /\ page.renders # {} THEN {page.route} ELSE {}
PrerendersOf(app, page) ==
    UNION {IF page.router = "pages"
           THEN {Pathname(app.base \o path, ""), Pathname(app.base \o Normalized(path), ".json")}
           ELSE {Pathname(app.base \o path, ""), Pathname(app.base \o Index(path), ".rsc")} : path \in Rendered(page)}

\* A closed page's rule is for draft mode alone.
DynamicRoutes(app) ==
    {[path |-> app.base \o page.route, gated |-> page.closed,
      forms |-> IF page.router = "app" THEN {"", ".rsc"} ELSE IF page.data THEN {"", ".json"} ELSE {""}] :
        page \in {p \in app.pages : Dynamical(p)}}
Matching(app, pathname) ==
    {rule \in DynamicRoutes(app) : pathname.form \in rule.forms /\ Stands(rule.path, pathname.path)}
\* resolveRoutes: an output's own pathname, or the template that comes first.
Resolve(app, pathnames, url) ==
    LET open == {rule \in Matching(app, url) : ~rule.gated /\ Pathname(rule.path, url.form) \in pathnames}
    IN  IF url \in pathnames THEN {url}
        ELSE {Pathname(rule.path, url.form) :
                 rule \in {r \in open : ~\E s \in open : Outranks(s.path, r.path)}}

-----------------------------------------------------------------------------
(* The manifest. *)

\* The Pages Router's home page is reported as /index.
RoutablePathnames(app, output) ==
    {output.pathname}
    \cup IF output.page.router = "pages" /\ output.pathname = Pathname(app.base \o <<"index">>, "")
         THEN {Pathname(app.base, "")} ELSE {}

\* Which file answers a pathname: [pathname, id, file].
Answer(pathname, id, file) == [pathname |-> pathname, id |-> id, file |-> file]
Claims(app, outputs) ==
    UNION {{Answer(pathname, o.id, o.file) : pathname \in RoutablePathnames(app, o)} : o \in outputs}
EntryAt(entries, pathname) == {e \in entries : e.pathname = pathname}

\* Mutant: whatever was prerendered.
AllAdded(app, prerender) == TRUE
\* A template, or what no rule that is open leads to: data, or a closed page's.
ToAdd(app, prerender) ==
    LET matching == Matching(app, prerender)
        gated == \A rule \in matching : rule.gated
    IN  \/ \E i \in 1 .. Len(prerender.path) : Kind(prerender.path[i]) # 0
        \/ gated /\ (prerender.form = ".json" \/ matching # {})

\* By the page's route, under the base path or not, and its payload's entry if it is one.
Owner(app, entries, prerender, page) ==
    LET at(path, form) == EntryAt(entries, Pathname(path, form))
        \* "/base/" is no entry's.
        based(form) == IF app.base # <<>> /\ page.route = <<>> THEN {} ELSE at(app.base \o page.route, form)
        ladder(form) == IF based(form) # {} THEN based(form) ELSE at(page.route, form)
    IN  IF prerender.form = ".rsc" /\ ladder(".rsc") # {} THEN ladder(".rsc") ELSE ladder("")
AddedPrerenders(app, entries) ==
    UNION {UNION {{Answer(prerender, prerender.path, e.file) : e \in Owner(app, entries, prerender, page)} :
                     prerender \in {p \in PrerendersOf(app, page) : EntryAt(entries, p) = {} /\ ToAdd(app, p)}} :
              page \in {p \in app.pages : ~p.html}}

Entrypoints(app) == LET claimed == Claims(app, Invocable(app)) IN claimed \cup AddedPrerenders(app, claimed)
Statics(app) == Claims(app, StaticFiles(app))
Pathnames(app) == {e.pathname : e \in Entrypoints(app) \cup Statics(app)}

Ambiguous(entries) == \E e, f \in entries : e.pathname = f.pathname /\ e.file # f.file
Refused(app) ==
    \/ \E page \in app.pages : ~page.html /\ page.runtime # "nodejs"
    \/ app.middleware = "edge"
    \/ Ambiguous(Claims(app, Invocable(app))) \/ Ambiguous(Statics(app))

-----------------------------------------------------------------------------
(* The packages. *)

GroupOf(app, file) == IF file \in app.split THEN "g" ELSE "default"
ErrorPages(app) == {Pathname(app.base \o <<name>>, "") : name \in {"_not-found", "404", "500", "_error"}}

\* Mutant: its own templates only.
OwnOnly(app, group) == {o \in Invocable(app) : GroupOf(app, o.file) = group}
\* By file: what was prerendered has an id of its own.
Owned(app, group) ==
    LET files == {e.file : e \in {x \in Entrypoints(app) :
                                     GroupOf(app, x.file) = group \/ x.pathname \in ErrorPages(app)}}
    IN  {o \in Invocable(app) : o.file \in files}

Package(app, group) ==
    UNION {{[part |-> "entry", key |-> o.file]} \cup {[part |-> "asset", key |-> a] : a \in o.page.assets} :
              o \in Owned(app, group)}
    \cup {[part |-> "html", key |-> o.file] : o \in StaticFiles(app)}
    \cup {[part |-> "runtime", key |-> <<"next">>], [part |-> "runtime", key |-> <<"required-server-files">>]}
    \cup IF app.middleware = "nodejs" THEN {[part |-> "entry", key |-> <<"middleware">>]} ELSE {}
    \cup IF group = "default" THEN {[part |-> "runtime", key |-> <<"image-optimizer">>]} ELSE {}

-----------------------------------------------------------------------------
(* Properties. *)

\* Where a client goes for a page: to it, for its payload or for its data.
UrlsOf(app, page) ==
    LET paths == IF Dynamical(page) THEN page.renders \ {page.route} ELSE {page.route}
        forms == CASE page.router = "app" -> {"", ".rsc"} [] page.data -> {"", ".json"} [] OTHER -> {""}
    IN  {Pathname(app.base \o (IF form = ".rsc" THEN Index(path) ELSE IF form = ".json" THEN Normalized(path) ELSE path),
                  form) : path \in paths, form \in forms}
\* The home page's data under a base path, which no entry is found for.
Homeless(app, page) == app.base # <<>> /\ page.router = "pages" /\ page.route = <<>> /\ page.data
\* A page that is closer to a path than the one that rendered it has it.
Closest(app, page, url) ==
    ~\E other \in app.pages \ {page} : url \in UrlsOf(app, other) /\ Outranks(other.route, page.route)

\* A static page's data, where a template of data stands for it too.
Shadowed(app, page, url) ==
    ~Dynamical(page) /\ url.form = ".json" /\ \E rule \in Matching(app, url) : ~rule.gated

\* Unless the build is refused, every URL of a page leads to its file: as the page's
\* template wherever that captures its params, and to a static file only if that is all
\* the page is (addPrerenderPathnames, routablePathnames).
UrlsLeadToPages(app) ==
    Refused(app) \/ \A page \in app.pages : \A url \in UrlsOf(app, page) :
        Closest(app, page, url) /\ ~(url.form = ".json" /\ Homeless(app, page)) /\ ~Shadowed(app, page, url) =>
        LET resolved == Resolve(app, Pathnames(app), url)
            entries == UNION {EntryAt(IF page.html THEN Statics(app) ELSE Entrypoints(app), p) : p \in resolved}
        IN  /\ Cardinality(resolved) = 1
            /\ {e.file : e \in entries} = {FileOf(page)}
            /\ Dynamical(page) /\ ~page.closed => \A p \in resolved : p.path = app.base \o page.route

\* "a concrete data-route prerender is registered whatever the rules say"
\* (build-outputs.ts:829-830), so that a static page's data is that page's.
DataIsItsPages(app) ==
    Refused(app) \/ \A page \in app.pages : \A url \in {u \in UrlsOf(app, page) : Shadowed(app, page, u)} :
        \A p \in Resolve(app, Pathnames(app), url) :
            \A e \in EntryAt(Entrypoints(app), p) : e.file = FileOf(page)

\* The group a URL is sent to has what it is answered with, the error pages and the
\* middleware included, and nothing that only another group's pages are made of
\* (collectGroupStagingPlan).
PackagesAnswer(app) ==
    Refused(app) \/ \A group \in Groups :
        LET package == Package(app, group)
            its == {e \in Entrypoints(app) : GroupOf(app, e.file) = group}
            pages == {page \in app.pages : ~page.html /\ \E e \in its : e.file = FileOf(page)}
            errors == {page \in app.pages : \E p \in ErrorPages(app) : \E o \in OutputsOf(app, page) : o.pathname = p}
        IN  /\ \A page \in pages \cup errors :
                  /\ [part |-> IF page.html THEN "html" ELSE "entry", key |-> FileOf(page)] \in package
                  /\ ~page.html => \A a \in page.assets : [part |-> "asset", key |-> a] \in package
            /\ \A page \in app.pages \ (pages \cup errors) :
                  ~page.html => [part |-> "entry", key |-> FileOf(page)] \notin package
=================================================================================
