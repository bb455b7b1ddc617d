-------------------------------- MODULE Dispatch --------------------------------
(***************************************************************************)
(* From a URL to what answers it: the edge, which sends it to a function   *)
(* by its path as spelled; Dispatcher (src/runtime/dispatch.ts) around     *)
(* @next/routing's resolveRoutes; what the runtime does with the result    *)
(* (route of src/runtime/core.ts, src/runtime/case-redirect.ts); and the   *)
(* client, which follows redirects and asks again.                         *)
(*                                                                         *)
(* A URL is its segments, a locale first where it has one, and whether a   *)
(* slash ends it. The basePath, in front of all alike, is left out, and so *)
(* are queries and the rewrites and redirects of next.config.              *)
(***************************************************************************)
EXTENDS Routes, FiniteSets

CONSTANTS
    Apps,        \* see App
    Asked(_),    \* of an app, the requests made of it, see Ask
    MaxHops      \* bound: the redirects a client follows

VARIABLES
    app,
    asked,     \* what the client wants
    url,       \* what it asks for now
    hops,
    at,        \* how far the request is
    group,     \* the function that has it
    path,      \* the URL as resolveRoutes is given it, and goes on with
    owed,      \* the locale a redirect is owed to, or NoLocale
    rewritten, \* whether middleware rewrote it
    headers,   \* what matters of the response's
    resolved,  \* resolvedPathname, once there is one
    answer

vars == <<app, asked, url, hops, at, group, path, owed, rewritten, headers, resolved, answer>>

At(p, slash) == [path |-> p, slash |-> slash /\ p # <<>>]

Answer(kind, what, values) == [kind |-> kind, what |-> what, values |-> values]
NoAnswer == Answer("none", <<>>, <<>>)

\* What a request spells otherwise than the file's own name, and what only differs
\* in case. The names that end in .ext have an extension.
Encoded(segment) == CASE segment = "logo@.ext" -> "logo%40.ext" [] segment = "[p].ext" -> "%5Bp%5D.ext"
                      [] OTHER -> segment
Decoded(segment) == CASE segment = "logo%40.ext" -> "logo@.ext" [] segment = "%5Bp%5D.ext" -> "[p].ext"
                      [] OTHER -> segment
Lower(segment) == CASE segment = "A" -> "a" [] segment = "X" -> "x" [] OTHER -> segment
HasExtension(p) == p # <<>> /\ Last(p) \in {"logo@.ext", "logo%40.ext", "[p].ext", "%5Bp%5D.ext", "x.ext", "y.ext"}
Lowered(p) == [i \in DOMAIN p |-> Lower(p[i])]

-----------------------------------------------------------------------------
(* buildRoutingTable *)

\* Mutant: only as Next.js keys its own.
SpelledEncoded(p) == {[i \in DOMAIN p |-> Encoded(p[i])]}
\* requestSpellings
RequestSpellings(p) == {p, [i \in DOMAIN p |-> Encoded(p[i])]}

\* Of the locales, those whose public files are served under them.
LocalePrefixes == {<<>>} \cup {<<l>> : l \in ({app.default} \cup app.domains) \ {NoLocale}}

\* Mutant: public/ on top of every build output.
OnTop(p) == TRUE
MayCover(p) == ~\E c \in app.chunks : p \in RequestSpellings(c)

PublicAt(p) == {f \in app.public : \E prefix \in LocalePrefixes : \E s \in RequestSpellings(f) : p = prefix \o s}

\* The file asked for at p: [source, file].
StaticFiles(p) ==
    {[source |-> "public", file |-> f] : f \in {f \in PublicAt(p) : MayCover(p)}}
    \cup IF PublicAt(p) # {} /\ MayCover(p) THEN {}
         ELSE {[source |-> "next-static", file |-> f] : f \in {f \in app.chunks : p \in RequestSpellings(f)}}
              \cup {[source |-> "server", file |-> f] : f \in {f \in app.server : p \in RequestSpellings(f)}}

Pathnames == app.entries \cup {Image} \cup
    UNION {RequestSpellings(f) : f \in app.chunks \cup app.server} \cup
    UNION {{prefix \o s : s \in RequestSpellings(f)} : f \in app.public, prefix \in LocalePrefixes}

\* Mutant: the pathnames as the build has them.
AsBuilt(p, slash) == ~slash
\* withTrailingSlashVariants
Listed(p, slash) == slash => app.trailing /\ ~HasExtension(p)

-----------------------------------------------------------------------------
Init ==
    /\ app \in Apps
    /\ asked \in Asked(app)
    /\ url = At(asked.path, asked.slash)
    /\ hops = 0 /\ at = "edge" /\ group = "default"
    /\ path = url /\ owed = NoLocale /\ rewritten = FALSE
    /\ headers = {} /\ resolved = Nothing /\ answer = NoAnswer

Redirected(to) ==
    /\ url' = to /\ hops' = hops + 1 /\ at' = "edge"
    /\ headers' = {} /\ resolved' = Nothing /\ owed' = NoLocale
    /\ UNCHANGED <<app, asked, group, path, rewritten, answer>>

Answered(a) ==
    /\ at' = "done" /\ answer' = a
    /\ UNCHANGED <<app, asked, url, hops, group, path, owed, rewritten, resolved>>

\* The edge matches as it is spelled.
EdgeGroup(p) == IF app.prefix # Nothing /\ IsPrefix(app.prefix, p) THEN "other" ELSE "default"
Reach ==
    /\ at = "edge" /\ hops <= MaxHops
    /\ group' = EdgeGroup(url.path)
    /\ at' = "received"
    /\ UNCHANGED <<app, asked, url, hops, path, owed, rewritten, headers, resolved, answer>>

\* Mutant: the root is left to resolveRoutes.
RootAsIs == url
\* Mutant: the slash taken off before resolveRoutes.
SlashOff == [url EXCEPT !.slash = FALSE]
\* withRootLocale
WithRootLocale ==
    IF app.locales # {} /\ url.path = <<>> /\ asked.lang = app.default
    THEN At(<<app.default>>, app.trailing) ELSE url

Unlocalized(p) == p # <<>> /\ p[1] \in {"_next", "api"}

\* dispatch, and resolveRoutes's locale: of a root in another locale, it owes a
\* redirect; to any other path without one it adds the default.
Receive ==
    LET given == WithRootLocale
    IN  /\ at = "received"
        /\ at' = "localized"
        /\ IF app.locales = {} \/ Unlocalized(given.path)
              \/ (given.path # <<>> /\ given.path[1] \in app.locales)
           THEN path' = given /\ owed' = NoLocale
           ELSE IF given.path = <<>> /\ asked.lang # app.default
           THEN path' = given /\ owed' = asked.lang
           ELSE /\ path' = [path |-> <<app.default>> \o given.path, slash |-> given.slash \/ given.path = <<>>]
                /\ owed' = NoLocale
        /\ UNCHANGED <<app, asked, url, hops, group, rewritten, headers, resolved, answer>>

\* resolveRoutes's beforeMiddleware: the headers() rules, and the redirect to the
\* path with its slash, or without it.
Canonical(p) == IF p.path = <<>> THEN p ELSE [p EXCEPT !.slash = app.trailing /\ ~HasExtension(p.path)]
BeforeMiddleware ==
    /\ at = "localized"
    /\ IF Canonical(path) # path THEN Redirected(Canonical(path))
       ELSE /\ headers' = headers \cup {"rules"}
            /\ at' = "middleware"
            /\ UNCHANGED <<app, asked, url, hops, group, path, owed, rewritten, resolved, answer>>

\* Mutant: resolveRoutes says nothing of them.
NoRules == {}
\* Mutant: with the locale's redirect.
WithLocation == {"rules", "location"}
\* beforeMiddlewareHeaders: the rules, run again, less the redirect that is not owed.
BeforeMiddlewareHeaders == {"rules"}

\* Middleware, invoked by resolveRoutes, goes on, rewrites, or answers itself.
Middleware ==
    /\ at = "middleware"
    /\ \/ /\ app.middleware = "next"
          /\ at' = "match" /\ UNCHANGED <<path, rewritten, headers, answer>>
       \/ /\ app.middleware = "rewrite"
          /\ at' = "match" /\ path' = [path |-> app.to, slash |-> FALSE] /\ rewritten' = TRUE
          /\ UNCHANGED <<headers, answer>>
       \/ /\ app.middleware = "respond"
          /\ at' = "done" /\ answer' = Answer("middleware", <<>>, <<>>)
          /\ headers' = BeforeMiddlewareHeaders
          /\ UNCHANGED <<path, rewritten>>
    /\ UNCHANGED <<app, asked, url, hops, group, owed, resolved>>

\* Mutant: as resolveRoutes concatenates it.
LocaleRootAsIs(locale) == At(<<locale>>, TRUE)
\* normalizeRedirectLocation
LocaleRoot(locale) == At(<<locale>>, app.trailing)

\* Templates that match whatever the case, in Next.js's order.
Dynamics(p) == {t \in app.entries : (\E i \in DOMAIN t : Kind(t[i]) # 0) /\ Stands(t, Lowered(p))}
Best(templates) == CHOOSE t \in templates : \A u \in templates \ {t} : Outranks(t, u)

\* resolveRoutes after middleware: a redirect owed; a pathname of that very string;
\* or the first dynamic route.
Match ==
    /\ at = "match"
    /\ IF owed # NoLocale THEN Redirected(LocaleRoot(owed))
       ELSE /\ resolved' = IF path.path \in Pathnames /\ Listed(path.path, path.slash) THEN path.path
                           ELSE IF Dynamics(path.path) # {} THEN Best(Dynamics(path.path)) ELSE Nothing
            /\ headers' = headers \cup {h \in {"immutable"} : IsPrefix(<<"_next", "static">>, path.path)}
            /\ at' = "resolved"
            /\ UNCHANGED <<app, asked, url, hops, group, path, owed, rewritten, answer>>

-----------------------------------------------------------------------------
(* dispatch's result, and what route does with it. *)

\* The values of the template's dynamic segments, as the URL spells them.
Values(template, p) ==
    LET first == CHOOSE i \in DOMAIN template : Kind(template[i]) # 0
    IN  IF \A i \in DOMAIN template : Kind(template[i]) = 0 THEN <<>> ELSE SubSeq(p, first, Len(p))

\* Mutant: the whole path in lower case.
LowerCanonical(p, template) == Lowered(p)
\* caseCanonicalPath: the template's literals and the URL's values, where the two
\* differ in nothing but case.
CaseCanonical(p, template) ==
    IF ~Stands(template, Lowered(p)) THEN p
    ELSE [i \in DOMAIN p |-> IF i <= Len(template) /\ Kind(template[i]) = 0 THEN template[i] ELSE p[i]]

\* Mutant: always the default.
DefaultLocale == app.default
RequestLocale == IF app.locales = {} THEN NoLocale
                 ELSE IF url.path # <<>> /\ url.path[1] \in app.locales THEN url.path[1] ELSE app.default

\* statusTarget: an entrypoint of that name, the locale's prerender, or `/_error`.
StatusTarget ==
    LET prerender == (IF RequestLocale = NoLocale THEN <<>> ELSE <<RequestLocale>>) \o <<"404">>
    IN  IF <<"404">> \in app.entries THEN <<"404">>
        ELSE IF prerender \in app.server THEN prerender
        ELSE IF <<"_error">> \in app.entries THEN <<"_error">> ELSE Nothing

\* Mutant: the header of the rule that matched stands.
Unreplaced == headers
NoStore == (headers \ {"immutable"}) \cup {"no-store"}
\* sendUnmatched: a page, unless it is a chunk or nothing would show it.
SendUnmatched ==
    /\ headers' = NoStore
    /\ \/ ~IsPrefix(<<"_next", "static">>, path.path) /\ Answered(Answer("404", StatusTarget, <<>>))
       \/ Answered(Answer("plain 404", <<>>, <<>>))

IsFile == \E f \in StaticFiles(resolved) : f.source # "server"

OptimizeImage ==
    /\ at = "resolved" /\ resolved = Image
    /\ IF app.images THEN Answered(Answer("image", <<>>, <<>>)) /\ UNCHANGED headers
       ELSE SendUnmatched

\* statusPageStatus
IsStatusPage(f) == f.source = "server" /\ Last(resolved) = "404"

\* A file is for GET and HEAD only, but for a metadata route's body and the status
\* pages; and may be in neither the package nor the bucket.
ServeStatic(f) ==
    /\ at = "resolved" /\ resolved # Image
    /\ f.source = "server" => resolved \notin app.entries
    /\ IF asked.method = "GET" \/ (f.source = "server" /\ (IsStatusPage(f) \/ HasExtension(f.file)))
       THEN \/ Answered(Answer(IF IsStatusPage(f) THEN "404" ELSE f.source, f.file, <<>>)) /\ UNCHANGED headers
            \/ ~IsStatusPage(f) /\ SendUnmatched
       ELSE Answered(Answer("405", <<>>, <<>>)) /\ UNCHANGED headers

\* A function whose package lacks what another group owns redirects to the spelling
\* that reaches it, if only the case is another.
Invoke ==
    /\ at = "resolved" /\ resolved # Image /\ ~IsFile /\ resolved \in app.entries
    /\ IF EdgeGroup(resolved) = group
       THEN Answered(Answer("entry", resolved, Values(resolved, path.path))) /\ UNCHANGED headers
       ELSE LET canonical == [url EXCEPT !.path = CaseCanonical(url.path, resolved)]
            IN  IF canonical # url THEN Redirected(canonical) ELSE SendUnmatched

NotFound ==
    /\ at = "resolved" /\ resolved = Nothing
    /\ SendUnmatched

Next ==
    \/ Reach \/ Receive \/ BeforeMiddleware \/ Middleware \/ Match
    \/ OptimizeImage \/ Invoke \/ NotFound
    \/ at = "resolved" /\ \E f \in StaticFiles(resolved) : ServeStatic(f)

Spec == Init /\ [][Next]_vars

-----------------------------------------------------------------------------
(* Properties. *)

TypeOK ==
    /\ at \in {"edge", "received", "localized", "middleware", "match", "resolved", "done"}
    /\ hops \in 0 .. MaxHops + 1 /\ group \in {"default", "other"}
    /\ path.path = <<>> => ~path.slash
    /\ owed \in app.locales \cup {NoLocale}
    /\ headers \subseteq {"rules", "immutable", "no-store"}
    /\ resolved \in Pathnames \cup {Nothing}
    /\ at = "done" <=> answer # NoAnswer

\* What `next start`, one process with every file, answers a URL with.
Wanted ==
    LET p == IF rewritten THEN app.to ELSE asked.path
        locale == IF app.locales = {} \/ Unlocalized(p) THEN NoLocale
                  ELSE IF p = <<>> THEN asked.lang
                  ELSE IF p[1] \in app.locales THEN p[1] ELSE app.default
        page == IF locale = NoLocale \/ (p # <<>> /\ p[1] = locale) THEN p ELSE <<locale>> \o p
        name == IF locale = NoLocale THEN page ELSE Tail(page)
        file(set, n) == {f \in set : f = [i \in DOMAIN n |-> Decoded(n[i])]}
    IN  IF p = Image THEN Answer(IF app.images THEN "image" ELSE "404", <<>>, <<>>)
        ELSE IF file(app.chunks, p) # {} THEN Answer("next-static", CHOOSE f \in file(app.chunks, p) : TRUE, <<>>)
        ELSE IF locale \in {NoLocale, app.default} \cup app.domains /\ file(app.public, name) # {}
        THEN Answer("public", CHOOSE f \in file(app.public, name) : TRUE, <<>>)
        ELSE IF page \in app.entries THEN Answer("entry", page, Values(page, page))
        ELSE IF page \in app.server
        THEN Answer(IF Last(page) = "404" THEN "404" ELSE "server", page, <<>>)
        ELSE IF Dynamics(page) # {} THEN Answer("entry", Best(Dynamics(page)), Values(Best(Dynamics(page)), page))
        ELSE Answer("404", <<>>, <<>>)

\* Whatever redirects it takes, a GET ends with what `next start` answers that URL
\* with, its values as the client spelled them; only a file may be missing
\* (Dispatcher, NextjsRuntime.route).
AnsweredAsAsked ==
    at = "done" /\ answer.kind # "middleware" /\ asked.method = "GET" =>
        \/ answer = Wanted
        \/ Wanted.kind = "404" /\ answer.kind \in {"404", "plain 404"}
        \/ answer.kind \in {"404", "plain 404"} /\ Wanted.kind \in {f.source : f \in StaticFiles(resolved)}

\* No URL is redirected in circles: to its slash, out of the root to its locale,
\* to its case, and no more.
RedirectsEnd == hops <= MaxHops

\* The root, in the default locale, is answered at once (withRootLocale), and in
\* another it is redirected once (normalizeRedirectLocation).
RootAtOnce ==
    at = "done" /\ asked.path = <<>> => hops = IF app.locales = {} \/ asked.lang = app.default THEN 0 ELSE 1

\* The headers() rules are on every answer, middleware's own too, and no 404 goes
\* out under the header of the file it is not (beforeMiddlewareHeaders, sendUnmatched).
RulesOnEveryAnswer ==
    at = "done" =>
        /\ "rules" \in headers
        /\ answer.kind = "plain 404" \/ (answer.kind = "404" /\ resolved = Nothing) =>
               "no-store" \in headers /\ "immutable" \notin headers

\* A 404 is in the locale of the URL (statusTargets), where the app has no
\* entrypoint for it.
NotFoundInLocale ==
    at = "done" /\ answer.kind = "404" /\ app.locales # {} /\ answer.what # Nothing =>
        answer.what[1] = IF asked.path # <<>> /\ asked.path[1] \in app.locales THEN asked.path[1]
                         ELSE IF asked.path = <<>> THEN asked.lang ELSE app.default
=================================================================================
