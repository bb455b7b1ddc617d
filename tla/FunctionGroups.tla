----------------------------- MODULE FunctionGroups -----------------------------
(***************************************************************************)
(* `functionGroups` (src/adapter/function-groups.ts): each file of the     *)
(* build goes into the package of one function, and CloudFront sends each  *)
(* URL to one function, by patterns. The build assigns the files, replays  *)
(* the URLs, and refuses what a package would lack a file for.             *)
(*                                                                         *)
(* The basePath, in front of every path alike, and the templates of RSC    *)
(* payloads, asked for at their page's URL, are left out.                  *)
(***************************************************************************)
EXTENDS Routes, FiniteSets

CONSTANTS
    Literals,    \* the segments templates and patterns spell
    Depth,       \* bound: the segments of a URL
    Builds,      \* what is built: [entries, rules]
    Splits(_)    \* the `functionGroups` each is tried with

VARIABLES
    project,   \* [entries, groups, rules, slashes]: what is built, and how it is split
    left,      \* the entries assignRoutesToGroups has yet to visit
    winner,    \* winningIndexOfEntrypoint: file -> the pattern that won it
    groupOf,   \* groupOfEntrypoint, DEFAULT_FUNCTION_GROUP where it has none
    phase      \* how far the build is, or why it was refused

vars == <<project, left, winner, groupOf, phase>>

Default == "default"
NoFile == <<"none">>
NoClaim == [declared |-> 0]

Files == {e.file : e \in project.entries}
Phases == {"validate", "assign", "match", "intercept", "replay", "rewrites",
           "accepted", "invalid", "typo", "split", "misrouted", "crossing"}

TypeOK ==
    /\ phase \in Phases /\ left \subseteq project.entries
    /\ DOMAIN winner = Files /\ DOMAIN groupOf = Files
    /\ \A f \in Files : groupOf[f] \in {Default} \cup {g.name : g \in Range(project.groups)}
    /\ phase \in {"validate", "invalid"} => left = project.entries
    /\ phase = "accepted" => left = {} /\ project.groups # <<>>

-----------------------------------------------------------------------------
(* validateFunctionGroups. *)

ValidRoute(route) == route.path # <<>> /\ \A s \in Range(route.path) : s \in Literals

\* Mutant: what is given is not looked at as a whole.
ValidEach(groups) == \A g \in Range(groups) : \A route \in Range(g.routes) : ValidRoute(route)
ValidGroups(groups) ==
    /\ groups # <<>>
    /\ \A g \in Range(groups) :
          /\ g.name # Default /\ g.routes # <<>>
          /\ \A route \in Range(g.routes) : ValidRoute(route)
    /\ \A i, j \in DOMAIN groups :
          i # j => /\ groups[i].name # groups[j].name
                   /\ Range(groups[i].routes) \cap Range(groups[j].routes) = {}
    /\ \A g \in Range(groups) : \A i, j \in DOMAIN g.routes : i # j => g.routes[i] # g.routes[j]

-----------------------------------------------------------------------------
(* CloudFront's behaviors, and the one it picks. *)

\* pathPatternsFor: the path itself, its `trailingSlash` form, its data URLs.
PathPatterns(route, hasData) ==
    {[route |-> route, path |-> route.path, under |-> route.under, slash |-> FALSE, data |-> FALSE]}
    \cup {[route |-> route, path |-> route.path, under |-> FALSE, slash |-> TRUE, data |-> FALSE] :
             r \in {r \in {route} : ~r.under /\ project.slashes}}
    \cup {[route |-> route, path |-> route.path, under |-> route.under, slash |-> FALSE, data |-> TRUE] :
             r \in {r \in {route} : hasData}}

\* A wildcard stands for at least nothing, but behind a slash.
Matches(pattern, url) ==
    /\ url.data = pattern.data
    /\ IF pattern.under
       THEN /\ IsPrefix(pattern.path, url.path)
            /\ Len(url.path) > Len(pattern.path) \/ url.slash
       ELSE url.path = pattern.path /\ url.slash = pattern.slash

SegmentsOf(pattern) == Len(pattern.path) + (IF pattern.data THEN 3 ELSE 0)
\* behaviorSpecificity, less the length, which never decides between two that match.
Specificity(pattern) ==
    100 * (2 * SegmentsOf(pattern) + (IF pattern.under THEN 0 ELSE 1))
    + SegmentsOf(pattern) + (IF pattern.under THEN 1 ELSE 0)

\* The order of the list: a stable sort, so the order of declaration decides a tie.
Before(a, b) ==
    \/ Specificity(a) > Specificity(b)
    \/ Specificity(a) = Specificity(b) /\ a.declared < b.declared

\* routedPatterns: the parent of an optional catch-all a subtree moved.
RoutedPatterns(routes, owned) ==
    routes \o SetToSeq({Exact(r.path) : r \in {r \in Range(routes) :
        /\ r.under /\ Exact(r.path) \notin Range(routes)
        /\ \E path \in owned : Len(path) = Len(r.path) + 1 /\ IsPrefix(r.path, path)
                               /\ Kind(Last(path)) = 3}})

EdgeBehaviors(owned, dataGroups) ==
    UNION {LET group == project.groups[g]
               routes == RoutedPatterns(group.routes, owned[group.name])
           IN  UNION {{[group |-> group.name, declared |-> 10 * g + r] @@ p :
                          p \in PathPatterns(routes[r], group.name \in dataGroups)} :
                      r \in DOMAIN routes} :
           g \in DOMAIN project.groups}

BehaviorFor(behaviors, url) ==
    LET matching == {b \in behaviors : Matches(b, url)}
    IN  CHOOSE b \in matching : \A c \in matching \ {b} : Before(b, c)
GroupFor(behaviors, url) ==
    IF \E b \in behaviors : Matches(b, url) THEN BehaviorFor(behaviors, url).group ELSE Default

\* templatesByGroup
Owned == [g \in {group.name : group \in Range(project.groups)} \cup {Default} |->
             {e.path : e \in {e \in project.entries : groupOf[e.file] = g}}]
\* Only a group that owns a Pages Router page has data URLs.
DataGroups == {groupOf[e.file] : e \in {e \in project.entries : e.type = "page"}}
Behaviors == EdgeBehaviors(Owned, DataGroups)

-----------------------------------------------------------------------------
(* How Next.js resolves a path (resolveFile): a template of that name, or the   *)
(* first dynamic one that matches.                                              *)

ResolveFile(path, data) ==
    LET known == {e \in project.entries : ~IsInterception(e) /\ (data => e.type = "page")}
        exact == {e \in known : e.path = path}
        match == {e \in known : Stands(e.path, path)}
    IN  IF exact # {} THEN (CHOOSE e \in exact : TRUE).file
        ELSE IF match = {} THEN NoFile
        ELSE (CHOOSE e \in match : \A o \in match \ {e} : Outranks(e.path, o.path)).file

-----------------------------------------------------------------------------
(* The assignment. *)

Init ==
    /\ \E build \in Builds : \E groups \in Splits(build.entries) : \E slashes \in BOOLEAN :
          project = [entries |-> build.entries, rules |-> build.rules,
                     groups |-> groups, slashes |-> slashes]
    /\ left = project.entries
    /\ winner = [f \in Files |-> NoClaim]
    /\ groupOf = [f \in Files |-> Default]
    /\ phase = "validate"

Validate ==
    /\ phase = "validate"
    /\ phase' = IF ValidGroups(project.groups) THEN "assign" ELSE "invalid"
    /\ UNCHANGED <<project, left, winner, groupOf>>

Declared == EdgeBehaviors([g \in {group.name : group \in Range(project.groups)} |-> {}], {})
MatchesOf(entry) == IF IsInterception(entry) THEN {b \in Declared : b.under /\ Len(b.path) < entry.at
                                                                   /\ IsPrefix(b.path, entry.path)}
                    ELSE {b \in Declared : Matches(b, Spelled(entry.path))}

\* Mutant: the last entry visited decides.
TakesOver(pattern, incumbent) == TRUE
\* A file keeps the best claim of all its templates, in whatever order they come.
Wins(pattern, incumbent) == incumbent = NoClaim \/ Before(pattern, incumbent)

Assign(entry) ==
    /\ phase = "assign" /\ entry \in left
    /\ left' = left \ {entry}
    /\ LET claims == MatchesOf(entry)
           best == CHOOSE b \in claims : \A c \in claims \ {b} : Before(b, c)
       IN  IF claims # {} /\ ~IsInterception(entry) /\ Wins(best, winner[entry.file])
           THEN /\ winner' = [winner EXCEPT ![entry.file] = best]
                /\ groupOf' = [groupOf EXCEPT ![entry.file] = best.group]
           ELSE UNCHANGED <<winner, groupOf>>
    /\ UNCHANGED <<project, phase>>

\* A pattern that matches no template, even in another's shadow, is a typo.
MatchPatterns ==
    /\ phase = "assign" /\ left = {}
    /\ phase' = IF \A g \in Range(project.groups) : \A r \in Range(g.routes) :
                      \E e \in project.entries : \E b \in MatchesOf(e) : b.group = g.name /\ b.route = r
                THEN "intercept" ELSE "typo"
    /\ UNCHANGED <<project, left, winner, groupOf>>

\* interceptedRoute: what is asked for where the intercepting file answers.
InterceptedRoute(entry) ==
    LET up == CASE entry.marker = "(.)" -> 0 [] entry.marker = "(..)" -> 1
                [] entry.marker = "(..)(..)" -> 2 [] entry.marker = "(...)" -> entry.at - 1
    IN  SubSeq(entry.path, 1, entry.at - 1 - up) \o SubSeq(entry.path, entry.at, Len(entry.path))

\* One URL a group's pattern routes.
SampleUrl(route) == IF route.under THEN Append(route.path, AnySegment) ELSE route.path

\* Mutant: whoever owns the intercepted path as it is spelled.
NeverSplit(entry) == FALSE
SplitBetweenGroups(entry) == \E b \in Behaviors :
    /\ b.group # GroupFor(Behaviors, Spelled(InterceptedRoute(entry))) /\ ~b.data
    /\ Stands(InterceptedRoute(entry), SampleUrl(b.route))

\* reassignInterceptingFiles
Intercept ==
    LET moved == {e \in project.entries : IsInterception(e)}
    IN  /\ phase = "intercept"
        /\ IF \E e \in moved : SplitBetweenGroups(e)
           THEN phase' = "split" /\ UNCHANGED groupOf
           ELSE /\ phase' = "replay"
                /\ groupOf' = [f \in Files |->
                      IF \E e \in moved : e.file = f
                      THEN GroupFor(Behaviors, Spelled(InterceptedRoute(
                               CHOOSE e \in moved : e.file = f)))
                      ELSE groupOf[f]]
        /\ UNCHANGED <<project, left, winner>>
-----------------------------------------------------------------------------
(* assertEdgeReachesEveryFile *)

DataPath(path) == IF path = <<>> THEN <<"index">> ELSE path

\* urlVariants
UrlVariants(path, type) ==
    {Spelled(path)}
    \cup {Url(p, TRUE, FALSE) : p \in {p \in {path} : project.slashes /\ p # <<>>}}
    \cup {Url(DataPath(p), FALSE, TRUE) : p \in {p \in {path} : type = "page"}}

\* servedUrls
ServedUrls(entry) ==
    IF IsInterception(entry) THEN {}
    ELSE UNION {UrlVariants(p, entry.type) :
            p \in {entry.path} \cup {Front(q) : q \in {q \in {entry.path} : q # <<>> /\ Kind(Last(q)) = 3}}}

Longest(paths) == IF paths = {} THEN 0 ELSE CHOOSE n \in {Len(p) : p \in paths} : \A p \in paths : Len(p) <= n
Deepest == 1 + Longest({e.path : e \in {e \in project.entries : ~IsInterception(e)}})
Larger(a, b) == IF a > b THEN a ELSE b

\* sampleTemplatePaths: a path of each length in both the template's URLs and the pattern's.
SamplePaths(template, b) ==
    IF ~b.under THEN {p \in {b.path} : Stands(template, p)}
    ELSE LET prefix == b.path
             sample(n) == [i \in 1 .. n |->
                              IF i <= Len(template) /\ Kind(template[i]) = 0 THEN template[i]
                              ELSE IF i <= Len(prefix) THEN prefix[i] ELSE AnySegment]
         IN  {s \in {sample(n) : n \in Lengths(template, Larger(Deepest, Len(prefix) + 1))} :
                 IsPrefix(prefix, s)}

\* Mutant: the default group's files are taken to be where nothing else matches.
CapturedNever(entry, behaviors) == {}
\* Mutant: a sample that another file answers counts too.
CapturedAny(entry, behaviors) ==
    UNION {UrlVariants(p, entry.type) : p \in UNION {SamplePaths(entry.path, b) :
               b \in {b \in behaviors : b.group # groupOf[entry.file] /\ ~b.data}}}
\* capturedDynamicUrls: samples Next.js resolves to this file, and the edge sends elsewhere.
CapturedUrls(entry, behaviors) ==
    IF IsInterception(entry) \/ \A i \in DOMAIN entry.path : Kind(entry.path[i]) = 0 THEN {}
    ELSE LET samples == UNION {SamplePaths(entry.path, b) :
                            b \in {b \in behaviors : b.group # groupOf[entry.file] /\ ~b.data}}
         IN  {url \in UNION {UrlVariants(s, entry.type) : s \in samples} :
                 ResolveFile(url.path, url.data) = entry.file}

MisroutedUrls(entry) ==
    {url \in ServedUrls(entry) \cup CapturedUrls(entry, Behaviors) :
        GroupFor(Behaviors, url) # groupOf[entry.file]}

Replay ==
    /\ phase = "replay"
    /\ phase' = IF \A e \in project.entries : MisroutedUrls(e) = {} THEN "rewrites" ELSE "misrouted"
    /\ UNCHANGED <<project, left, winner, groupOf>>

-----------------------------------------------------------------------------
(* assertRewritesStayInGroup: a rewrite is applied in the function it reached. *)

\* rewriteSourceUrls: a parameter is spelled as a segment; an optional one may be absent.
RewriteSources(rule) ==
    {rule.source} \cup {Front(s) : s \in {s \in {rule.source} : rule.optional}}

\* Mutant: an optional parameter is always there.
CrossesSpelled(rule) ==
    /\ ResolveFile(rule.destination, FALSE) # NoFile
    /\ GroupFor(Behaviors, Spelled(rule.source)) # groupOf[ResolveFile(rule.destination, FALSE)]
CrossesGroups(rule) ==
    LET file == ResolveFile(rule.destination, FALSE)
    IN  /\ file # NoFile
        /\ \E path \in RewriteSources(rule) :
              /\ rule.at # "beforeFiles" => \A e \in project.entries : e.path # path
              /\ GroupFor(Behaviors, Spelled(path)) # groupOf[file]

CheckRewrites ==
    /\ phase = "rewrites"
    /\ phase' = IF \E rule \in project.rules : CrossesGroups(rule) THEN "crossing" ELSE "accepted"
    /\ UNCHANGED <<project, left, winner, groupOf>>

Next ==
    \/ Validate
    \/ \E entry \in project.entries : Assign(entry)
    \/ MatchPatterns \/ Intercept \/ Replay \/ CheckRewrites

Spec == Init /\ [][Next]_vars
-----------------------------------------------------------------------------
(* Properties. *)

Paths == UNION {[1 .. n -> Literals \cup {AnySegment}] : n \in 0 .. Depth}
Urls == {Url(p, FALSE, FALSE) : p \in Paths} \cup {Url(p, FALSE, TRUE) : p \in Paths \ {<<>>}}
        \cup {Url(p, TRUE, FALSE) : p \in {p \in Paths \ {<<>>} : project.slashes}}
\* The data URL of the home page is that of `index`.
FileFor(url) ==
    IF url.data /\ url.path = <<"index">> /\ ResolveFile(<<>>, TRUE) # NoFile THEN ResolveFile(<<>>, TRUE)
    ELSE ResolveFile(url.path, url.data)
Misrouted(url) == FileFor(url) # NoFile /\ groupOf[FileFor(url)] # GroupFor(Behaviors, url)

\* Of a build that is accepted, every URL there is, whatever values its dynamic
\* segments have, reaches a function with the file Next.js resolves it to
\* (assignRoutesToGroups), though only a few URLs are replayed.
EveryUrlReachesItsFile == phase = "accepted" => \A url \in Urls : ~Misrouted(url)

\* Whatever order the entries come in, a file is with the most specific claim of all
\* its templates (assignRoutesToGroups, winningIndexOfEntrypoint).
BestClaimWins ==
    phase \in {"intercept", "split"} => \A f \in Files :
        LET claims == UNION {MatchesOf(e) : e \in {e \in project.entries : e.file = f /\ ~IsInterception(e)}}
        IN  IF claims = {} THEN groupOf[f] = Default
            ELSE groupOf[f] = (CHOOSE b \in claims : \A c \in claims \ {b} : Before(b, c)).group

\* A soft navigation asks for the intercepted URL: wherever that goes, the
\* intercepting file is, unless a literal is behind a parameter of that URL or the
\* URL ends in a slash (reassignInterceptingFiles).
Intercepts(entry, url) == ~url.data /\ IsInterception(entry) /\ Stands(InterceptedRoute(entry), url.path)
LiteralBehindParameter(path) == \E i, j \in DOMAIN path : i < j /\ Kind(path[i]) # 0 /\ Kind(path[j]) = 0
InterceptedReachesItsFile ==
    phase = "accepted" => \A entry \in project.entries : \A url \in Urls :
        Intercepts(entry, url) /\ ~url.slash /\ ~LiteralBehindParameter(InterceptedRoute(entry)) =>
            GroupFor(Behaviors, url) = groupOf[entry.file]

\* "Moving the file there is always possible unless the intercepted URL space is
\* itself split", and "That throws" (function-groups.ts:898-900).
SplitInterceptionThrows ==
    phase = "accepted" => \A entry \in project.entries : \A url \in Urls :
        Intercepts(entry, url) /\ ~url.slash => GroupFor(Behaviors, url) = groupOf[entry.file]

\* Of a rewrite to a literal path, every source URL that it applies to reaches the
\* destination's file, where a parameter is a value that no pattern spells
\* (assertRewritesStayInGroup). But for an `afterFiles` rewrite of a source that is
\* spelled as a dynamic template is: that comes after it, and is taken to come before.
Named(path) == [i \in DOMAIN path |-> IF Kind(path[i]) = 0 THEN path[i] ELSE AnySegment]
IsTemplate(path) == \E e \in project.entries : ~IsInterception(e) /\ e.path = path
LacksFile(rule, p) ==
    LET file == ResolveFile(rule.destination, FALSE)
    IN  file # NoFile /\ GroupFor(Behaviors, Spelled(Named(p))) # groupOf[file]
RewritesReachTheirFile ==
    phase = "accepted" => \A rule \in project.rules : \A p \in RewriteSources(rule) :
        LacksFile(rule, p) => \/ rule.at = "afterFiles" /\ IsTemplate(p)
                              \/ rule.at = "fallback" /\ ResolveFile(Named(p), FALSE) # NoFile

\* A build is refused as misrouted only if some URL really is; for a pattern, if each
\* file it sends a URL of to its group is there for another pattern, or is asked for at
\* another URL too, so that it cannot be moved; for an interception, if what it intercepts goes to two functions; for
\* a rewrite, if a function gets its source and lacks the file, and no file is there
\* (functionGroups). What it does not ask is whether a dynamic template answers
\* the source of a `fallback` rewrite, which then never applies: that is refused too.
RefusedForCause ==
    /\ phase = "misrouted" => \E url \in Urls : Misrouted(url)
    /\ phase = "typo" => \E b \in Declared : \A url \in {u \in Urls : Matches(b, u)} :
          FileFor(url) = NoFile \/ groupOf[FileFor(url)] = b.group
          \/ \E other \in Urls : FileFor(other) = FileFor(url) /\ GroupFor(Declared, other) # b.group
    /\ phase = "split" => \E entry \in project.entries : \E u, v \in Urls :
          /\ Intercepts(entry, u) /\ Intercepts(entry, v)
          /\ GroupFor(Behaviors, u) # GroupFor(Behaviors, v)
    /\ phase = "crossing" => \E rule \in project.rules : \E p \in RewriteSources(rule) :
          LacksFile(rule, p) /\ (rule.at # "beforeFiles" => ~IsTemplate(Named(p)))
=============================================================================
