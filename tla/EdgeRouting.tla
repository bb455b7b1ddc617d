------------------------------ MODULE EdgeRouting ------------------------------
(***************************************************************************)
(* Who answers a URL of a deployed app. Its files go to a bucket           *)
(* (src/nextjs-static-assets.ts); in front of the functions there is either*)
(* CloudFront, which picks the first behavior whose pattern matches        *)
(* (src/nextjs-distribution.ts), or API Gateway, which picks a resource    *)
(* (src/nextjs-api.ts). A file neither can spell the name of is read by the*)
(* server. Names are sequences of characters, words that matter as a whole *)
(* being one; a path is a sequence of names.                               *)
(*                                                                         *)
(* An app: where it is, `base`; an assetPrefix, `cdn`; its public/ files   *)
(* and built chunks; its function groups' patterns, most specific first,   *)
(* and if they own Pages Router pages, `data`.                             *)
(***************************************************************************)
EXTENDS Integers, Sequences, SequencesExt, FiniteSets

CONSTANTS
    Wide    \* the characters no pattern spells, of two bytes each

Next      == <<"_next">>
StaticDir == <<Next, <<"static">>>>
Workers   == StaticDir \o <<<<"service-worker">>>>
ImagePath == <<Next, <<"image">>>>
DataDir   == <<Next, <<"data">>, <<"build">>>>

\* getLocalPublicDirEntries
PublicEntries(app) == {[name |-> Head(f), isDirectory |-> Len(f) > 1] : f \in app.public}

-----------------------------------------------------------------------------
(* The bucket. *)

\* Mutant: both copies of a file are uploaded, and the public one comes last.
PublicOver(app) == app.public
\* A public file of a built one's name is left out.
PublicUploads(app) == app.public \ app.chunks

\* An object: the file it is, and the Cache-Control it is uploaded with.
Object(app, file) ==
    [file |-> file, from |-> IF file \in PublicUploads(app) THEN "public" ELSE "built",
     cache |-> CASE file \in PublicUploads(app) -> "none"
                 [] IsPrefix(Workers, file) -> "revalidate" [] OTHER -> "immutable"]
\* createDeployments, all under the key prefix, which is the base path.
Bucket(app) == {[key |-> app.base \o f, object |-> Object(app, f)] : f \in PublicUploads(app) \cup app.chunks}
NotThere == [file |-> <<>>, from |-> "nowhere", cache |-> "none"]
Fetched(app, key) ==
    IF \E o \in Bucket(app) : o.key = key THEN (CHOOSE o \in Bucket(app) : o.key = key).object ELSE NotThere

-----------------------------------------------------------------------------
(* Patterns, of bytes: "?" stands for any one of them, a slash too, and "*", at the *)
(* end, for any number.                                                             *)

Bytes(name) == FlattenSeq([i \in DOMAIN name |->
                   IF name[i] \in Wide THEN <<name[i], "more">> ELSE <<name[i]>>])
BytesOf(path) == FlattenSeq([i \in DOMAIN path |-> <<"/">> \o Bytes(path[i])])

PatternMatches(pattern, url) ==
    LET bytes == BytesOf(url)
        open == Last(pattern) = "*"
        fixed == IF open THEN Front(pattern) ELSE pattern
    IN  /\ IF open THEN Len(bytes) >= Len(fixed) ELSE Len(bytes) = Len(fixed)
        /\ \A i \in DOMAIN fixed : fixed[i] \in {"?", bytes[i]}

\* Mutant: a character is a byte.
PathPatternOfChars(name) == [i \in DOMAIN name |-> IF name[i] \in Wide THEN "?" ELSE name[i]]
\* toPathPattern
ToPathPattern(name) == FlattenSeq([i \in DOMAIN name |-> IF name[i] \in Wide THEN <<"?", "?">> ELSE <<name[i]>>])
Spellable(name) == \E i \in DOMAIN name : name[i] \notin Wide

\* getPathPattern
Under(app, pattern) == BytesOf(app.base) \o <<"/">> \o pattern
Literal(path) == Tail(BytesOf(path))

\* publicPathPatterns, of the entries some character of which can be spelled.
PublicPattern(app, entry) ==
    Under(app, ToPathPattern(entry.name) \o (IF entry.isDirectory THEN <<"/", "*">> ELSE <<>>))
PublicPatterns(app) ==
    LET entries == SetToSeq({e \in PublicEntries(app) : Spellable(e.name)})
    IN  [i \in DOMAIN entries |-> PublicPattern(app, entries[i])]

\* pathPatternsFor
DataPath(route) == IF route.under THEN DataDir \o route.path
                   ELSE DataDir \o Front(route.path) \o <<Append(Last(route.path), ".json")>>
GroupPatterns(app) ==
    FlattenSeq([i \in DOMAIN app.groups |->
        LET route == app.groups[i]
            star == IF route.under THEN <<"/", "*">> ELSE <<>>
            pattern(path) == [pattern |-> Under(app, Literal(path) \o star), to |-> route.group]
        IN  <<pattern(route.path)>> \o (IF app.data THEN <<pattern(DataPath(route))>> ELSE <<>>)])

-----------------------------------------------------------------------------
(* CloudFront *)

Behavior(pattern, to) == [pattern |-> pattern, to |-> to]
\* resolveAssetPrefix: one that is the base path needs nothing.
OwnAssetPrefix(app) == app.cdn \notin {<<>>, app.base}
When(condition, behaviors) == IF condition THEN behaviors ELSE <<>>

HasWorkers(app) == \E f \in app.chunks : IsPrefix(Workers, f)

\* addServiceWorkerBehavior, addAssetPrefixBehavior
ServiceWorkerBehaviors(app) ==
    When(HasWorkers(app), <<Behavior(Under(app, Literal(Workers) \o <<"/", "*">>), "workers")>>)
AssetPrefixBehaviors(app) ==
    When(OwnAssetPrefix(app), <<Behavior(BytesOf(app.cdn \o StaticDir) \o <<"*">>, "rewritten")>>)
\* addStaticBehaviors
StaticBehaviors(app) ==
    ServiceWorkerBehaviors(app) \o <<Behavior(Under(app, Literal(StaticDir) \o <<"*">>), "bucket")>>
    \o AssetPrefixBehaviors(app)
    \o [i \in DOMAIN PublicPatterns(app) |-> Behavior(PublicPatterns(app)[i], "bucket")]
\* addDynamicBehaviors
DynamicBehaviors(app) ==
    <<Behavior(Under(app, Literal(ImagePath) \o <<"*">>), "default")>> \o GroupPatterns(app)
    \o When(app.base # <<>>, <<Behavior(BytesOf(app.base), "default"), Behavior(Under(app, <<"*">>), "default")>>)

\* Mutant: the functions first.
DynamicFirst(app) == DynamicBehaviors(app) \o StaticBehaviors(app)
Behaviors(app) == StaticBehaviors(app) \o DynamicBehaviors(app)

BehaviorFor(behaviors, url) ==
    LET matching == {i \in DOMAIN behaviors : PatternMatches(behaviors[i].pattern, url)}
    IN  IF matching = {} THEN "default"
        ELSE behaviors[CHOOSE i \in matching : \A j \in matching : i <= j].to

\* assetPrefixRewriteHandler
Rewritten(app, url) == app.base \o SubSeq(url, Len(app.cdn) + 1, Len(url))

\* assertBehaviorBudget, which counts before there is anything to count.
Total(app) ==
    3 + (IF app.base # <<>> THEN 2 ELSE 0) + (IF OwnAssetPrefix(app) THEN 1 ELSE 0)
    + (IF HasWorkers(app) THEN 1 ELSE 0) + Len(PublicPatterns(app)) + Len(GroupPatterns(app))

\* assertNoPublicCollisions, a pattern's text being looked at as if it were a URL.
TextMatches(pattern, text) ==
    LET open == Last(pattern) = "*"
        fixed == IF open THEN Front(pattern) ELSE pattern
    IN  /\ IF open THEN Len(text) >= Len(fixed) ELSE Len(text) = Len(fixed)
        /\ \A i \in DOMAIN fixed : fixed[i] \in {"?", text[i]}
PublicCollision(app) == \E p \in ToSet(PublicPatterns(app)), g \in ToSet(GroupPatterns(app)) :
    p = g.pattern \/ TextMatches(p, g.pattern)

-----------------------------------------------------------------------------
(* API Gateway: a tree of resources, below the base path. *)

Proxy == <<"{proxy+}">>
BuildId == <<"{buildId}">>
Resource(path, method, to) == [path |-> path, method |-> method, to |-> to]

\* API_PATH_PART
Expressible(name) == \A i \in DOMAIN name : name[i] \notin Wide

\* createStaticIntegrations
FileResources(app) ==
    {Resource(Append(StaticDir, Proxy), "GET", "bucket")}
    \cup (IF HasWorkers(app) THEN {Resource(Append(Workers, Proxy), "GET", "workers")} ELSE {})
    \cup {Resource(<<e.name>> \o (IF e.isDirectory THEN <<Proxy>> ELSE <<>>), "GET", "bucket") :
             e \in {e \in PublicEntries(app) : Expressible(e.name)}}

\* apiResourcePaths
RoutePaths(app) ==
    LET subtree(route) == IF route.under THEN <<Proxy>> ELSE <<>>
        data(route) == LET path == DataPath(route) IN [path EXCEPT ![3] = BuildId]
    IN  {Resource(r.path \o subtree(r), "ANY", r.group) : r \in ToSet(app.groups)}
        \cup {Resource(data(r) \o subtree(r), "ANY", r.group) : r \in {r \in ToSet(app.groups) : app.data}}

ParentsOf(resources) ==
    UNION {{SubSeq(r.path, 1, n) : n \in 1 .. Len(r.path) - 1} : r \in resources} \ {r.path : r \in resources}

\* Mutant: a parent is always the default function's.
ParentOwnerDefault(app, path) == "default"
\* apiParentPaths: a parent is the deepest subtree's it is in.
ParentOwner(app, path) ==
    LET over == {r \in RoutePaths(app) : /\ Last(r.path) = Proxy /\ Len(r.path) <= Len(path)
                                         /\ IsPrefix(Front(r.path), path)}
    IN  IF over = {} THEN "default"
        ELSE (CHOOSE r \in over : \A o \in over : Len(o.path) <= Len(r.path)).to

\* createFunctionGroupIntegrations, createDynamicIntegration. What is there for a
\* file and has no method of its own gets none.
Resources(app) ==
    LET files == FileResources(app)
        bare == ParentsOf(files)
    IN  files \cup {Resource(p, "none", "nobody") : p \in bare \ {r.path : r \in RoutePaths(app)}}
        \cup RoutePaths(app)
        \cup {Resource(p, "ANY", ParentOwner(app, p)) :
                 p \in ParentsOf(RoutePaths(app)) \ (bare \cup {r.path : r \in files})}
        \cup {Resource(<<>>, "ANY", "default"), Resource(<<Proxy>>, "ANY", "default")}

\* Which resource is a path's: the literal before the parameter before the rest.
Holds(resource, path) ==
    LET open == resource # <<>> /\ Last(resource) = Proxy
        fixed == IF open THEN Front(resource) ELSE resource
    IN  /\ IF open THEN Len(path) > Len(fixed) ELSE Len(path) = Len(fixed)
        /\ \A i \in DOMAIN fixed : fixed[i] \in {BuildId, path[i]}
Rank(resource, i) ==
    CASE i > Len(resource) -> 3 [] resource[i] = Proxy -> 2 [] resource[i] = BuildId -> 1 [] OTHER -> 0
Closer(a, b) == \E i \in 1 .. Len(a) + Len(b) :
    Rank(a, i) < Rank(b, i) /\ \A j \in 1 .. i - 1 : Rank(a, j) = Rank(b, j)
ResourceFor(resources, path) ==
    LET holding == {r \in resources : Holds(r.path, path)}
    IN  (CHOOSE r \in holding : \A o \in holding \ {r} : Closer(r.path, o.path)).to

\* assertNoApiPublicCollision
ApiCollision(app) == \E r \in ToSet(app.groups), e \in PublicEntries(app) :
    /\ e.name = Head(r.path)
    /\ IF e.isDirectory THEN r.under \/ Len(r.path) > 1 ELSE ~r.under /\ Len(r.path) = 1
\* assertApiRoutable
ApiRoutable(app) == \A r \in ToSet(app.groups) : \A i \in DOMAIN r.path : Expressible(r.path[i])

-----------------------------------------------------------------------------
\* NextjsApi makes a resource `_next` of its own, once.
HasNextDir(app) == [name |-> Next, isDirectory |-> TRUE] \in PublicEntries(app)
Accepted(app) == IF app.api THEN ApiRoutable(app) /\ ~ApiCollision(app) /\ ~HasNextDir(app)
                 ELSE ~PublicCollision(app)

From(to, object) == [to |-> to, object |-> object]
\* serveS3PublicFile: what public/ had is known to every function.
AnsweredBy(app, group, path) ==
    From(IF path \in app.public THEN "server" ELSE group,
         IF path \in app.public THEN Fetched(app, app.base \o path) ELSE NotThere)

Edge(app) == IF app.api THEN Resources(app) ELSE Behaviors(app)
\* Who answers a GET of a path below the base path.
Answered(app, edge, path) ==
    LET to == IF app.api THEN ResourceFor(edge, path) ELSE BehaviorFor(edge, app.base \o path)
    IN  CASE to \in {"bucket", "workers"} -> From(to, Fetched(app, app.base \o path))
          [] to = "nobody" -> From("nobody", NotThere)
          [] OTHER -> AnsweredBy(app, to, path)

\* fetchFromS3: the key of an image's source, of the href the page has for it.
Href(app, file) == (IF OwnAssetPrefix(app) /\ IsPrefix(<<Next>>, file) THEN app.cdn ELSE app.base) \o file
\* Mutant: the prefix is taken off whatever comes under it.
ImageKeyPlain(app, href) == SubSeq(href, Len(app.base) + 1, Len(href))
ImageKey(app, href) ==
    LET bare == IF app.cdn # <<>> /\ IsPrefix(Append(app.cdn, Next), href)
                THEN SubSeq(href, Len(app.cdn) + 1, Len(href)) ELSE href
    IN  app.base \o (IF IsPrefix(app.base, bare) THEN SubSeq(bare, Len(app.base) + 1, Len(bare)) ELSE bare)

-----------------------------------------------------------------------------
(* Properties. *)

Files(app) == app.public \cup app.chunks

\* Every file of a build is what a GET of its URL answers, whatever characters its
\* name has and whichever copy is built, with the Cache-Control and the behavior of
\* its kind, by a function only if its name cannot be spelled; at the CDN's URL too;
\* and its href leads the image optimizer to its object (NextjsStaticAssets, NextjsDistribution, NextjsApi, fetchFromS3).
FilesReached(app) == Accepted(app) => LET edge == Edge(app) IN \A file \in Files(app) :
    LET built == file \in app.chunks
        object == [file |-> file, from |-> IF built THEN "built" ELSE "public",
                   cache |-> IF ~built THEN "none" ELSE IF IsPrefix(Workers, file) THEN "revalidate" ELSE "immutable"]
    IN  /\ Answered(app, edge, file).object = object
        /\ built => (Answered(app, edge, file).to = "workers" <=> IsPrefix(Workers, file))
        /\ Answered(app, edge, file).to = "server" <=>
              ~(IF app.api THEN Expressible(Head(file)) ELSE Spellable(Head(file)))
        /\ Fetched(app, ImageKey(app, Href(app, file))) = object
        /\ built /\ OwnAssetPrefix(app) /\ ~app.api =>
              /\ BehaviorFor(edge, app.cdn \o file) = "rewritten"
              /\ Fetched(app, Rewritten(app, app.cdn \o file)) = object

\* The group whose pattern is the most specific that covers a path.
Covers(route, path) == IF route.under THEN Len(path) > Len(route.path) /\ IsPrefix(route.path, path)
                       ELSE path = route.path
GroupOf(app, path) ==
    LET over == {r \in ToSet(app.groups) : Covers(r, path)}
    IN  IF over = {} THEN "default"
        ELSE (CHOOSE r \in over : \A o \in over \ {r} : Len(o.path) < Len(r.path) \/ ~r.under).group

\* What is given away to the files: all that is in a directory of public/ or under
\* `_next/static`, the directory itself on API Gateway, what a wildcard takes in.
GivenAway(app, path) ==
    \/ IsPrefix(StaticDir, path)
    \/ path # <<>> /\ [name |-> Head(path), isDirectory |-> TRUE] \in PublicEntries(app)
           /\ (Len(path) > 1 \/ app.api)
    \/ app.api /\ path = <<Next>>
    \/ ~app.api /\ \E e \in PublicEntries(app) :
          Spellable(e.name) /\ ~Expressible(e.name) /\ PatternMatches(PublicPattern(app, e), app.base \o path)

\* Every other URL, and where public/ has no `_next` the data URL of every page,
\* reaches the function of the group whose pattern covers it best, at the edge as in
\* API Gateway's tree; an image the default one. CloudFront is asked for as many
\* behaviors as were counted (addStaticBehaviors, assertBehaviorBudget, NextjsApi).
RoutesReached(app, pages) == Accepted(app) => LET edge == Edge(app) IN
    /\ \A path \in pages \ Files(app) : ~GivenAway(app, path) => Answered(app, edge, path).to = GroupOf(app, path)
    /\ app.data /\ ~HasNextDir(app) => \A path \in pages : path # <<>> =>
          Answered(app, edge, DataPath([path |-> path, under |-> FALSE])).to = GroupOf(app, path)
    /\ HasNextDir(app) \/ Answered(app, edge, ImagePath).to = "default"
    /\ ~app.api => Total(app) = Len(edge) + 1

\* "CloudFront rejects a distribution with two behaviors on one path pattern"
\* (path-patterns.ts:167): no accepted app has two, unless two files' names differ in
\* what no pattern spells.
PatternsDistinct(app) ==
    ~app.api /\ Accepted(app) =>
        LET edge == Edge(app) IN \A i, j \in DOMAIN edge : i # j => edge[i].pattern # edge[j].pattern
=================================================================================
