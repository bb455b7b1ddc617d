--------------------------------- MODULE Routes ---------------------------------
(***************************************************************************)
(* Paths, the templates of routes and the patterns of function groups, as  *)
(* src/adapter/function-groups.ts compares them. A path is a sequence of   *)
(* segments; "_" stands for any value no pattern and no template spells.   *)
(***************************************************************************)
EXTENDS Integers, Sequences, SequencesExt

AnySegment == "_"

\* segmentKind: 0 a literal, 1 `[param]`, 2 `[...catchAll]`, 3 `[[...optional]]`.
Dynamic == {"[p]", "[...c]", "[[...o]]"}
Kind(segment) == CASE segment = "[p]" -> 1 [] segment = "[...c]" -> 2
                   [] segment = "[[...o]]" -> 3 [] OTHER -> 0

\* An interception route's marked segment is a pair of the marker and the segment.
Entry(path, file, type) == [path |-> path, file |-> file, type |-> type, marker |-> "", at |-> 0]
Intercepting(path, file, marker, at) == [Entry(path, file, "app") EXCEPT !.marker = marker, !.at = at]
IsInterception(entry) == entry.marker # ""

Url(path, slash, data) == [path |-> path, slash |-> slash, data |-> data]
Spelled(path) == Url(path, FALSE, FALSE)

\* A group's pattern: an exact path, or all that is under one.
Exact(path)   == [path |-> path, under |-> FALSE]
Subtree(path) == [path |-> path, under |-> TRUE]

Lengths(path, deepest) ==
    CASE path = <<>> -> {0}
      [] Kind(Last(path)) = 2 -> Len(path) .. deepest
      [] Kind(Last(path)) = 3 -> Len(path) - 1 .. deepest
      [] OTHER -> {Len(path)}

\* templateRegex
Stands(template, path) ==
    /\ Len(path) \in Lengths(template, Len(path))
    /\ \A i \in 1 .. Len(path) :
          i <= Len(template) /\ Kind(template[i]) = 0 => path[i] = template[i]

KindAt(path, i) == IF i <= Len(path) THEN Kind(path[i]) ELSE 0
\* `dynamicRoutes` is in Next.js's order of priority.
Outranks(a, b) == \E i \in 1 .. Len(a) + Len(b) :
    KindAt(a, i) < KindAt(b, i) /\ \A j \in 1 .. i - 1 : KindAt(a, j) = KindAt(b, j)
-----------------------------------------------------------------------------
(* What Dispatch is given. *)

NoLocale == "none"
Nothing == <<"nothing">>
Image == <<"_next", "image">>

\* A build, `server` and `chunks` the manifest's staticFiles, `public` what is in
\* public/, `prefix` the subtree of another group, if any; its middleware, which
\* rewrites to `to`; and whether it optimizes images.
App(trailing, locales, default, domains, entries, server, chunks, public) ==
    [trailing |-> trailing, locales |-> locales, default |-> default, domains |-> domains,
     entries |-> entries, server |-> server, chunks |-> chunks, public |-> public,
     prefix |-> Nothing, middleware |-> "next", to |-> <<>>, images |-> TRUE]

Ask(p, slash, lang, method) == [path |-> p, slash |-> slash, lang |-> lang, method |-> method]
=================================================================================
