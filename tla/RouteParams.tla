------------------------------ MODULE RouteParams ------------------------------
(***************************************************************************)
(* A dynamic route's params on their way from the URL to the page: captured *)
(* and put in a query by @next/routing, repaired by repairRouteParamQuery,  *)
(* handed over by outOfBandRouteParams where the query cannot carry them    *)
(* (src/runtime/dispatch.ts), and recovered by RouteModule.prepare.         *)
(*                                                                         *)
(* A capture is its segments, one unless the param repeats, of tokens; Unset*)
(* is that of an optional catch-all the URL does not fill.                  *)
(***************************************************************************)
EXTENDS Integers, Sequences, SequencesExt, Functions

CONSTANTS
    Templates, \* each: its params in order, see Param
    Segments   \* what a URL's segment may be

Unset == <<>>

\* A name is its letters: "id" is how "id2" begins. `kept` is FALSE of a param that a
\* rewrite's destination leaves out.
Param(name, repeats, optional, kept) ==
    [name |-> name, repeats |-> repeats, optional |-> optional, kept |-> kept]

Capturable(param) == {<<s>> : s \in Segments}
    \cup (IF param.repeats THEN Segments \X Segments ELSE {})
    \cup (IF param.optional THEN {Unset} ELSE {})

\* Every request of every route: what its params capture.
Requested == UNION {{[route |-> route, captured |-> c] :
                       c \in {c \in [DOMAIN route -> UNION {Capturable(route[i]) : i \in DOMAIN route}] :
                                \A i \in DOMAIN route : c[i] \in Capturable(route[i])}} : route \in Templates}

Kept(r) == {i \in DOMAIN r.route : r.route[i].kept}

-----------------------------------------------------------------------------
(* @next/routing *)

\* `$name` is replaced all over the destination, name after name, so a placeholder
\* whose name begins with an earlier one is taken for that one.
Expanded(r) ==
    [i \in Kept(r) |->
        LET shadows == {j \in 1 .. i - 1 : IsPrefix(r.route[j].name, r.route[i].name)}
            j == CHOOSE j \in shadows : \A k \in shadows : j <= k
            value == r.captured[j]
            rest == SubSeq(r.route[i].name, Len(r.route[j].name) + 1, Len(r.route[i].name))
        IN  IF shadows = {} THEN r.captured[i]
            ELSE IF value = Unset THEN <<rest>>
            ELSE [value EXCEPT ![Len(value)] = @ \o rest]]

-----------------------------------------------------------------------------
\* Mutant: as @next/routing expanded it.
AsExpanded(r) == Expanded(r)
\* Mutant: what the expansion made of a param, which none fills, is kept as a param.
UnfilledKept(r) == [i \in Kept(r) |-> IF r.captured[i] = Unset THEN Expanded(r)[i] ELSE r.captured[i]]
\* repairRouteParamQuery: of the params in the query, the capture where there is one,
\* else what the expansion left, if it left anything.
Repaired(r) ==
    LET value == [i \in Kept(r) |-> IF r.captured[i] = Unset THEN Expanded(r)[i] ELSE r.captured[i]]
    IN  Restrict(value, {i \in Kept(r) : value[i] # Unset})

Delimits(value) == \E k \in DOMAIN value : \E n \in DOMAIN value[k] : value[k][n] = "%2F"

Decoded(segment) == [n \in DOMAIN segment |-> CASE segment[n] = "%2F" -> "/" [] segment[n] = "%25" -> "%"
                                                [] OTHER -> segment[n]]
Split(segment) ==
    FoldLeft(LAMBDA parts, t : IF t = "/" THEN Append(parts, <<>>)
                               ELSE [parts EXCEPT ![Len(parts)] = Append(@, t)], <<<<>>>>, segment)

\* Mutant: decoded before it is split.
SplitDecoded(value) == FlattenSeq([k \in DOMAIN value |-> Split(Decoded(value[k]))])
Restated(value) == [k \in DOMAIN value |-> Decoded(value[k])]
\* Mutant: the query is trusted with them all.
NeverOutOfBand(query) == FALSE
\* outOfBandRouteParams: all the params, where one has an encoded slash.
OutOfBand(query) == \E i \in DOMAIN query : Delimits(query[i])

\* RouteModule.prepare: params as they are given; else each of the query, decoded and,
\* where it repeats, split.
Prepared(r, query) ==
    [i \in DOMAIN query |->
        IF OutOfBand(query) THEN Restated(query[i])
        ELSE IF r.route[i].repeats THEN FlattenSeq([k \in DOMAIN query[i] |-> Split(Decoded(query[i][k]))])
        ELSE [k \in DOMAIN query[i] |-> Decoded(query[i][k])]]

Recovered(r) == Prepared(r, Repaired(r))

-----------------------------------------------------------------------------
(* Property. *)

Filled(r) == {i \in Kept(r) : r.captured[i] # Unset}
\* Nothing fills it, and its name begins with an earlier param's: the expansion fills it.
Leftover(r) == {i \in Kept(r) \ Filled(r) : \E j \in 1 .. i - 1 : IsPrefix(r.route[j].name, r.route[i].name)}

\* A page is rendered with the params `next start` gives it, each a segment of the
\* URL decoded once, whatever the names, slashes and absences (dispatch.ts,
\* repairRouteParamQuery, outOfBandRouteParams); except that /[id]/[[...id2]] at /a has
\* an id2, which is `a2`.
ParamsAsCaptured(r) ==
    LET params == Recovered(r)
    IN  Restrict(params, DOMAIN params \ Leftover(r)) =
            [i \in Filled(r) |-> [k \in DOMAIN r.captured[i] |-> Decoded(r.captured[i][k])]]
=================================================================================
