------------------------------- MODULE BasePaths -------------------------------
(***************************************************************************)
(* resolveBasePath (src/utils/base-path.ts): the base path a deployment is *)
(* put under, from the `basePath` prop, that of the app's config, and what *)
(* API Gateway takes off a path before it looks for a resource. A path is  *)
(* its segments, without the slashes around it (normalizeBasePath).        *)
(***************************************************************************)
EXTENDS Sequences, SequencesExt

CONSTANTS Paths   \* base paths, the empty one included

Unset == <<"unset">>
Types == {"global", "regional functions", "regional containers"}

\* `prop` may be left out, which an empty one is not. API Gateway strips `strip`, the
\* stage's name or what a `custom` domain maps (apiGatewayPrefixFrom), unless that is
\* only known once deployed.
Givens == [type : Types, prop : Paths \cup {Unset}, config : Paths,
           known : BOOLEAN, strip : Paths, custom : BOOLEAN]
Prop(g) == IF g.prop = Unset THEN <<>> ELSE g.prop

-----------------------------------------------------------------------------
HasPathPrefix(path, prefix) == prefix # <<>> /\ IsPrefix(prefix, path)
After(path, prefix) == SubSeq(path, Len(prefix) + 1, Len(path))
EndsIn(path, suffix) == Len(suffix) < Len(path) /\ IsSuffix(suffix, path)

Base(path, said) == [base |-> path, said |-> said]
Refused == Base(Unset, "refused")

Stripping(g) == g.known /\ g.strip # <<>>
StartsWithStripped(g, path) == g.known /\ HasPathPrefix(path, g.strip)
\* warnUnstrippedBasePath: links without the prefix do not reach the app.
Unstripped(g, path) == Base(path, IF Stripping(g) THEN "warning" ELSE "nothing")

\* deriveApiGatewayBasePath
Derived(g) ==
    CASE g.config = <<>> \/ ~g.known -> Base(<<>>, "nothing")
      [] StartsWithStripped(g, g.config) -> Base(After(g.config, g.strip), "nothing")
      [] OTHER -> Unstripped(g, g.config)

\* Prop and config are the same.
Agreed(g) ==
    CASE g.type = "regional functions" /\ StartsWithStripped(g, Prop(g)) ->
            IF g.custom THEN Refused ELSE Base(Prop(g), "warning")
      [] g.type = "regional functions" /\ Prop(g) # <<>> -> Unstripped(g, Prop(g))
      [] OTHER -> Base(Prop(g), "nothing")

\* Mutant: any config the prop ends will do.
AnyMapping(g) ==
    CASE EndsIn(g.config, Prop(g)) -> Base(Prop(g), "nothing")
      [] OTHER -> Refused
\* A prop of its own for API Gateway, which a mapping must turn the app's links into.
Mapped(g) ==
    CASE IF g.known THEN g.config = g.strip \o Prop(g) ELSE EndsIn(g.config, Prop(g))
            -> Base(Prop(g), "nothing")
      [] ~g.custom /\ EndsIn(g.config, Prop(g)) -> Base(Prop(g), "warning")
      [] OTHER -> Refused

ResolveBasePath(g) ==
    CASE Prop(g) = g.config /\ g.type # "regional containers" -> Agreed(g)
      [] g.type = "regional containers" -> Base(Prop(g), "nothing")
      [] g.type = "global" -> IF Prop(g) = <<>> THEN Base(g.config, "nothing") ELSE Refused
      [] Prop(g) = <<>> -> IF g.prop = <<>> THEN Base(<<>>, "nothing") ELSE Derived(g)
      [] OTHER -> Mapped(g)

-----------------------------------------------------------------------------
(* Property. *)

\* Where the app's links arrive: behind what is stripped, CloudFront strips nothing.
Reaches(g, base) ==
    CASE g.type = "global" -> g.config = base
      [] g.type = "regional functions" -> g.config = g.strip \o base

\* What a domain attached afterwards may strip, or a custom one does.
Strips(g) == IF g.custom THEN {g.strip} ELSE {SubSeq(g.config, 1, n) : n \in 0 .. Len(g.config)}

\* Nothing is said of a base path if and only if the app's own links reach the app
\* there, an explicit root aside, and none is refused that some mapping would serve
\* (resolveBasePath).
SilentIfReached(g) ==
    LET resolved == ResolveBasePath(g)
        told == g.known /\ g.config # <<>> /\ g.prop # <<>> /\ g.type # "regional containers"
    IN  /\ told => (resolved.said = "nothing" <=> resolved.said # "refused" /\ Reaches(g, resolved.base))
        /\ resolved.said = "refused" /\ g.known /\ g.type = "regional functions" =>
              \A strip \in Strips(g) : g.config # strip \o Prop(g)
=================================================================================
