------------------------------ MODULE MCDeployment ------------------------------
(* What a deployment goes through, one part of it in a behaviour: the rows of a tag   *)
(* its instances share, MarkerRows; how FunctionGroups splits an app; PostDeploy, of  *)
(* an app at the root of a bucket shared with another; RedeployStage; NextjsBuild. Or *)
(* what is made of an `input` when it is built: BasePaths, EdgeRouting, Prerenders,   *)
(* BuildOutputs, Wiring, ViewerFunctions. The variables of the others  *)
(* stay as they are.                                                                 *)
EXTENDS MarkerRows, PostDeploy, RedeployStage, NextjsBuild, AppMenus, TLC
CONSTANTS i1, i2, a, b, c, none
VARIABLES mode, input,
          project, unvisited, winner, groupOf, splitPhase

MCInstances == {i1, i2}
OneAhead == (i1 :> 1) @@ (i2 :> 0)

MCBuilds == {a, b, c}
MCAssetsOf == a :> {<<"_next", "k1">>, <<"logo">>} @@ b :> {<<"_next", "k2">>, <<"logo">>}
              @@ c :> {<<"_next", "k1">>, <<"logo">>}
\* Another app's under its base path, and one nobody stamped.
MCOthers == {<<"team", "_next", "k">>, <<"_next", "stranger">>}
MCStacks == {{"table"}, {"cache"}, {"assets"}, {"assets", "cdn"}, {"assets", "cdn", "functions"},
             {"table", "cdn"}, {"cache", "cdn"}}
MCPrefix == <<>>
Groups == INSTANCE FunctionGroups WITH
    Literals <- SplitLiterals, Depth <- 3, Builds <- SplitApps, Splits <- SplitsOf,
    left <- unvisited, phase <- splitPhase
Mapping == INSTANCE BasePaths WITH
    Paths <- {<<>>, <<"a">>, <<"b">>, <<"a", "b">>, <<"b", "a">>, <<"a", "a">>, <<"a", "b", "a">>}
Edges == INSTANCE EdgeRouting WITH Wide <- WideChars
Seeds == INSTANCE Prerenders WITH Escaped <- EscapedSegments, Long <- LongPaths, MaxWildcards <- 4
Outputs == INSTANCE BuildOutputs
Wires == INSTANCE Wiring
Viewers == INSTANCE ViewerFunctions
\* One addon without a binary of the platform, and one with.
MCNatives == "mixed" :> {<<"darwin", "arm64">>, <<"linux", "x64">>} @@ "plain" :> {<<"darwin", "arm64">>}
MCAsked == [type : {"GLOBAL_FUNCTIONS", "REGIONAL_CONTAINERS"}, architecture : {"x64"}, split : BOOLEAN,
            skipBuild : {FALSE}, reaches : {TRUE}, adapter : {1}, patch : {"p"}]

groupVars == <<project, unvisited, winner, groupOf, splitPhase>>

\* Bounds. The last build writes nothing; a rollback that failed is continued where
\* a bucket is pruned alone, and a retry is of the first deployment; beside the
\* invalidation there is no retry, the edge and the rows are left out, and the
\* bucket sees one deployment.
OnceTogether ==
    mode = "post-deploy" =>
    /\ rows[c] = {}
    /\ "table" \in parts \/ Cardinality(parts) > 1 => phase # "stuck"
    /\ deployed > 1 => retried = 0
    /\ parts \in {{"table", "cdn"}, {"cache", "cdn"}} =>
          /\ edge = {} /\ retried = 0
          /\ rows[a] \cup rows[b] \subseteq {"log"}
          /\ "cache" \in parts => deployed <= 1
StageOnce == failures + extra <= 1

NoPruning == PruningInit /\ parts = CHOOSE s \in MCStacks : TRUE
NoGroups == project = <<>> /\ unvisited = {} /\ winner = <<>> /\ groupOf = <<>> /\ splitPhase = "none"

NoSynth == SynthInit /\ props = CHOOSE p \in MCAsked : TRUE

DeploymentInit ==
    /\ Init
    /\ \/ mode = "rows" /\ NoPruning /\ StageInit /\ NoGroups /\ input = Nothing
       \/ mode = "groups" /\ NoPruning /\ StageInit /\ Groups!Init /\ input = Nothing
       \/ mode = "post-deploy" /\ PruningInit /\ StageInit /\ NoGroups /\ input = Nothing
       \/ mode = "stage" /\ NoPruning /\ StageInit /\ NoGroups /\ input = Nothing
       \/ mode = "synth" /\ NoPruning /\ StageInit /\ NoGroups /\ input = Nothing
       \/ mode = "base path" /\ NoPruning /\ StageInit /\ NoGroups /\ input \in Mapping!Givens
       \/ mode = "edge" /\ NoPruning /\ StageInit /\ NoGroups /\ input \in RoutedApps
       \/ mode = "prerenders" /\ NoPruning /\ StageInit /\ NoGroups
          /\ input \in [app : PrerenderedApps, tags : RevalidatedTags]
       \/ mode = "pages" /\ NoPruning /\ StageInit /\ NoGroups /\ input \in RevalidatedPages
       \/ mode = "outputs" /\ NoPruning /\ StageInit /\ NoGroups /\ input \in BuiltApps
       \/ mode = "wiring" /\ NoPruning /\ StageInit /\ NoGroups /\ input \in WiredDeployments
       \/ mode = "viewers" /\ NoPruning /\ StageInit /\ NoGroups /\ input \in Distributions
    /\ IF mode = "synth" THEN SynthInit ELSE NoSynth
DeploymentNext ==
    /\ UNCHANGED <<mode, input>>
    /\ \/ mode = "rows" /\ Next /\ UNCHANGED <<pruningVars, stageVars, groupVars, synthVars>>
       \/ mode = "groups" /\ Groups!Next /\ UNCHANGED <<vars, pruningVars, stageVars, synthVars>>
       \/ mode = "post-deploy" /\ PruningNext /\ UNCHANGED <<vars, stageVars, groupVars, synthVars>>
       \/ mode = "stage" /\ StageNext /\ UNCHANGED <<vars, pruningVars, groupVars, synthVars>>
       \/ mode = "synth" /\ SynthNext /\ UNCHANGED <<vars, pruningVars, stageVars, groupVars>>
DeploymentSpec ==
    DeploymentInit /\ [][DeploymentNext]_<<mode, input, vars, pruningVars, stageVars, groupVars, synthVars>>

\* Every variable stays within its type, a marker among what was revalidated
\* (MarkerRows, PostDeploy, FunctionGroups).
TypesOK == TypeOK /\ NothingInvented /\ PruningTypeOK /\ (mode = "groups" => Groups!TypeOK)

\* FunctionGroups' properties: a file is its best claim's; where a URL, an intercepted
\* one and a rewritten one are sent there is the file.
FilesWhereAsked ==
    mode = "groups" => /\ Groups!BestClaimWins
                       /\ Groups!EveryUrlReachesItsFile
                       /\ Groups!InterceptedReachesItsFile
                       /\ Groups!RewritesReachTheirFile
\* And no split is refused without a cause.
RefusedForCause == mode = "groups" => Groups!RefusedForCause

\* EdgeRouting's properties, of the URLs of files and of the others, and of the patterns;
\* and BasePaths', of the warning that no URL reaches the app.
EdgeReaches ==
    /\ mode = "edge" => /\ Edges!FilesReached(input) /\ Edges!RoutesReached(input, RoutedPages)
                        /\ Edges!PatternsDistinct(input)
    /\ mode = "base path" => Mapping!SilentIfReached(input)

\* Prerenders' properties, of what the cache is seeded with, and of what CloudFront is
\* told to drop.
PrerendersKept ==
    /\ mode = "prerenders" => Seeds!SeedsAreWhole(input.app) /\ Seeds!TaggedGo(input.app, input.tags)
    /\ mode = "pages" =>
          Seeds!PageGoes(input, input.page, input.locales, input.default, input.locale)

\* BuildOutputs' properties, of the manifest and of the packages.
BuildAnswers == mode = "outputs" => Outputs!UrlsLeadToPages(input) /\ Outputs!PackagesAnswer(input)

\* Wiring's property.
WiredAsUsed == mode = "wiring" => Wires!WiredAsUsed(input)
\* ViewerFunctions' property.
EdgeRunsAll == mode = "viewers" => Viewers!EdgeRunsAll(input)
=================================================================================
