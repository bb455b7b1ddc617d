------------------------------- MODULE MCRequest -------------------------------
(* What happens to a request, one part of it in a behaviour: ServerRuntime, and   *)
(* Dispatch, ImageOptimizer, the variables of the others staying as they are; or  *)
(* what a function of the request returns, for each `input`: RouteParams,         *)
(* StaticServing.                                                                 *)
EXTENDS ServerRuntime, RequestMenus, TLC
CONSTANTS r1, r2, r3, i1, none
VARIABLES mode, input,
          app, asked, url, hops, at, group, path, owed, rewritten, headers, resolved, answer,
          source, handler, failures, entry, run, writes, faults, viewer,
          split, sent, arriving, client, branch, dispatch, buffer, pump, got
Dispatched == INSTANCE Dispatch WITH Apps <- DispatchApps, Asked <- DispatchAsked, MaxHops <- 2
Params == INSTANCE RouteParams WITH Templates <- ParamRoutes, Segments <- ParamSegments
Shape == INSTANCE RequestShape WITH Deployments <- ShapeDeployments, Viewers <- ShapeViewers
Reply == INSTANCE ResponseShape WITH Calls <- ShapeCalls, Responses <- ShapeResponses,
                                    Requests <- ShapeRequests, Sinks <- ShapeSinks
Static == INSTANCE StaticServing WITH Names <- FileNames
runtimeVars == vars
Images == INSTANCE ImageOptimizer WITH Viewers <- {r1, r2, r3}, Sources <- ImageSources, MaxFaults <- 2
Upload == INSTANCE Uploads WITH MaxChunks <- 3, HighWater <- 2
uploadVars == <<split, sent, arriving, client, branch, dispatch, buffer, pump, got>>
imageVars == <<source, handler, failures, entry, run, writes, faults, viewer>>
dispatchVars == <<app, asked, url, hops, at, group, path, owed, rewritten, headers, resolved, answer>>

MCOuter == {r1, r2, r3}
MCInner == {i1}
Asking(asks) == asks @@ [r \in MCOuter \cup MCInner |-> {}]
\* One of any kind that registers work twice; two that meet at the modules and at the
\* shutdown; and one whose handler revalidates a page.
MCScenarios == {Asking(r1 :> Targets),
                Asking(r2 :> {"page"} @@ r3 :> {"page", "unmatched", "api"}),
                Asking(r3 :> {"api"} @@ i1 :> {"page", "unmatched", "foreign"})}
MCMaxWork == [r \in MCOuter \cup MCInner |-> IF r = r1 THEN 2 ELSE IF r = i1 THEN 1 ELSE 0]

NoRuntime ==
    /\ server = "open" /\ awaited = {} /\ broken = 0 /\ modules = [f \in Files |-> "absent"]
    /\ fails = [f \in Files |-> 0] /\ req = [r \in Requests |-> Fresh]
NoDispatch ==
    /\ app = Nothing /\ asked = Nothing /\ url = Nothing /\ hops = 0 /\ at = "none" /\ group = "none"
    /\ path = Nothing /\ owed = NoLocale /\ rewritten = FALSE /\ headers = {}
    /\ resolved = Nothing /\ answer = Nothing

NoUpload == Upload!Init /\ split = FALSE
NoImage == Images!Init /\ source = CHOOSE s \in ImageSources : TRUE

RequestInit ==
    /\ mode = "upload" \/ NoUpload
    /\ \/ mode = "runtime" /\ Init /\ NoDispatch /\ NoImage /\ input = Nothing
       \/ mode = "dispatch" /\ NoRuntime /\ Dispatched!Init /\ NoImage /\ input = Nothing
       \/ mode = "image" /\ NoRuntime /\ NoDispatch /\ Images!Init /\ input = Nothing
       \/ mode = "params" /\ NoRuntime /\ NoDispatch /\ NoImage /\ input \in Params!Requested
       \/ mode = "shape" /\ NoRuntime /\ NoDispatch /\ NoImage /\ input \in ShapeAsked
       \/ mode = "reply" /\ NoRuntime /\ NoDispatch /\ NoImage /\ input \in ShapeAnswers
       \/ mode = "static" /\ NoRuntime /\ NoDispatch /\ NoImage /\ input \in Static!Serving
       \/ mode = "upload" /\ NoRuntime /\ NoDispatch /\ NoImage /\ Upload!Init /\ input = Nothing
RequestNext ==
    /\ UNCHANGED <<mode, input>>
    /\ \/ mode = "runtime" /\ Next /\ UNCHANGED <<dispatchVars, imageVars, uploadVars>>
       \/ mode = "dispatch" /\ Dispatched!Next /\ UNCHANGED <<runtimeVars, imageVars, uploadVars>>
       \/ mode = "image" /\ Images!Next /\ UNCHANGED <<runtimeVars, dispatchVars, uploadVars>>
       \/ mode = "upload" /\ Upload!Next /\ UNCHANGED <<runtimeVars, dispatchVars, imageVars>>
RequestSpec == RequestInit /\ [][RequestNext]_<<mode, input, runtimeVars, dispatchVars, imageVars, uploadVars>> /\ Fairness

\* Dispatch's properties: a URL is answered by the file it asks for, in its locale if
\* by none, after redirects that end and are no more than it takes; with the headers the
\* rules give it.
AnsweredAsAsked ==
    /\ Dispatched!RulesOnEveryAnswer
    /\ mode = "dispatch" => /\ Dispatched!TypeOK
                            /\ Dispatched!AnsweredAsAsked /\ Dispatched!NotFoundInLocale
                            /\ Dispatched!RedirectsEnd /\ Dispatched!RootAtOnce
\* RouteParams' property.
ParamsAsCaptured == mode = "params" => Params!ParamsAsCaptured(input)
\* ImageOptimizer's properties, of an answer and of a failed import.
AnsweredForSource == Images!TypeOK /\ Images!AnsweredForSource /\ Images!ImportFailureIsFresh
\* RequestShape's property.
RequestAsSent == mode = "shape" => Shape!RequestAsSent(input[1], input[2])
\* ResponseShape's property.
ResponseAsWritten == mode = "reply" => Reply!ResponseAsWritten(input)
\* Uploads' property.
UploadReadWhole == mode = "upload" => Upload!UploadReadWhole
\* StaticServing's properties, of the answer and of a part of it.
ServedAlike == mode = "static" => Static!ServedAlike(input) /\ Static!NoPartOfAnother(input)
================================================================================
