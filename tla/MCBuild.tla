--------------------------------- MODULE MCBuild --------------------------------
(* What a build makes of two kinds of app: how FunctionGroups splits those with an   *)
(* intercepting route; what BuildOutputs adds for a page and a template beside it,   *)
(* both with data.                                                                  *)
EXTENDS FunctionGroups, AppMenus
VARIABLE app
Outputs == INSTANCE BuildOutputs

NoApp == [pages |-> {}]
InterceptedSpec == Init /\ app = NoApp /\ [][Next /\ UNCHANGED app]_<<vars, app>>

StaticPages == {Outputs!Page("pages", route, {route}) : route \in {<<"a">>, <<"a", "b">>, <<"b", "a">>}}
Templates == {Outputs!Page("pages", route, renders) :
                 route \in {<<"[p]">>, <<"[...c]">>, <<"a", "[...c]">>, <<"b", "[p]">>},
                 renders \in {{<<"b">>}, {<<"a", "a">>}, {<<"b", "b">>}}}
PagedApps == [base : {<<>>, <<"base">>}, middleware : {"none"}, split : {{}},
              pages : {{page, template} : page \in StaticPages, template \in Templates}]
NoSplit == project = <<>> /\ left = {} /\ winner = <<>> /\ groupOf = <<>> /\ phase = "none"
PagedSpec == NoSplit /\ app \in PagedApps /\ [][FALSE]_<<vars, app>>

\* DataIsItsPages, of every app here (addPrerenderPathnames).
DataOfItsPage == app.pages # {} => Outputs!DataIsItsPages(app)
=================================================================================
