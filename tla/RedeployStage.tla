------------------------------ MODULE RedeployStage ------------------------------
(***************************************************************************)
(* API Gateway's stage through the updates of its stack: CloudFormation's  *)
(* deployment is a snapshot taken while the routes removed from the        *)
(* template still exist, so a rule invokes src/lambdas/redeploy-stage      *)
(* when the stack has finished, to deploy the stage again and delete the   *)
(* deployments its earlier runs made.                                      *)
(*                                                                         *)
(* An event may be delivered twice, and late: runs meet, and meet the next *)
(* update. A run that fails is invoked again for the same event.           *)
(***************************************************************************)
EXTENDS Integers, FiniteSets

CONSTANTS
    MaxUpdates,  \* bound: the stack updates of a behaviour
    MaxFailures, \* bound: the runs that fail
    MaxExtra     \* bound: the events delivered twice

VARIABLES
    update,      \* the stack's updates: how many, and where the last one is
    template,    \* the update whose resources the stack ends at
    tree,        \* the API's resources, each named by the update that made it
    deployments, \* deployment id -> its snapshot, and whether a run made it
    stage,       \* the deployment the stage points to
    cfn,         \* the one CloudFormation owns; `pending` while an update has another
    pending,
    other,       \* the one another stage points to, or 0
    events,      \* the stack status events still to be delivered
    runs,        \* the runs under way
    failures, extra

stageVars == <<update, template, tree, deployments, stage, cfn, pending, other, events, runs, failures, extra>>
api  == <<tree, deployments, stage, cfn, pending>>

\* at: the call a run makes next. id: its own deployment.
Run == [at : {"create", "stages", "list", "delete"}, id : Nat, referenced : SUBSET Nat, todo : SUBSET Nat]

StageTypeOK ==
    /\ update \in [n : 0 .. MaxUpdates, at : {"done", "changed", "deployed", "restored"}]
    /\ tree \subseteq 0 .. MaxUpdates /\ template \in 0 .. MaxUpdates
    /\ {stage, cfn} \subseteq DOMAIN deployments
    /\ other = 0 \/ other \in DOMAIN deployments
    /\ \A d \in DOMAIN deployments : deployments[d] \in [routes : SUBSET (0 .. MaxUpdates), own : BOOLEAN]
    /\ \A r \in runs : r \in Run
    /\ events \in 0 .. MaxUpdates + MaxExtra

StageInit ==
    /\ update = [n |-> 0, at |-> "done"] /\ template = 0 /\ tree = {0}
    /\ deployments = [d \in {1} |-> [routes |-> {0}, own |-> FALSE]]
    /\ stage = 1 /\ cfn = 1 /\ pending = 0 /\ other = 0
    /\ events = 0 /\ runs = {} /\ failures = 0 /\ extra = 0

Largest(S) == CHOOSE x \in S : \A y \in S : y <= x
\* Ids are never used again: those of deployments gone still count.
NextId == Largest(DOMAIN deployments \cup {r.id : r \in runs} \cup UNION {r.todo : r \in runs}) + 1

DeployedNext(own) ==
    [d \in DOMAIN deployments \cup {NextId} |->
        IF d = NextId THEN [routes |-> tree, own |-> own] ELSE deployments[d]]
Without(d) == [e \in DOMAIN deployments \ {d} |-> deployments[e]]
-----------------------------------------------------------------------------
(* CloudFormation. *)

\* The new routes, beside those that are to be removed.
Change ==
    /\ update.at = "done" /\ update.n < MaxUpdates
    /\ update' = [n |-> update.n + 1, at |-> "changed"]
    /\ tree' = tree \cup {update.n + 1}
    /\ UNCHANGED <<template, deployments, stage, cfn, pending, other, events, runs, failures, extra>>

DeployStack ==
    /\ update.at = "changed"
    /\ deployments' = DeployedNext(FALSE) /\ stage' = NextId /\ pending' = NextId
    /\ update' = [update EXCEPT !.at = "deployed"]
    /\ UNCHANGED <<template, tree, cfn, other, events, runs, failures, extra>>

\* The rule matches the statuses that come after the cleanup.
TriggersUpdated(at) == at = "UPDATE_COMPLETE"
Triggers(at) == at \in {"UPDATE_COMPLETE", "UPDATE_ROLLBACK_COMPLETE"}
Emits(at) == events' = IF Triggers(at) THEN events + 1 ELSE events

\* The resources removed from the template go, and the deployment it replaced,
\* unless a stage was pointed at that.
CleanUp ==
    /\ update.at = "deployed"
    /\ tree' = {update.n} /\ template' = update.n
    /\ deployments' = IF cfn \in {stage, other} THEN deployments ELSE Without(cfn)
    /\ cfn' = pending /\ pending' = 0
    /\ update' = [update EXCEPT !.at = "done"]
    /\ Emits("UPDATE_COMPLETE")
    /\ UNCHANGED <<stage, other, runs, failures, extra>>

\* The update fails: the stage is pointed back, then the new resources go.
Restore ==
    /\ update.at \in {"changed", "deployed"}
    /\ stage' = IF pending # 0 THEN cfn ELSE stage
    /\ update' = [update EXCEPT !.at = "restored"]
    /\ UNCHANGED <<template, tree, deployments, cfn, pending, other, events, runs, failures, extra>>

CleanUpRestored ==
    /\ update.at = "restored"
    /\ tree' = {template}
    /\ deployments' = IF pending # 0 /\ pending \notin {stage, other} THEN Without(pending) ELSE deployments
    /\ pending' = 0
    /\ update' = [update EXCEPT !.at = "done"]
    /\ Emits("UPDATE_ROLLBACK_COMPLETE")
    /\ UNCHANGED <<template, stage, cfn, other, runs, failures, extra>>

\* Someone points a stage of their own at the deployment the stage is at.
PointOther ==
    /\ other = 0 /\ other' = stage
    /\ UNCHANGED <<update, template, api, events, runs, failures, extra>>
-----------------------------------------------------------------------------
(* The runs. *)

NewRun == [at |-> "create", id |-> 0, referenced |-> {}, todo |-> {}]

Deliver ==
    /\ events > 0 /\ NewRun \notin runs
    /\ runs' = runs \cup {NewRun}
    /\ \/ events' = events - 1 /\ UNCHANGED extra
       \/ extra < MaxExtra /\ extra' = extra + 1 /\ UNCHANGED events
    /\ UNCHANGED <<update, template, api, other, failures>>

Continue(r, s) == runs' = (runs \ {r}) \cup s

\* From the API as it is now; the stage is pointed to it.
CreateDeployment(r) ==
    /\ r.at = "create"
    /\ deployments' = DeployedNext(TRUE) /\ stage' = NextId
    /\ Continue(r, {[r EXCEPT !.at = "stages", !.id = NextId]})
    /\ UNCHANGED <<update, template, tree, cfn, pending, other, events, failures, extra>>

GetStages(r) ==
    /\ r.at = "stages"
    /\ Continue(r, {[r EXCEPT !.at = "list", !.referenced = {stage, other} \ {0}]})
    /\ UNCHANGED <<update, template, api, other, events, failures, extra>>

PrunesPrevious(r, d) ==
    d \notin r.referenced /\ d = Largest({1} \cup {e \in DOMAIN deployments : deployments[e].own /\ e < r.id})
PrunesAny(r, d) == d # r.id /\ d \notin r.referenced
Prunes(r, d) == deployments[d].own /\ d # r.id /\ d \notin r.referenced

GetDeployments(r) ==
    /\ r.at = "list"
    /\ Continue(r, {[r EXCEPT !.at = "delete", !.todo = {d \in DOMAIN deployments : Prunes(r, d)}]})
    /\ UNCHANGED <<update, template, api, other, events, failures, extra>>

\* API Gateway refuses one a stage points to; one may be gone already.
DeleteDeployment(r) ==
    /\ r.at = "delete"
    /\ \E d \in r.todo :
          /\ deployments' = IF d \in {stage, other} THEN deployments ELSE Without(d)
          /\ Continue(r, {[r EXCEPT !.todo = @ \ {d}]})
    /\ UNCHANGED <<update, template, tree, stage, cfn, pending, other, events, failures, extra>>

End(r) ==
    /\ r.at = "delete" /\ r.todo = {}
    /\ Continue(r, {})
    /\ UNCHANGED <<update, template, api, other, events, failures, extra>>

\* A call that throws: the event is tried again, from the start.
Fail(r) ==
    /\ r.at # "delete" /\ failures < MaxFailures
    /\ failures' = failures + 1 /\ events' = events + 1
    /\ Continue(r, {})
    /\ UNCHANGED <<update, template, api, other, extra>>

RunStep(r) ==
    CreateDeployment(r) \/ GetStages(r) \/ GetDeployments(r) \/ DeleteDeployment(r) \/ End(r) \/ Fail(r)

StageNext ==
    \/ Change \/ DeployStack \/ CleanUp \/ Restore \/ CleanUpRestored \/ PointOther \/ Deliver
    \/ \E r \in runs : RunStep(r)

StageSpec == StageInit /\ [][StageNext]_stageVars
-----------------------------------------------------------------------------
(* Properties. *)

Settled == update.at = "done" /\ events = 0 /\ runs = {}

\* Whatever order events, runs and updates come in, the stage ends at the API as it
\* is: it routes nothing to a resource that is gone (redeployStage).
StageServesTree == Settled => deployments[stage].routes = tree

\* The runs delete each other's deployments: at the end only those are left that a
\* stage points to (redeployStage).
OwnPruned == Settled => \A d \in DOMAIN deployments : deployments[d].own => d \in {stage, other}

\* They never delete CloudFormation's, whichever stage points where
\* (REDEPLOY_DESCRIPTION_PREFIX).
CfnStands == {cfn, pending} \ {0} \subseteq DOMAIN deployments

\* The same of a stage's deployments: its own old ones go, and none of another's.
StageKept == StageServesTree /\ OwnPruned /\ CfnStands
=================================================================================
