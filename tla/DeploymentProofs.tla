--------------------------- MODULE DeploymentProofs ----------------------------
(***************************************************************************)
(* What deploying leaves behind, proved for any builds, stacks, updates and *)
(* failures: first of the stage a release redeploys, then of the tasks that *)
(* prune once a deployment is up, then of the synths that built it.        *)
(***************************************************************************)
EXTENDS PostDeploy, RedeployStage, NextjsBuild, WellFoundedInduction, TLAPS

--------------------------------------------------------------------------------
(* The stage of an API: RedeployStage. *)

\* The ids that were given: of the deployments, of the runs, and of those to be deleted.
Ids == DOMAIN deployments \cup {r.id : r \in runs} \cup UNION {r.todo : r \in runs}
Bounded == \E m \in Nat : \A d \in Ids : d <= m

\* A run that is going to deploy: what the tree is now, its deployment will be.
Creating == \E r \in runs : r.at = "create"
\* The last word is still to come.
Awaited == update.at # "done" \/ events > 0 \/ Creating

StageTyped ==
    /\ update \in [n : Nat, at : {"done", "changed", "deployed", "restored"}]
    /\ events \in Nat /\ runs \subseteq Run
    /\ DOMAIN deployments \subseteq Nat \ {0}
    /\ \A d \in DOMAIN deployments : deployments[d] \in [routes : SUBSET Nat, own : BOOLEAN]
    /\ tree \subseteq Nat /\ {template, stage, cfn, pending, other} \subseteq Nat

\* Who points where: what CloudFormation owns no run made, and an update that has put its
\* own deployment beside the old one still has both.
Pointed ==
    /\ {stage, cfn} \subseteq DOMAIN deployments
    /\ {pending, other} \ {0} \subseteq DOMAIN deployments
    /\ \A d \in {cfn, pending} \ {0} : ~deployments[d].own
    /\ pending # cfn
    /\ update.at \in {"done", "changed"} => pending = 0
    /\ update.at = "deployed" => pending # 0

\* A run is to delete what runs made, and names what it found when it did.
Named == \A r \in runs : \A d \in r.todo \cap DOMAIN deployments : deployments[d].own

\* A deployment of a run's that no stage points to is one that a run still to come,
\* or under way, deletes.
Covers(r, d) ==
    \/ r.at = "create"
    \/ r.at = "stages" /\ d # r.id
    \/ r.at = "list" /\ d # r.id /\ d \notin r.referenced
    \/ r.at = "delete" /\ d \in r.todo
Covered == \A d \in DOMAIN deployments :
    deployments[d].own /\ d \notin {stage, other} =>
        update.at # "done" \/ events > 0 \/ \E r \in runs : Covers(r, d)

ServesWhenLast == Awaited \/ deployments[stage].routes = tree

StageInv == StageTyped /\ Bounded /\ Pointed /\ Named /\ Covered /\ ServesWhenLast

--------------------------------------------------------------------------------
(* The operators. *)

LEMMA LeastIs ==
    ASSUME NEW U \in SUBSET Nat, U # {}
    PROVE  \E u \in U : \A v \in U : u <= v
<1>1. PICK u \in U : \A v \in U : ~(<<v, u>> \in OpToRel(<, Nat))
  BY NatLessThanWellFounded, WFMin
<1>2. \A v \in U : ~(v < u)
  BY <1>1 DEF OpToRel
<1>3. QED
  BY <1>2

\* A set of numbers that is bounded has a largest.
LEMMA LargestIs ==
    ASSUME NEW S \in SUBSET Nat, S # {}, NEW m \in Nat, \A x \in S : x <= m
    PROVE  Largest(S) \in S /\ \A x \in S : x <= Largest(S)
<1> DEFINE U == {u \in Nat : \A x \in S : x <= u}
<1>1. PICK u \in U : \A v \in U : u <= v
  <2>1. U # {} /\ U \in SUBSET Nat
    OBVIOUS
  <2> HIDE DEF U
  <2>2. QED
    BY <2>1, LeastIs
<1>2. u \in S
  <2>1. SUFFICES ASSUME u \notin S PROVE FALSE
    OBVIOUS
  <2>2. \A x \in S : x <= u - 1
    BY <1>1, <2>1
  <2>3. u - 1 \in Nat
    <3>1. PICK x \in S : x <= u - 1 /\ x \in Nat
      BY <2>2
    <3>2. u \in Nat
      BY <1>1
    <3>3. QED
      BY <3>1, <3>2
  <2>4. u - 1 \in U
    BY <2>2, <2>3
  <2>5. QED
    BY <1>1, <2>4
<1>3. \E x \in S : \A y \in S : y <= x
  BY <1>1, <1>2
<1>4. QED
  BY <1>3 DEF Largest

\* The next id was never given.
LEMMA NextIsNew ==
    ASSUME StageTyped, Bounded, Pointed
    PROVE  NextId \in Nat \ {0} /\ \A d \in Ids : d < NextId
<1>1. Ids \in SUBSET Nat /\ Ids # {}
  BY DEF StageTyped, Pointed, Ids, Run
<1>2. PICK m \in Nat : \A d \in Ids : d <= m
  BY DEF Bounded
<1>3. Largest(Ids) \in Ids /\ \A d \in Ids : d <= Largest(Ids)
  BY <1>1, <1>2, LargestIs
<1>4. NextId = Largest(Ids) + 1
  BY DEF NextId, Ids
<1>5. Largest(Ids) \in Nat /\ \A d \in Ids : d \in Nat
  BY <1>1, <1>3
<1>6. QED
  BY <1>3, <1>4, <1>5

\* Nor by a run, which is to delete no other.
LEMMA NotToDelete ==
    ASSUME StageTyped, Bounded, Pointed, NEW r \in runs
    PROVE  NextId \notin r.todo /\ NextId # r.id
<1>1. r.todo \subseteq Ids /\ r.id \in Ids /\ \A d \in Ids : d \in Nat
  BY DEF Ids, StageTyped, Run
<1>2. QED
  BY <1>1, NextIsNew

LEMMA StaysBounded ==
    ASSUME StageTyped, Bounded, Pointed, Ids' \subseteq Ids \cup {NextId, 0}
    PROVE  Bounded'
<1>1. NextId \in Nat /\ (\A d \in Ids : d < NextId) /\ Ids \subseteq Nat
  BY NextIsNew DEF StageTyped, Ids, Run
<1>2. \A d \in Ids' : d <= NextId
  BY <1>1
<1>3. QED
  BY <1>1, <1>2 DEF Bounded

LEMMA DeployedIs ==
    ASSUME StageTyped, Bounded, Pointed, NEW own \in BOOLEAN
    PROVE  LET new == DeployedNext(own)
           IN  /\ DOMAIN new = DOMAIN deployments \cup {NextId} /\ NextId \notin DOMAIN deployments
               /\ new[NextId].routes = tree /\ new[NextId].own = own
               /\ new[NextId] \in [routes : SUBSET Nat, own : BOOLEAN]
               /\ \A d \in DOMAIN deployments : new[d] = deployments[d]
<1>1. NextId \notin DOMAIN deployments
  BY NextIsNew DEF Ids, StageTyped
<1>2. QED
  BY <1>1 DEF DeployedNext, StageTyped

LEMMA WithoutIs ==
    ASSUME NEW d
    PROVE  /\ DOMAIN Without(d) = DOMAIN deployments \ {d}
           /\ \A e \in DOMAIN deployments \ {d} : Without(d)[e] = deployments[e]
BY DEF Without
--------------------------------------------------------------------------------
(* CloudFormation's steps, and those who point stages. *)

LEMMA Start == StageInit => StageInv
<1> SUFFICES ASSUME StageInit PROVE StageInv
  OBVIOUS
<1>1. /\ DOMAIN deployments = {1} /\ deployments[1] = [routes |-> {0}, own |-> FALSE]
      /\ update = [n |-> 0, at |-> "done"] /\ tree = {0} /\ runs = {} /\ events = 0 /\ template = 0
      /\ stage = 1 /\ cfn = 1 /\ pending = 0 /\ other = 0
  BY DEF StageInit
<1>2. StageTyped
  <2>1. deployments[1] \in [routes : SUBSET Nat, own : BOOLEAN] /\ 0 \in Nat /\ 1 \in Nat \ {0}
    BY <1>1
  <2>2. update \in [n : Nat, at : {"done", "changed", "deployed", "restored"}]
    BY <1>1
  <2>3. QED
    BY <1>1, <2>1, <2>2 DEF StageTyped
<1>3. Bounded
  <2>1. \A d \in Ids : d <= 1
    BY <1>1 DEF Ids
  <2>2. QED
    BY <2>1 DEF Bounded
<1>4. Pointed /\ Named /\ Covered /\ ServesWhenLast
  BY <1>1 DEF Pointed, Named, Covered, ServesWhenLast
<1>5. QED
  BY <1>2, <1>3, <1>4 DEF StageInv

LEMMA ChangeKeeps == StageInv /\ Change => StageInv'
<1> SUFFICES ASSUME StageInv, Change PROVE StageInv'
  OBVIOUS
<1>1. /\ update' \in [n : Nat, at : {"done", "changed", "deployed", "restored"}]
      /\ update.at = "done" /\ update'.at = "changed" /\ tree' = tree \cup {update.n + 1}
      /\ tree' \subseteq Nat
      /\ UNCHANGED <<template, deployments, stage, cfn, pending, other, events, runs>>
  <2>1. update.n \in Nat /\ update.n + 1 \in Nat /\ tree \subseteq Nat
    BY DEF StageInv, StageTyped
  <2>2. /\ update' = [n |-> update.n + 1, at |-> "changed"] /\ tree' = tree \cup {update.n + 1}
        /\ update.at = "done" /\ UNCHANGED <<template, deployments, stage, cfn, pending, other, events, runs>>
    BY DEF Change
  <2>3. QED
    BY <2>1, <2>2
<1>2. QED
  BY <1>1 DEF StageInv, StageTyped, Bounded, Ids, Pointed, Named, Covered, ServesWhenLast, Awaited

LEMMA DeployStackKeeps == StageInv /\ DeployStack => StageInv'
<1> SUFFICES ASSUME StageInv, DeployStack PROVE StageInv'
  OBVIOUS
<1>1. /\ update' \in [n : Nat, at : {"done", "changed", "deployed", "restored"}]
      /\ update.at = "changed" /\ update'.at = "deployed"
      /\ deployments' = DeployedNext(FALSE) /\ stage' = NextId /\ pending' = NextId
      /\ UNCHANGED <<template, tree, cfn, other, events, runs>>
  BY DEF DeployStack, StageInv, StageTyped
<1>2. NextId \in Nat \ {0} /\ NextId \notin Ids
  BY NextIsNew DEF StageInv, Ids, StageTyped, Run
<1>3. /\ DOMAIN deployments' = DOMAIN deployments \cup {NextId} /\ NextId \notin DOMAIN deployments
      /\ ~deployments'[NextId].own
      /\ deployments'[NextId] \in [routes : SUBSET Nat, own : BOOLEAN]
      /\ \A d \in DOMAIN deployments : deployments'[d] = deployments[d]
  BY <1>1, DeployedIs DEF StageInv
<1>4. StageTyped'
  BY <1>1, <1>2, <1>3 DEF StageInv, StageTyped
<1>5. Bounded'
  <2>1. Ids' \subseteq Ids \cup {NextId, 0}
    BY <1>1, <1>3 DEF Ids
  <2>2. QED
    BY <2>1, StaysBounded DEF StageInv
<1>6. Pointed'
  BY <1>1, <1>2, <1>3 DEF StageInv, Pointed
<1>7. Named'
  BY <1>1, <1>3, NotToDelete DEF StageInv, Named
<1>8. Covered' /\ ServesWhenLast'
  BY <1>1 DEF Covered, ServesWhenLast, Awaited
<1>9. QED
  BY <1>4, <1>5, <1>6, <1>7, <1>8 DEF StageInv
LEMMA CleanUpKeeps == StageInv /\ CleanUp => StageInv'
<1> SUFFICES ASSUME StageInv, CleanUp PROVE StageInv'
  OBVIOUS
<1>1. /\ update' = [update EXCEPT !.at = "done"] /\ update.at = "deployed"
      /\ deployments' = IF cfn \in {stage, other} THEN deployments ELSE Without(cfn)
      /\ tree' = {update.n} /\ template' = update.n /\ cfn' = pending /\ pending' = 0
      /\ UNCHANGED <<stage, other, runs>> /\ events' = events + 1
  BY DEF CleanUp, Emits, Triggers
<1>2. StageTyped /\ Bounded /\ Pointed /\ Named
  BY DEF StageInv
<1>3. /\ DOMAIN deployments' \subseteq DOMAIN deployments
      /\ DOMAIN deployments \ {cfn} \subseteq DOMAIN deployments'
      /\ {stage} \cup ({other} \ {0}) \subseteq DOMAIN deployments'
      /\ \A d \in DOMAIN deployments' : deployments'[d] = deployments[d]
  <2>1. CASE cfn \in {stage, other}
    BY <1>1, <1>2, <2>1 DEF Pointed
  <2>2. CASE cfn \notin {stage, other}
    <3>1. deployments' = Without(cfn)
      BY <1>1, <2>2
    <3>2. /\ DOMAIN deployments' = DOMAIN deployments \ {cfn}
          /\ \A d \in DOMAIN deployments \ {cfn} : deployments'[d] = deployments[d]
      BY <3>1, WithoutIs
    <3>3. QED
      BY <1>2, <2>2, <3>2 DEF Pointed
  <2>3. QED
    BY <2>1, <2>2
<1>4. StageTyped'
  <2>1. /\ update' \in [n : Nat, at : {"done", "changed", "deployed", "restored"}]
        /\ update.n \in Nat
    BY <1>1, <1>2 DEF StageTyped
  <2>2. events' \in Nat
    BY <1>1, <1>2 DEF StageTyped
  <2>3. QED
    BY <1>1, <1>2, <1>3, <2>1, <2>2 DEF StageTyped
<1>5. Bounded'
  <2>1. Ids' \subseteq Ids \cup {NextId, 0}
    BY <1>1, <1>3 DEF Ids
  <2>2. QED
    BY <1>2, <2>1, StaysBounded
<1>6. Pointed'
  <2>1. pending \in DOMAIN deployments' /\ ~deployments'[pending].own /\ pending # 0
    BY <1>1, <1>2, <1>3 DEF Pointed
  <2>2. update'.at = "done"
    BY <1>1, <1>2 DEF StageTyped
  <2>3. QED
    BY <1>1, <1>3, <2>1, <2>2 DEF Pointed
<1>7. Named'
  BY <1>1, <1>2, <1>3 DEF Named
<1>8. Covered' /\ ServesWhenLast'
  <2>1. events' > 0
    BY <1>1, <1>2 DEF StageTyped
  <2>2. QED
    BY <2>1 DEF Covered, ServesWhenLast, Awaited
<1>9. QED
  BY <1>4, <1>5, <1>6, <1>7, <1>8 DEF StageInv

LEMMA RestoreKeeps == StageInv /\ Restore => StageInv'
<1> SUFFICES ASSUME StageInv, Restore PROVE StageInv'
  OBVIOUS
<1>1. /\ update' = [update EXCEPT !.at = "restored"]
      /\ stage' = IF pending # 0 THEN cfn ELSE stage
      /\ UNCHANGED <<template, tree, deployments, cfn, pending, other, events, runs>>
  BY DEF Restore
<1>2. StageTyped /\ Bounded /\ Pointed /\ Named
  BY DEF StageInv
<1>3. /\ update' \in [n : Nat, at : {"done", "changed", "deployed", "restored"}]
      /\ update'.at = "restored"
  BY <1>1, <1>2 DEF StageTyped
<1>4. StageTyped' /\ Pointed' /\ Named'
  BY <1>1, <1>2, <1>3 DEF StageTyped, Pointed, Named
<1>5. Bounded'
  BY <1>1, <1>2 DEF Bounded, Ids
<1>6. Covered' /\ ServesWhenLast'
  BY <1>3 DEF Covered, ServesWhenLast, Awaited
<1>7. QED
  BY <1>4, <1>5, <1>6 DEF StageInv

LEMMA CleanUpRestoredKeeps == StageInv /\ CleanUpRestored => StageInv'
<1> SUFFICES ASSUME StageInv, CleanUpRestored PROVE StageInv'
  OBVIOUS
<1>1. /\ update' = [update EXCEPT !.at = "done"] /\ update.at = "restored"
      /\ deployments' = IF pending # 0 /\ pending \notin {stage, other}
                        THEN Without(pending) ELSE deployments
      /\ tree' = {template} /\ pending' = 0
      /\ UNCHANGED <<template, cfn, stage, other, runs>> /\ events' = events + 1
  BY DEF CleanUpRestored, Emits, Triggers
<1>2. StageTyped /\ Bounded /\ Pointed /\ Named
  BY DEF StageInv
<1>3. /\ DOMAIN deployments' \subseteq DOMAIN deployments
      /\ {stage, cfn} \cup ({other} \ {0}) \subseteq DOMAIN deployments'
      /\ \A d \in DOMAIN deployments' : deployments'[d] = deployments[d]
  BY <1>1, <1>2, WithoutIs DEF Pointed
<1>4. StageTyped'
  <2>1. update' \in [n : Nat, at : {"done", "changed", "deployed", "restored"}]
    BY <1>1, <1>2 DEF StageTyped
  <2>2. events' \in Nat /\ 0 \in Nat /\ tree' \subseteq Nat
    BY <1>1, <1>2 DEF StageTyped
  <2>3. QED
    BY <1>1, <1>2, <1>3, <2>1, <2>2 DEF StageTyped
<1>5. Bounded'
  <2>1. Ids' \subseteq Ids \cup {NextId, 0}
    BY <1>1, <1>3 DEF Ids
  <2>2. QED
    BY <1>2, <2>1, StaysBounded
<1>6. Pointed'
  <2>1. update'.at = "done" /\ cfn # 0 /\ ~deployments[cfn].own
    BY <1>1, <1>2 DEF StageTyped, Pointed
  <2>2. QED
    BY <1>1, <1>3, <2>1 DEF Pointed
<1>7. Named'
  BY <1>1, <1>2, <1>3 DEF Named
<1>8. Covered' /\ ServesWhenLast'
  <2>1. events' > 0
    BY <1>1, <1>2 DEF StageTyped
  <2>2. QED
    BY <2>1 DEF Covered, ServesWhenLast, Awaited
<1>9. QED
  BY <1>4, <1>5, <1>6, <1>7, <1>8 DEF StageInv

LEMMA PointOtherKeeps == StageInv /\ PointOther => StageInv'
<1> SUFFICES ASSUME StageInv, PointOther PROVE StageInv'
  OBVIOUS
<1>1. other = 0 /\ other' = stage
      /\ UNCHANGED <<update, template, tree, deployments, stage, cfn, pending, events, runs>>
  BY DEF PointOther, api
<1>2. Bounded'
  BY <1>1 DEF StageInv, Bounded, Ids
<1>3. StageTyped' /\ Pointed' /\ Named'
  BY <1>1 DEF StageInv, StageTyped, Pointed, Named
<1>4. Covered'
  <2>1. \A d \in DOMAIN deployments : d # 0
    BY DEF StageInv, StageTyped
  <2>2. SUFFICES ASSUME NEW d \in DOMAIN deployments, deployments[d].own, d \notin {stage, other}
                 PROVE  update.at # "done" \/ events > 0 \/ \E r \in runs : Covers(r, d)
    BY <1>1, <2>1 DEF Covered, Covers
  <2>3. QED
    BY <2>2 DEF StageInv, Covered
<1>5. ServesWhenLast'
  BY <1>1 DEF StageInv, ServesWhenLast, Awaited, Creating
<1>6. QED
  BY <1>2, <1>3, <1>4, <1>5 DEF StageInv

--------------------------------------------------------------------------------
(* The runs. *)

\* A step of a run, or of what starts one, takes nothing from what is covered.
LEMMA DeliverKeeps == StageInv /\ Deliver => StageInv'
<1> SUFFICES ASSUME StageInv, Deliver PROVE StageInv'
  OBVIOUS
<1>1. /\ runs' = runs \cup {NewRun} /\ events' \in {events, events - 1} /\ events > 0
      /\ UNCHANGED <<update, template, tree, deployments, stage, cfn, pending, other>>
  BY DEF Deliver, api
<1>2. NewRun \in Run /\ NewRun.at = "create" /\ NewRun.id = 0 /\ NewRun.todo = {}
  BY DEF NewRun, Run
<1>3. StageTyped /\ Bounded /\ Pointed /\ Named
  BY DEF StageInv
<1>4. StageTyped'
  BY <1>1, <1>2, <1>3 DEF StageTyped
<1>5. Bounded'
  <2>1. Ids' \subseteq Ids \cup {NextId, 0}
    BY <1>1, <1>2 DEF Ids
  <2>2. QED
    BY <1>3, <2>1, StaysBounded
<1>6. Pointed' /\ Named'
  BY <1>1, <1>2, <1>3 DEF Pointed, Named
<1>7. Covered' /\ ServesWhenLast'
  BY <1>1, <1>2 DEF Covered, Covers, ServesWhenLast, Awaited, Creating
<1>8. QED
  BY <1>4, <1>5, <1>6, <1>7 DEF StageInv

LEMMA CreateKeeps ==
    ASSUME StageInv, NEW r \in runs, CreateDeployment(r)
    PROVE  StageInv'
<1> DEFINE s == [r EXCEPT !.at = "stages", !.id = NextId]
<1>1. /\ r.at = "create" /\ deployments' = DeployedNext(TRUE) /\ stage' = NextId
      /\ runs' = (runs \ {r}) \cup {s}
      /\ UNCHANGED <<update, template, tree, cfn, pending, other, events>>
  BY DEF CreateDeployment, Continue
<1>2. StageTyped /\ Bounded /\ Pointed /\ Named
  BY DEF StageInv
<1>3. NextId \in Nat \ {0}
  BY <1>2, NextIsNew
<1>4. s \in Run /\ s.at = "stages" /\ s.id = NextId /\ s.todo = r.todo
  BY <1>2, <1>3 DEF StageTyped, Run
<1>5. /\ DOMAIN deployments' = DOMAIN deployments \cup {NextId} /\ NextId \notin DOMAIN deployments
      /\ deployments'[NextId].routes = tree
      /\ deployments'[NextId] \in [routes : SUBSET Nat, own : BOOLEAN]
      /\ \A d \in DOMAIN deployments : deployments'[d] = deployments[d]
  BY <1>1, <1>2, DeployedIs
<1> HIDE DEF s
<1>6. StageTyped'
  <2>1. runs' \subseteq Run /\ DOMAIN deployments' \subseteq Nat \ {0}
    BY <1>1, <1>2, <1>3, <1>4, <1>5 DEF StageTyped
  <2>2. ASSUME NEW d \in DOMAIN deployments'
        PROVE  deployments'[d] \in [routes : SUBSET Nat, own : BOOLEAN]
    BY <1>2, <1>5 DEF StageTyped
  <2>3. {template', stage', cfn', pending', other'} \subseteq Nat
        /\ UNCHANGED <<update, tree, events>>
    BY <1>1, <1>2, <1>3 DEF StageTyped
  <2>4. QED
    BY <1>2, <2>1, <2>2, <2>3 DEF StageTyped
<1>7. Bounded'
  <2>1. Ids' \subseteq Ids \cup {NextId, 0}
    <3>1. SUFFICES ASSUME NEW t \in runs'
                   PROVE  t.id \in Ids \cup {NextId} /\ t.todo \subseteq Ids
      BY <1>5 DEF Ids
    <3>2. CASE t = s
      BY <1>4, <3>2 DEF Ids
    <3>3. CASE t \in runs
      BY <3>3 DEF Ids
    <3>4. QED
      BY <1>1, <3>2, <3>3
  <2>2. QED
    BY <1>2, <2>1, StaysBounded
<1>8. Pointed'
  BY <1>1, <1>2, <1>5 DEF Pointed
<1>9. Named'
  <2>1. \A t \in runs : NextId \notin t.todo
    BY <1>2, NotToDelete
  <2>2. ASSUME NEW t \in runs' PROVE \E p \in runs : t.todo = p.todo
    BY <1>1, <1>4
  <2>3. QED
    BY <1>2, <1>5, <2>1, <2>2 DEF Named
<1>10. Covered'
  BY <1>1, <1>4, <1>5 DEF Covered, Covers
<1>11. ServesWhenLast'
  BY <1>1, <1>5 DEF ServesWhenLast
<1>12. QED
  BY <1>6, <1>7, <1>8, <1>9, <1>10, <1>11 DEF StageInv

\* A run that only goes on to another call, or ends, and leaves out nothing it covers.
LEMMA GoesOn ==
    ASSUME StageInv, NEW r \in runs, NEW s \in SUBSET Run, Continue(r, s),
           UNCHANGED <<update, template, tree, deployments, stage, cfn, pending, other>>,
           events' \in {events, events + 1},
           \A t \in s : t.id = r.id /\ \A d \in t.todo \cap DOMAIN deployments : deployments[d].own,
           UNION {t.todo : t \in s} \subseteq Ids,
           \/ events' = events + 1
           \/ /\ r.at # "create"
              /\ \A d \in DOMAIN deployments :
                    deployments[d].own /\ d \notin {stage, other} /\ Covers(r, d) =>
                        \E t \in s : Covers(t, d)
    PROVE  StageInv'
<1>1. StageTyped /\ Bounded /\ Pointed /\ Named /\ Covered /\ ServesWhenLast
  BY DEF StageInv
<1>2. runs' = (runs \ {r}) \cup s
  BY DEF Continue
<1>3. events \in Nat /\ events' \in Nat
  BY <1>1 DEF StageTyped
<1>4. StageTyped'
  BY <1>1, <1>2, <1>3 DEF StageTyped
<1>5. Bounded'
  <2>1. Ids' \subseteq Ids \cup {NextId, 0}
    BY <1>2 DEF Ids
  <2>2. QED
    BY <1>1, <2>1, StaysBounded
<1>6. Pointed' /\ Named'
  BY <1>1, <1>2 DEF Pointed, Named
<1>7. Covered'
  <2>1. SUFFICES ASSUME NEW d \in DOMAIN deployments, deployments[d].own, d \notin {stage, other},
                        update.at = "done", ~(events' > 0)
                 PROVE  \E t \in runs' : Covers(t, d)
    BY DEF Covered, Covers
  <2>2. PICK p \in runs : Covers(p, d)
    BY <1>1, <1>3, <2>1 DEF Covered
  <2>3. CASE p = r
    BY <1>2, <1>3, <2>1, <2>2, <2>3
  <2>4. CASE p # r
    BY <1>2, <2>2, <2>4
  <2>5. QED
    BY <2>3, <2>4
<1>8. ServesWhenLast'
  <2>1. CASE events' = events + 1
    BY <1>3, <2>1 DEF ServesWhenLast, Awaited
  <2>2. CASE r.at # "create" /\ events' # events + 1
    BY <1>1, <1>2, <2>2 DEF ServesWhenLast, Awaited, Creating
  <2>3. QED
    BY <2>1, <2>2
<1>9. QED
  BY <1>4, <1>5, <1>6, <1>7, <1>8 DEF StageInv

LEMMA ReadsKeep ==
    ASSUME StageInv, NEW r \in runs, GetStages(r) \/ GetDeployments(r) \/ End(r) \/ Fail(r)
    PROVE  StageInv'
<1>1. r \in Run /\ StageTyped /\ Named /\ r.todo \subseteq Ids /\ r.id \in Ids /\ DOMAIN deployments \subseteq Ids
  BY DEF StageInv, StageTyped, Ids
<1>2. CASE GetStages(r)
  <2> DEFINE s == [r EXCEPT !.at = "list", !.referenced = {stage, other} \ {0}]
  <2>1. Continue(r, {s}) /\ r.at = "stages"
        /\ UNCHANGED <<update, template, tree, deployments, stage, cfn, pending, other, events>>
    BY <1>2 DEF GetStages, api
  <2>2. /\ s \in Run /\ s.at = "list" /\ s.id = r.id /\ s.todo = r.todo
        /\ s.referenced = {stage, other} \ {0}
    BY <1>1 DEF Run, StageTyped
  <2> HIDE DEF s
  <2>3. \A d \in DOMAIN deployments : d \notin {stage, other} /\ Covers(r, d) => Covers(s, d)
    BY <2>1, <2>2 DEF Covers
  <2>4. QED
    BY <1>1, <2>1, <2>2, <2>3, GoesOn DEF Named
<1>3. CASE GetDeployments(r)
  <2> DEFINE s == [r EXCEPT !.at = "delete", !.todo = {d \in DOMAIN deployments : Prunes(r, d)}]
  <2>1. Continue(r, {s}) /\ r.at = "list"
        /\ UNCHANGED <<update, template, tree, deployments, stage, cfn, pending, other, events>>
    BY <1>3 DEF GetDeployments, api
  <2>2. /\ s \in Run /\ s.at = "delete" /\ s.id = r.id
        /\ s.todo = {d \in DOMAIN deployments : Prunes(r, d)}
    BY <1>1 DEF Run, StageTyped
  <2> HIDE DEF s
  <2>3. \A d \in DOMAIN deployments : deployments[d].own /\ Covers(r, d) => Covers(s, d)
    BY <2>1, <2>2 DEF Covers, Prunes
  <2>4. s.todo \subseteq Ids /\ \A d \in s.todo : deployments[d].own
    BY <1>1, <2>2 DEF Prunes
  <2>5. QED
    BY <1>1, <2>1, <2>2, <2>3, <2>4, GoesOn
<1>4. CASE End(r)
  <2>1. Continue(r, {}) /\ r.at = "delete" /\ r.todo = {}
        /\ UNCHANGED <<update, template, tree, deployments, stage, cfn, pending, other, events>>
    BY <1>4 DEF End, api
  <2>2. \A d \in DOMAIN deployments : ~Covers(r, d)
    BY <2>1 DEF Covers
  <2>3. QED
    BY <1>1, <2>1, <2>2, GoesOn
<1>5. CASE Fail(r)
  <2>1. Continue(r, {}) /\ events' = events + 1
        /\ UNCHANGED <<update, template, tree, deployments, stage, cfn, pending, other>>
    BY <1>5 DEF Fail, api
  <2>2. QED
    BY <2>1, GoesOn
<1>6. QED
  BY <1>2, <1>3, <1>4, <1>5

LEMMA DeleteKeeps ==
    ASSUME StageInv, NEW r \in runs, DeleteDeployment(r)
    PROVE  StageInv'
<1>1. PICK d \in r.todo :
         /\ deployments' = IF d \in {stage, other} THEN deployments ELSE Without(d)
         /\ Continue(r, {[r EXCEPT !.todo = @ \ {d}]})
  BY DEF DeleteDeployment
<1> DEFINE s == [r EXCEPT !.todo = @ \ {d}]
<1>2. /\ r.at = "delete" /\ runs' = (runs \ {r}) \cup {s}
      /\ UNCHANGED <<update, template, tree, stage, cfn, pending, other, events>>
  BY <1>1 DEF DeleteDeployment, Continue
<1>3. StageTyped /\ Bounded /\ Pointed /\ Named /\ Covered /\ ServesWhenLast /\ r \in Run
  BY DEF StageInv, StageTyped
<1>4. s \in Run /\ s.at = r.at /\ s.id = r.id /\ s.todo = r.todo \ {d} /\ s.referenced = r.referenced
  BY <1>3 DEF Run
<1> HIDE DEF s
<1>5. /\ DOMAIN deployments' \subseteq DOMAIN deployments
      /\ DOMAIN deployments \ {d} \subseteq DOMAIN deployments'
      /\ {stage} \cup ({other} \ {0}) \subseteq DOMAIN deployments'
      /\ \A e \in DOMAIN deployments' : deployments'[e] = deployments[e]
      /\ d \in DOMAIN deployments' => d \in {stage, other}
  <2>1. CASE d \in {stage, other}
    BY <1>1, <1>3, <2>1 DEF Pointed
  <2>2. CASE d \notin {stage, other}
    <3>1. deployments' = Without(d)
      BY <1>1, <2>2
    <3>2. /\ DOMAIN deployments' = DOMAIN deployments \ {d}
          /\ \A e \in DOMAIN deployments \ {d} : deployments'[e] = deployments[e]
      BY <3>1, WithoutIs
    <3>3. QED
      BY <1>3, <2>2, <3>2 DEF Pointed
  <2>3. QED
    BY <2>1, <2>2
<1>6. d \notin {cfn, pending} \ {0}
  BY <1>1, <1>3 DEF Named, Pointed
<1>7. StageTyped'
  BY <1>2, <1>3, <1>4, <1>5 DEF StageTyped
<1>8. Bounded'
  <2>1. Ids' \subseteq Ids \cup {NextId, 0}
    BY <1>2, <1>4, <1>5 DEF Ids
  <2>2. QED
    BY <1>3, <2>1, StaysBounded
<1>9. Pointed'
  <2>1. cfn # 0
    BY <1>3 DEF StageTyped, Pointed
  <2>2. QED
    BY <1>2, <1>3, <1>5, <1>6, <2>1 DEF Pointed
<1>10. Named'
  BY <1>2, <1>3, <1>4, <1>5 DEF Named
<1>11. Covered'
  <2>1. SUFFICES ASSUME NEW e \in DOMAIN deployments', deployments'[e].own, e \notin {stage, other},
                        update.at = "done", ~(events > 0)
                 PROVE  \E t \in runs' : Covers(t, e)
    BY <1>2 DEF Covered, Covers
  <2>2. e \in DOMAIN deployments /\ deployments[e].own /\ e # d
    BY <1>5, <2>1
  <2>3. PICK p \in runs : Covers(p, e)
    BY <1>3, <2>1, <2>2 DEF Covered
  <2>4. Covers(r, e) => Covers(s, e)
    BY <1>2, <1>4, <2>2 DEF Covers
  <2>5. QED
    BY <1>2, <2>3, <2>4
<1>12. ServesWhenLast'
  <2>1. Awaited' <=> Awaited
    BY <1>2, <1>4 DEF Awaited, Creating
  <2>2. deployments'[stage].routes = deployments[stage].routes
    BY <1>5
  <2>3. QED
    BY <1>2, <1>3, <2>1, <2>2 DEF ServesWhenLast
<1>13. QED
  BY <1>7, <1>8, <1>9, <1>10, <1>11, <1>12 DEF StageInv
--------------------------------------------------------------------------------
LEMMA StepKeeps == StageInv /\ [StageNext]_stageVars => StageInv'
<1> SUFFICES ASSUME StageInv, [StageNext]_stageVars PROVE StageInv'
  OBVIOUS
<1>1. ASSUME NEW r \in runs, RunStep(r) PROVE StageInv'
  BY <1>1, CreateKeeps, ReadsKeep, DeleteKeeps DEF RunStep
<1>2. CASE UNCHANGED stageVars
  <2>1. UNCHANGED <<update, template, tree, deployments, stage, cfn, pending, other, events, runs>>
    BY <1>2 DEF stageVars
  <2>2. QED
    BY <2>1 DEF StageInv, StageTyped, Bounded, Ids, Pointed, Named, Covered, Covers, ServesWhenLast, Awaited,
                Creating
<1>3. QED
  BY <1>1, <1>2, ChangeKeeps, DeployStackKeeps, CleanUpKeeps, RestoreKeeps, CleanUpRestoredKeeps,
     PointOtherKeeps, DeliverKeeps DEF StageNext

\* Every reachable state satisfies the invariant, in whatever order events, runs and updates
\* come (src/lambdas/redeploy-stage).
THEOREM StageInvariance == StageSpec => []StageInv
BY Start, StepKeeps, PTL DEF StageSpec

\* When all is over the stage routes what the API has, only what a stage points to is left
\* of the runs' deployments, and CloudFormation's stand: for any number of updates, rollbacks
\* and runs that fail, are started twice or come late (redeployStage).
THEOREM StageIsKept == StageSpec => []StageKept
<1>1. StageInv => StageKept
  BY DEF StageInv, StageKept, StageServesTree, OwnPruned, CfnStands, Settled, Pointed, Covered,
         ServesWhenLast, Awaited, Creating
<1>2. QED
  BY <1>1, StageInvariance, PTL

--------------------------------------------------------------------------------
(* Pruning: PostDeploy. *)

\* A task, by its kind.
Finds(kind) ==
    IF kind = "table" THEN Partitions ELSE IF kind = "cache" THEN Builds ELSE AssetKeys
TasksOf(kind) ==
    [kind : {kind}, at : {"read", "query", "delete", "record", "list", "send"},
     cur : Builds, prev : Builds \cup {NoBuild}, asked : SUBSET Partitions,
     found : SUBSET Finds(kind)]

Typed ==
    /\ PruningTypeOK
    /\ meta \in Builds
    /\ \A t \in tasks \cup left : t.kind \in Kinds /\ t \in TasksOf(t.kind)

\* An invocation has one task of a kind at most, of its own target, and none outlives
\* it unless it was left.
TasksAreIts ==
    /\ \A t \in tasks : t.kind \in parts
    /\ \A t, u \in tasks : t.kind = u.kind => t = u
    /\ tasks # {} => phase = "pruning"
    /\ phase \in {"idle", "stuck", "reverting", "reverted"} => target = current

\* What a task is going to delete is not its build's, nor another stack's.
Spares(t) ==
    /\ t.kind = "table" =>
          /\ t.at \in {"read", "query", "delete", "record"}
          /\ t.at \in {"query", "delete"} => t.prev \in Builds \ {t.cur}
    /\ t.kind = "cache" => t.at \in {"list", "delete"} /\ t.cur \notin t.found
    /\ t.kind = "assets" => t.found \cap Others = {}
    /\ t.kind = "assets" /\ t \in tasks => t.found \cap AssetsOf[target] = {}
Spared == \A t \in tasks \cup left : Spares(t)

\* Whose uploads are there. A deployment's own take the place of those of the build the
\* stack is at; a rollback makes them again, unless they were not touched.
Fresh == phase \in {"uploading", "ready"} /\ target # current
Standing == IF phase = "uploading" THEN current ELSE target
Landed ==
    \/ phase \in {"ready", "pruning", "pruned", "idle", "reverted"}
    \/ phase = "uploading" /\ target # current

\* What that build uploaded is there, and its keys name it.
UploadsStand ==
    /\ Landed /\ "cache" \in parts =>
          "seed" \in cached[Standing] \/ <<Standing, "seed">> \in tainted
    /\ Landed /\ "assets" \in parts => \A key \in AssetsOf[Standing] :
          IF key \in DOMAIN assets THEN assets[key].build = Standing ELSE key \in tainted
    /\ phase = "reverting" /\ "assets" \in parts => \E b \in abandoned :
          \A key \in AssetsOf[b] \cap DOMAIN assets : assets[key].build = b
    /\ \A key \in Others : key \in DOMAIN assets /\ (IsOurs(key) => assets[key].build = NoBuild)
    /\ \A key \in DOMAIN assets \ Others : assets[key].build \in Builds

\* What instances of the current build and of the target noted is there.
NotedStands == \A b \in Builds : \A p \in Partitions : <<b, p>> \in noted =>
    /\ b = current \/ b = target
    /\ p \in rows[b] \/ <<b, p>> \in tainted

\* CloudFront holds what it is asked for once the target has the requests, and until it
\* is invalidated the task that does so is to come; or what it holds is known of before
\* the post-deploy.
Known == {current, target} \cup abandoned
EdgeFollows ==
    /\ "cdn" \notin parts => edge = {}
    /\ phase = "idle" => routed = target
    /\ Ordered =>
         /\ phase \in {"pruning", "pruned"} => routed = target
         /\ Fresh \/ phase \in {"reverting", "reverted"} => routed \in Known /\ edge \subseteq Known
         /\ phase \in {"pruning", "pruned", "idle"} =>
               edge \subseteq {target} \cup abandoned \/ \E t \in tasks : t.kind = "cdn"

\* Rows of a build that no metadata names, nor is going to, are accounted for.
RowsRecorded ==
    /\ "table" \notin parts => \A b \in Builds : rows[b] = {}
    /\ \A b \in Builds : \A p \in rows[b] : IsRecorded(b) \/ <<b, p>> \in lost

\* A task of the table has what it asked for, or lost it, and when it records its own
\* build nothing of the one before is left that is not.
Queries(t) ==
    /\ t.at = "read" => t.asked = {}
    /\ t.at = "query" => "log" \notin t.asked
    /\ t.at = "delete" => t.asked = Partitions
    /\ t.at \in {"query", "delete"} => \A p \in t.asked \cap rows[t.prev] :
          p \in t.found \/ <<t.prev, p>> \in lost
    /\ t.at = "record" /\ t.prev # NoBuild =>
          t.asked = Partitions /\ \A p \in rows[t.prev] : <<t.prev, p>> \in lost
    /\ t.prev # t.cur
Queried == \A t \in tasks \cup left : t.kind = "table" => Queries(t)

\* What the bucket holds of other builds is to be listed, or was listed, or is accounted for.
Listed(b) ==
    \/ \E t \in tasks : t.kind = "cache" /\ (t.at = "list" \/ b \in t.found)
    \/ \A o \in cached[b] : <<b, o>> \in stray
BucketListed ==
    phase \in {"pruning", "pruned"} /\ "cache" \in parts =>
        \A b \in (Builds \cup {NoBuild}) \ {target} : Listed(b)

IInv == Typed /\ TasksAreIts /\ Spared /\ UploadsStand /\ NotedStands /\ EdgeFollows
        /\ RowsRecorded /\ Queried /\ BucketListed

--------------------------------------------------------------------------------
(* The initial states, and the tasks. *)

LEMMA StartHolds == PruningInit => IInv
<1> SUFFICES ASSUME PruningInit PROVE IInv
  OBVIOUS
<1>0. First \in Builds /\ NoBuild \notin Builds /\ "another stack" \notin Builds
      /\ AssetsOf[First] \subseteq AssetKeys /\ Others \subseteq AssetKeys
      /\ AssetsOf[First] \cap Others = {}
  <2>1. AssetsOf[First] \in Range(AssetsOf)
    BY PruningAssumption DEF Range
  <2>2. AssetsOf[First] \subseteq UNION Range(AssetsOf)
    BY <2>1
  <2>3. QED
    BY <2>2, PruningAssumption DEF AssetKeys
<1>1. Typed
  <2>1. parts \in Stacks /\ phase = "idle" /\ current = First /\ target = First /\ meta = First
        /\ serving = {First} /\ routed = First /\ edge = {} /\ tasks = {} /\ left = {}
        /\ lost = {} /\ stray = {} /\ noted = {} /\ abandoned = {}
    BY DEF PruningInit
  <2>2. rows \in [Builds -> SUBSET Partitions]
    BY DEF PruningInit
  <2>3. cached \in [Builds \cup {NoBuild} -> SUBSET Objects]
    BY DEF PruningInit, Objects
  <2>4. DOMAIN assets \subseteq AssetKeys
    BY <1>0 DEF PruningInit
  <2>5. ASSUME NEW key \in DOMAIN assets
        PROVE  assets[key] \in [build : Builds \cup {NoBuild, "another stack"}, old : BOOLEAN]
    BY <1>0 DEF PruningInit
  <2>6. QED
    BY <1>0, <2>1, <2>2, <2>3, <2>4, <2>5 DEF Typed, PruningTypeOK, DeploymentPhases
<1>2. TasksAreIts /\ Spared /\ NotedStands /\ EdgeFollows /\ RowsRecorded /\ Queried
      /\ BucketListed
  BY DEF PruningInit, TasksAreIts, Spared, NotedStands, EdgeFollows, Fresh, RowsRecorded, Queried,
         BucketListed
<1>3. UploadsStand
  <2>1. "seed" \in cached[target]
    BY <1>0 DEF PruningInit
  <2>2. ASSUME NEW key \in AssetsOf[target]
        PROVE  key \in DOMAIN assets /\ assets[key].build = target
    BY <2>2 DEF PruningInit
  <2>3. ASSUME NEW key \in Others
        PROVE  key \in DOMAIN assets /\ (IsOurs(key) => assets[key].build = NoBuild)
    BY <1>0, <2>3 DEF PruningInit
  <2>4. ASSUME NEW key \in DOMAIN assets \ Others PROVE assets[key].build \in Builds
    BY <1>0, <2>4 DEF PruningInit
  <2>5. Standing = target /\ phase = "idle"
    BY DEF PruningInit, Standing
  <2>6. QED
    BY <2>1, <2>2, <2>3, <2>4, <2>5 DEF UploadsStand
<1>4. QED
  BY <1>1, <1>2, <1>3 DEF IInv

\* The tasks of an invocation.
LEMMA NewTasksAre ==
    ASSUME IInv
    PROVE  /\ \A t \in NewTasks :
                 /\ t.kind \in parts /\ t.kind \in Kinds /\ t \in TasksOf(t.kind)
                 /\ t.cur = target /\ t.prev = NoBuild /\ t.asked = {} /\ t.found = {}
                 /\ t.at = FirstRequest[t.kind]
           /\ \A t, u \in NewTasks : t.kind = u.kind => t = u
           /\ \A kind \in parts \cap Kinds : \E t \in NewTasks : t.kind = kind
<1>1. target \in Builds
  BY PruningAssumption DEF IInv, Typed, PruningTypeOK
<1>2. ASSUME NEW kind \in Kinds
      PROVE  LET t == Task(kind, FirstRequest[kind])
             IN  /\ t.kind = kind /\ t \in TasksOf(kind) /\ t.cur = target /\ t.prev = NoBuild
                 /\ t.asked = {} /\ t.found = {} /\ t.at = FirstRequest[kind]
  <2>1. FirstRequest[kind] \in {"read", "list", "send"}
    BY <1>1 DEF FirstRequest, Kinds
  <2>2. QED
    BY <1>1, <2>1 DEF Task, TasksOf
<1>3. QED
  BY <1>1, <1>2 DEF NewTasks

\* What a task's step makes of the tasks.
LEMMA BecomesIs ==
    ASSUME NEW t \in tasks \cup left, NEW set, Becomes(t, set)
    PROVE  /\ \A u \in tasks' : u \in tasks \/ (u \in set /\ t \in tasks)
           /\ \A u \in tasks' \cup left' : u \in tasks \cup left \/ u \in set
           /\ tasks \ {t} \subseteq tasks'
           /\ t \in tasks => set \subseteq tasks' /\ (t \in tasks' => t \in set)
           /\ t \notin tasks => tasks' = tasks
  BY DEF Becomes

\* A task that goes on stays its invocation's, of its kind.
LEMMA OwnTasksStay ==
    ASSUME IInv, NEW t \in tasks \cup left, phase = "pruning", NEW set, Becomes(t, set),
           \A u \in set : u.kind = t.kind /\ u.cur = t.cur /\ t.kind \in Kinds
                          /\ u \in TasksOf(t.kind),
           \A u, v \in set : u = v, UNCHANGED stack
    PROVE  /\ TasksAreIts'
           /\ \A u \in tasks' : u.cur = target'
           /\ \A u \in tasks' \cup left' : u.kind \in Kinds /\ u \in TasksOf(u.kind)
<1>1. TasksAreIts /\ (\A u \in tasks : u.cur = target)
      /\ \A u \in tasks \cup left : u.kind \in Kinds /\ u \in TasksOf(u.kind)
  BY DEF IInv, Typed, PruningTypeOK
<1>2. UNCHANGED <<parts, current, target, phase>>
  BY DEF stack
<1>3. \A u \in tasks' : u.cur = target' /\ u.kind \in parts'
  BY <1>1, <1>2, BecomesIs DEF TasksAreIts
<1>4. \A u \in tasks' \cup left' : u.kind \in Kinds /\ u \in TasksOf(u.kind)
  BY <1>1, BecomesIs
<1>5. ASSUME NEW u \in tasks', NEW v \in tasks', u.kind = v.kind PROVE u = v
  <2>1. CASE t \in tasks
    <3>1. tasks' = (tasks \ {t}) \cup set
      BY <2>1 DEF Becomes
    <3>2. QED
      BY <1>1, <1>5, <2>1, <3>1 DEF TasksAreIts
  <2>2. CASE t \notin tasks
    BY <1>1, <1>5, <2>2, BecomesIs DEF TasksAreIts
  <2>3. QED
    BY <2>1, <2>2
<1>6. QED
  BY <1>1, <1>2, <1>3, <1>4, <1>5 DEF TasksAreIts
--------------------------------------------------------------------------------
(* The instances. *)

\* Neither the deployment nor its tasks.
Aside == UNCHANGED <<stack, tasks, left>>

LEMMA TasksAside ==
    ASSUME IInv, Aside
    PROVE  TasksAreIts' /\ Spared' /\ (meta' = meta => \A b \in Builds : IsRecorded(b)' <=> IsRecorded(b))
<1>1. UNCHANGED <<parts, current, target, phase, tasks, left>>
  BY DEF Aside, stack
<1>2. TasksAreIts'
  BY <1>1 DEF IInv, TasksAreIts
<1>3. Spared'
  BY <1>1 DEF IInv, Spared, Spares
<1>4. QED
  BY <1>1, <1>2, <1>3 DEF IsRecorded

\* A row is not an asset.
LEMMA RowIs ==
    ASSUME NEW b \in Builds, NEW p \in Partitions, NEW d \in Builds
    PROVE  <<b, p>> \notin AssetsOf[d] /\ p # "seed"
<1>1. AssetsOf[d] \in Range(AssetsOf)
  BY PruningAssumption DEF Range
<1>2. AssetsOf[d] \subseteq UNION Range(AssetsOf)
  BY <1>1
<1>3. <<b, p>> \in Builds \X Partitions
  OBVIOUS
<1>4. <<b, p>> \notin UNION Range(AssetsOf)
  BY <1>3, PruningAssumption
<1>5. QED
  BY <1>2, <1>4 DEF Partitions

LEMMA WriteHolds ==
    ASSUME IInv, NEW b \in Builds, NEW p \in Partitions, WriteRow(b, p)
    PROVE  IInv'
<1>0. Typed /\ PruningTypeOK /\ Aside /\ UNCHANGED <<parts, current, target, phase>>
      /\ UNCHANGED <<compute, meta, cached, assets, edge, tasks, left, stray, abandoned>>
  BY DEF IInv, Typed, WriteRow, Aside, stack
<1>1. rows \in [Builds -> SUBSET Partitions] /\ lost \subseteq Builds \X Partitions
      /\ noted \subseteq Builds \X Partitions
  BY <1>0 DEF PruningTypeOK
<1>2. rows' = [rows EXCEPT ![b] = @ \cup {p}]
      /\ noted' = (IF b \in {current, target} THEN noted \cup {<<b, p>>} ELSE noted)
      /\ tainted' = tainted \ {<<b, p>>}
      /\ lost' = (IF ~IsRecorded(b) \/ \E t \in tasks \cup left : PastIt(t, b, p)
                  THEN lost \cup {<<b, p>>} ELSE lost)
  BY DEF WriteRow
<1>3. rows' \in [Builds -> SUBSET Partitions] /\ lost' \subseteq Builds \X Partitions
      /\ noted' \subseteq Builds \X Partitions
  BY <1>1, <1>2
<1>4. Typed'
  BY <1>0, <1>3 DEF Typed, PruningTypeOK, compute
<1>5. TasksAreIts' /\ Spared' /\ \A d \in Builds : IsRecorded(d)' <=> IsRecorded(d)
  BY <1>0, TasksAside
<1>6. UploadsStand'
  <2>1. "seed" # p /\ \A d \in Builds : <<b, p>> \notin AssetsOf[d]
    BY <1>0, RowIs DEF PruningTypeOK
  <2>2. Standing \in Builds /\ (Standing' = Standing) /\ (Landed' <=> Landed)
    BY <1>0 DEF Standing, Landed, PruningTypeOK
  <2>3. \A x \in tainted : x = <<b, p>> \/ x \in tainted'
    BY <1>2
  <2>4. QED
    BY <1>0, <2>1, <2>2, <2>3 DEF IInv, UploadsStand
<1>7. NotedStands'
  <2>1. SUFFICES ASSUME NEW d \in Builds, NEW q \in Partitions, <<d, q>> \in noted'
                 PROVE  (d = current \/ d = target) /\ (q \in rows'[d] \/ <<d, q>> \in tainted')
    BY <1>0 DEF NotedStands
  <2>2. CASE d = b /\ q = p
    <3>1. p \in rows'[b]
      BY <1>1, <1>2
    <3>2. <<b, p>> \in noted => b = current \/ b = target
      BY DEF IInv, NotedStands
    <3>3. QED
      BY <1>2, <2>1, <2>2, <3>1, <3>2
  <2>3. CASE ~(d = b /\ q = p)
    <3>1. <<d, q>> # <<b, p>> /\ <<d, q>> \in noted
      BY <1>2, <2>1, <2>3
    <3>2. rows[d] \subseteq rows'[d]
      BY <1>1, <1>2
    <3>3. QED
      BY <1>2, <3>1, <3>2 DEF IInv, NotedStands
  <2>4. QED
    BY <2>2, <2>3
<1>8. EdgeFollows' /\ BucketListed'
  BY <1>0 DEF IInv, EdgeFollows, Fresh, Known, Ordered, BucketListed, Listed, compute
<1>9. RowsRecorded'
  <2>1. "table" \in parts
    BY DEF WriteRow
  <2>2. ASSUME NEW d \in Builds, NEW q \in rows'[d]
        PROVE  IsRecorded(d) \/ <<d, q>> \in lost'
    <3>1. q \in rows[d] \/ (d = b /\ q = p)
      BY <1>1, <1>2
    <3>2. CASE q \in rows[d]
      BY <1>2, <3>2 DEF IInv, RowsRecorded
    <3>3. CASE d = b /\ q = p
      BY <1>2, <3>3
    <3>4. QED
      BY <3>1, <3>2, <3>3
  <2>3. QED
    BY <1>0, <1>5, <2>1, <2>2 DEF RowsRecorded
<1>10. Queried'
  <2>1. SUFFICES ASSUME NEW t \in tasks \cup left, t.kind = "table" PROVE Queries(t)'
    BY <1>0 DEF Queried
  <2>2. Queries(t) /\ Spares(t)
    BY <2>1 DEF IInv, Queried, Spared
  <2>3. ASSUME NEW q \in rows'[t.prev], t.prev \in Builds, q \in t.asked
        PROVE  q \in rows[t.prev] \/ <<t.prev, q>> \in lost'
    <3>1. q \in rows[t.prev] \/ (t.prev = b /\ q = p)
      BY <1>1, <1>2, <2>3
    <3>2. CASE t.prev = b /\ q = p
      <4>1. PastIt(t, b, p)
        BY <2>1, <2>2, <2>3, <3>2 DEF PastIt, Queries
      <4>2. QED
        BY <1>2, <3>2, <4>1
    <3>3. QED
      BY <3>1, <3>2
  <2>4. lost \subseteq lost' /\ t.prev \in Builds \cup {NoBuild}
    BY <1>0, <1>2 DEF Typed, TasksOf
  <2>5. t.at = "record" /\ t.prev # NoBuild =>
            /\ t.asked = Partitions
            /\ \A q \in rows'[t.prev] : q \in t.asked
    BY <1>3, <2>2, <2>4 DEF Queries
  <2>6. QED
    BY <2>1, <2>2, <2>3, <2>4, <2>5 DEF Queries, Spares
<1>11. QED
  BY <1>4, <1>5, <1>6, <1>7, <1>8, <1>9, <1>10 DEF IInv

LEMMA StoreHolds ==
    ASSUME IInv, NEW b \in Builds, Store(b)
    PROVE  IInv'
<1>0. Typed /\ PruningTypeOK /\ Aside /\ UNCHANGED <<parts, current, target, phase>>
      /\ UNCHANGED <<compute, rows, meta, assets, edge, tasks, left, lost, noted, tainted, abandoned>>
  BY DEF IInv, Typed, Store, Aside, stack
<1>1. cached \in [Builds \cup {NoBuild} -> SUBSET Objects]
      /\ stray \subseteq (Builds \cup {NoBuild}) \X Objects
  BY <1>0 DEF PruningTypeOK
<1>2. cached' = [cached EXCEPT ![b] = @ \cup {"entry"}]
      /\ stray' = (IF b # target THEN stray \cup {<<b, "entry">>} ELSE stray)
  BY DEF Store
<1>3. cached' \in [Builds \cup {NoBuild} -> SUBSET Objects]
      /\ stray' \subseteq (Builds \cup {NoBuild}) \X Objects
  BY <1>1, <1>2 DEF Objects
<1>4. Typed'
  BY <1>0, <1>3 DEF Typed, PruningTypeOK, compute
<1>5. TasksAreIts' /\ Spared' /\ \A d \in Builds : IsRecorded(d)' <=> IsRecorded(d)
  BY <1>0, TasksAside
<1>6. UploadsStand'
  <2>1. Standing \in Builds /\ ("seed" \in cached[Standing] => "seed" \in cached'[Standing])
    BY <1>0, <1>1, <1>2 DEF PruningTypeOK, Standing
  <2>2. Standing' = Standing /\ (Landed' <=> Landed)
    BY <1>0 DEF Standing, Landed
  <2>3. QED
    BY <1>0, <2>1, <2>2 DEF IInv, UploadsStand
<1>7. NotedStands' /\ EdgeFollows' /\ RowsRecorded'
  BY <1>0, <1>5 DEF IInv, NotedStands, EdgeFollows, Fresh, Known, Ordered, RowsRecorded, compute
<1>8. Queried'
  BY <1>0 DEF IInv, Queried, Queries
<1>9. BucketListed'
  <2>1. SUFFICES ASSUME NEW d \in (Builds \cup {NoBuild}) \ {target}, Listed(d) PROVE Listed(d)'
    BY <1>0 DEF IInv, BucketListed
  <2>2. ASSUME NEW o \in cached'[d] PROVE o \in cached[d] \/ <<d, o>> \in stray'
    BY <1>1, <1>2, <2>1, <2>2
  <2>3. stray \subseteq stray'
    BY <1>2
  <2>4. QED
    BY <1>0, <2>1, <2>2, <2>3 DEF Listed
<1>10. QED
  BY <1>4, <1>5, <1>6, <1>7, <1>8, <1>9 DEF IInv

\* The files that builds share name the build whose uploads are there, or the one that
\* is given up.
LEMMA SharedAre ==
    ASSUME IInv
    PROVE  /\ Landed => PublicFiles \subseteq {Standing}
           /\ phase = "reverting" => PublicFiles \subseteq abandoned
<1>1. Standing \in Builds /\ abandoned \subseteq Builds
  BY DEF IInv, Typed, PruningTypeOK, Standing
<1>2. ASSUME "assets" \in parts, NEW key \in KeptKeys
      PROVE  /\ Landed => assets[key].build = Standing
             /\ phase = "reverting" => assets[key].build \in abandoned
  <2>1. key \in DOMAIN assets /\ \A b \in Builds : key \in AssetsOf[b]
    BY <1>2 DEF KeptKeys
  <2>2. QED
    BY <1>1, <1>2, <2>1 DEF IInv, UploadsStand
<1>3. QED
  BY <1>2 DEF PublicFiles

\* Nothing but what CloudFront holds, who serves, or how old an object is.
LEMMA ServingHolds ==
    ASSUME IInv, Aside, UNCHANGED <<rows, meta, cached, history>>, Typed', EdgeFollows',
           DOMAIN assets' = DOMAIN assets,
           \A key \in DOMAIN assets : assets'[key].build = assets[key].build
    PROVE  IInv'
<1>0. UNCHANGED <<parts, current, target, phase, tasks, left, rows, meta, cached, lost, stray,
                  noted, tainted, abandoned>>
  BY DEF Aside, stack, history
<1>1. TasksAreIts' /\ Spared' /\ \A d \in Builds : IsRecorded(d)' <=> IsRecorded(d)
  BY <1>0, TasksAside
<1>2. UploadsStand'
  <2>1. Standing' = Standing /\ (Landed' <=> Landed)
    BY <1>0 DEF Standing, Landed
  <2>2. QED
    BY <1>0, <2>1 DEF IInv, UploadsStand
<1>3. NotedStands' /\ RowsRecorded'
  BY <1>0, <1>1 DEF IInv, NotedStands, RowsRecorded
<1>4. Queried' /\ BucketListed'
  BY <1>0 DEF IInv, Queried, Queries, BucketListed, Listed
<1>5. QED
  BY <1>1, <1>2, <1>3, <1>4 DEF IInv

LEMMA InstancesHold ==
    ASSUME IInv, CacheAtEdge \/ MonthPasses \/ \E b \in Builds : InstancesEnd(b)
    PROVE  IInv'
<1>0. Typed /\ PruningTypeOK /\ EdgeFollows
  BY DEF IInv, Typed
<1>1. CASE CacheAtEdge
  <2>1. Aside /\ UNCHANGED <<rows, meta, cached, assets, history, compute>> /\ "cdn" \in parts
        /\ UNCHANGED <<parts, current, target, phase, tasks, left>>
    BY <1>1 DEF CacheAtEdge, Aside, stack
  <2>2. PICK b \in {routed} \cup PublicFiles : edge' = edge \cup {b}
    BY <1>1 DEF CacheAtEdge
  <2>3. Ordered => /\ phase \in {"idle", "pruning", "pruned"} => b = target
                   /\ Fresh \/ phase \in {"reverting", "reverted"} => b \in Known
    BY <1>0, <2>1, <2>2, SharedAre DEF EdgeFollows, Landed, Standing, Fresh, Known
  <2>4. b \in Builds
    <3>1. routed \in Builds
      BY <1>0 DEF PruningTypeOK
    <3>2. PublicFiles \subseteq Builds
      <4>1. ASSUME NEW key \in KeptKeys, "assets" \in parts PROVE assets[key].build \in Builds
        <5>1. key \in AssetsOf[First] /\ key \in DOMAIN assets /\ First \in Builds
          BY <4>1, PruningAssumption DEF KeptKeys
        <5>2. AssetsOf[First] \in Range(AssetsOf)
          BY <5>1, PruningAssumption DEF Range
        <5>3. key \notin Others
          BY <5>1, <5>2, PruningAssumption
        <5>4. QED
          BY <5>1, <5>3 DEF IInv, UploadsStand
      <4>2. QED
        BY <4>1 DEF PublicFiles
    <3>3. QED
      BY <2>2, <3>1, <3>2
  <2>5. Typed'
    BY <1>0, <2>1, <2>2, <2>4 DEF Typed, PruningTypeOK, compute, history
  <2>6. EdgeFollows'
    BY <1>0, <2>1, <2>2, <2>3 DEF EdgeFollows, Fresh, Known, Ordered, compute, history
  <2>7. QED
    BY <2>1, <2>5, <2>6, ServingHolds
<1>2. CASE MonthPasses
  <2>1. Aside /\ UNCHANGED <<rows, meta, cached, history, compute, edge>>
        /\ UNCHANGED <<parts, current, target, phase, tasks, left>>
    BY <1>2 DEF MonthPasses, Aside, stack
  <2>2. assets' = [key \in DOMAIN assets |-> [assets[key] EXCEPT !.old = TRUE]]
    BY <1>2 DEF MonthPasses
  <2>3. ASSUME NEW key \in DOMAIN assets
        PROVE  /\ assets'[key] \in [build : Builds \cup {NoBuild, "another stack"}, old : BOOLEAN]
               /\ assets'[key].build = assets[key].build
    <3>1. assets[key] \in [build : Builds \cup {NoBuild, "another stack"}, old : BOOLEAN]
      BY <1>0 DEF PruningTypeOK
    <3>2. QED
      BY <2>2, <3>1
  <2>4. DOMAIN assets' = DOMAIN assets
    BY <2>2
  <2>5. Typed'
    BY <1>0, <2>1, <2>3, <2>4 DEF Typed, PruningTypeOK, compute, history
  <2>6. EdgeFollows'
    BY <1>0, <2>1 DEF EdgeFollows, Fresh, Known, Ordered, compute, history
  <2>7. QED
    BY <2>1, <2>3, <2>4, <2>5, <2>6, ServingHolds
<1>3. ASSUME NEW b \in Builds, InstancesEnd(b) PROVE IInv'
  <2>1. Aside /\ UNCHANGED <<rows, meta, cached, assets, history, edge, routed>>
        /\ UNCHANGED <<parts, current, target, phase, tasks, left>>
        /\ serving' = serving \ {b} /\ b # routed
    BY <1>3 DEF InstancesEnd, Aside, stack, stores
  <2>2. Typed'
    BY <1>0, <2>1 DEF Typed, PruningTypeOK, history
  <2>3. EdgeFollows'
    BY <1>0, <2>1 DEF EdgeFollows, Fresh, Known, Ordered, history
  <2>4. QED
    BY <2>1, <2>2, <2>3, ServingHolds
<1>4. QED
  BY <1>1, <1>2, <1>3
--------------------------------------------------------------------------------
(* The deployment. *)

\* Whatever was under way, the stack moves to a target: the last one's rows are named
\* by the metadata, or accounted for. Where the post-deploy will not run, no row relies
\* on it.
LEMMA TargetHolds ==
    ASSUME IInv, NEW b \in Builds, NEW at \in {"uploading", "reverting", "reverted"},
           Begin(b, at), tasks' = {}, left' \subseteq tasks \cup left, lost \subseteq lost',
           lost' \subseteq Builds \X Partitions, abandoned' \subseteq Builds,
           \A p \in rows[target] : target' = target \/ target = meta \/ <<target, p>> \in lost',
           at # "uploading" => b = current /\ target # current /\ phase \in {"uploading", "ready"},
           UploadsStand', EdgeFollows'
    PROVE  IInv'
<1>0. Typed /\ PruningTypeOK /\ target' = b /\ phase' = at
      /\ UNCHANGED <<parts, current, serving, routed, rows, meta, cached, assets, edge, stray, tainted>>
  BY DEF IInv, Typed, Begin, compute, stores
<1>1. noted' \subseteq noted /\ \A d, p : <<d, p>> \in noted' => d = current
  BY DEF Begin, NotesOf
<1>2. Typed'
  <2>1. noted' \subseteq Builds \X Partitions
    BY <1>0, <1>1 DEF PruningTypeOK
  <2>2. QED
    BY <1>0, <2>1 DEF Typed, PruningTypeOK, DeploymentPhases
<1>3. TasksAreIts' /\ BucketListed'
  BY <1>0 DEF TasksAreIts, BucketListed
<1>4. Spared'
  BY <1>0 DEF IInv, Spared, Spares
<1>5. NotedStands'
  BY <1>0, <1>1 DEF IInv, NotedStands
<1>6. RowsRecorded'
  <2>1. ASSUME NEW d \in Builds, NEW p \in rows[d]
        PROVE  IsRecorded(d)' \/ <<d, p>> \in lost'
    <3>1. IsRecorded(d) \/ <<d, p>> \in lost
      BY <2>1 DEF IInv, RowsRecorded
    <3>2. CASE d = meta
      BY <1>0, <3>2 DEF IsRecorded
    <3>3. CASE d # meta /\ d = target /\ at = "uploading"
      BY <1>0, <2>1, <3>3 DEF IsRecorded
    <3>4. CASE d # meta /\ d = target /\ at # "uploading"
      BY <1>0, <2>1, <3>4
    <3>5. CASE d # meta /\ d # target
      BY <3>1, <3>5 DEF IsRecorded
    <3>6. QED
      BY <3>2, <3>3, <3>4, <3>5
  <2>2. QED
    BY <1>0, <2>1 DEF IInv, RowsRecorded
<1>7. Queried'
  <2>1. SUFFICES ASSUME NEW t \in tasks \cup left, t.kind = "table", Queries(t)
                 PROVE  Queries(t)'
    BY DEF IInv, Queried
  <2>2. QED
    BY <1>0, <2>1 DEF Queries
<1>8. QED
  BY <1>2, <1>3, <1>4, <1>5, <1>6, <1>7 DEF IInv

\* Back to the current build with the post-deploy to come: nothing is known of what the
\* uploads were replaced by, nor of CloudFront.
LEMMA BackIs ==
    ASSUME IInv, Begin(current, "uploading")
    PROVE  UploadsStand' /\ EdgeFollows'
<1>1. target' = current' /\ phase' = "uploading" /\ UNCHANGED <<parts, current, edge, assets>>
  BY DEF Begin, compute, stores
<1>2. QED
  BY <1>1 DEF IInv, UploadsStand, Landed, EdgeFollows, Fresh

LEMMA UnrecordedIs ==
    ASSUME IInv
    PROVE  /\ Unrecorded \subseteq Builds \X Partitions
           /\ \A p \in rows[target] : target = meta \/ <<target, p>> \in lost \cup Unrecorded
<1>1. target \in Builds /\ rows[target] \subseteq Partitions
  BY DEF IInv, Typed, PruningTypeOK
<1>2. QED
  BY <1>1 DEF Unrecorded

LEMMA BeginHolds ==
    ASSUME IInv, RollBack \/ ContinueRollback \/ \E b \in Builds : Deploy(b)
    PROVE  IInv'
<1>0. Typed /\ PruningTypeOK /\ TasksAreIts
  BY DEF IInv, Typed
<1>1. {current, target} \subseteq Builds /\ lost \subseteq Builds \X Partitions /\ abandoned \subseteq Builds
  BY <1>0 DEF PruningTypeOK
<1>2. CASE RollBack
  <2>1. /\ tasks = {} /\ UNCHANGED <<tasks, left>> /\ lost' = lost \cup Unrecorded
        /\ target # current
    BY <1>0, <1>2 DEF RollBack, RollBackBeforePruning, RollBackPruned, TasksAreIts
  <2>2. CASE RollBackPruned
    BY <1>1, <2>1, <2>2, UnrecordedIs, BackIs, TargetHolds DEF RollBackPruned
  <2>3. CASE RollBackBeforePruning
    <3>1. PICK at \in {"reverting", "reverted"} :
              /\ at = (IF phase = "uploading" THEN "reverted" ELSE "reverting")
              /\ Begin(current, at)
      BY <2>3 DEF RollBackBeforePruning
    <3>2. phase \in {"uploading", "ready"} /\ abandoned' = abandoned \cup {target}
      BY <2>3 DEF RollBackBeforePruning
    <3>3. /\ target' = current /\ phase' = at
          /\ UNCHANGED <<parts, current, routed, cached, assets, edge, tainted>>
      BY <3>1 DEF Begin, compute, stores
    <3>4. EdgeFollows'
      BY <2>1, <3>1, <3>2, <3>3 DEF IInv, EdgeFollows, Fresh, Known, Ordered
    <3>5. UploadsStand'
      <4>1. CASE phase = "uploading"
        <5>1. Landed /\ Standing = current /\ Standing' = current /\ phase' = "reverted"
          BY <2>1, <3>1, <3>3, <4>1 DEF Landed, Standing
        <5>2. QED
          BY <3>3, <5>1 DEF IInv, UploadsStand
      <4>2. CASE phase = "ready"
        <5>1. Landed /\ Standing = target /\ ~Landed' /\ phase' = "reverting" /\ target \in abandoned'
          BY <2>1, <3>1, <3>2, <3>3, <4>2 DEF Landed, Standing
        <5>2. "assets" \in parts =>
                 \A key \in AssetsOf[target] \cap DOMAIN assets : assets[key].build = target
          BY <5>1 DEF IInv, UploadsStand
        <5>3. QED
          BY <3>3, <5>1, <5>2 DEF IInv, UploadsStand
      <4>3. QED
        BY <3>2, <4>1, <4>2
    <3>6. QED
      BY <1>1, <2>1, <3>1, <3>2, <3>4, <3>5, UnrecordedIs, TargetHolds
  <2>4. QED
    BY <1>2, <2>2, <2>3 DEF RollBack
<1>3. CASE ContinueRollback
  <2>1. tasks = {} /\ UNCHANGED <<tasks, left, lost, abandoned>> /\ target = current /\ Begin(current, "uploading")
        /\ target' = target
    BY <1>0, <1>3 DEF ContinueRollback, TasksAreIts, Begin
  <2>2. QED
    BY <1>1, <2>1, BackIs, TargetHolds
<1>4. ASSUME NEW b \in Builds, Deploy(b) PROVE IInv'
  <2>1. /\ tasks = {} /\ UNCHANGED <<tasks, left, lost, abandoned>> /\ Begin(b, "uploading")
        /\ phase = "idle" /\ target = current /\ b # current
    BY <1>0, <1>4 DEF Deploy, TasksAreIts
  <2>2. \A p \in rows[target] : target = meta \/ <<target, p>> \in lost
    BY <1>1, <2>1 DEF IInv, RowsRecorded, IsRecorded
  <2>3. /\ target' = b /\ phase' = "uploading"
        /\ UNCHANGED <<parts, current, routed, cached, assets, edge, tainted>>
    BY <2>1 DEF Begin, compute, stores
  <2>4. UploadsStand'
    <3>1. Landed /\ Standing = current /\ Standing' = current /\ phase' = "uploading"
      BY <2>1, <2>3 DEF Landed, Standing
    <3>2. QED
      BY <2>1, <2>3, <3>1 DEF IInv, UploadsStand
  <2>5. EdgeFollows'
    BY <2>1, <2>3 DEF IInv, EdgeFollows, Fresh, Known, Ordered
  <2>6. QED
    BY <1>1, <2>1, <2>2, <2>4, <2>5, TargetHolds
<1>5. QED
  BY <1>2, <1>3, <1>4

LEMMA UploadHolds ==
    ASSUME IInv, Upload
    PROVE  IInv'
<1>0. /\ Typed /\ PruningTypeOK /\ tasks = {}
      /\ phase \in {"uploading", "reverting"}
      /\ phase' = (IF phase = "uploading" THEN "ready" ELSE "reverted")
      /\ UNCHANGED <<parts, current, target, compute, rows, meta, edge, tasks, left, lost, stray,
                     noted, abandoned>>
  BY DEF IInv, Typed, Upload, TasksAreIts
<1>1. target \in Builds /\ cached \in [Builds \cup {NoBuild} -> SUBSET Objects]
      /\ AssetsOf[target] \subseteq AssetKeys /\ AssetsOf[target] \cap Others = {}
  <2>1. target \in Builds /\ cached \in [Builds \cup {NoBuild} -> SUBSET Objects]
    BY <1>0 DEF PruningTypeOK
  <2>2. AssetsOf[target] \in Range(AssetsOf)
    BY <2>1, PruningAssumption DEF Range
  <2>3. AssetsOf[target] \subseteq UNION Range(AssetsOf)
    BY <2>2
  <2>4. QED
    BY <2>1, <2>3, PruningAssumption DEF AssetKeys
<1>2. cached' \in [Builds \cup {NoBuild} -> SUBSET Objects]
      /\ ("cache" \in parts => "seed" \in cached'[target])
  BY <1>1 DEF Upload, UploadCache, Objects
<1>3. /\ DOMAIN assets' \subseteq AssetKeys
      /\ \A key \in DOMAIN assets' :
            assets'[key] \in [build : Builds \cup {NoBuild, "another stack"}, old : BOOLEAN]
      /\ "assets" \in parts => \A key \in AssetsOf[target] :
            key \in DOMAIN assets' /\ assets'[key].build = target
      /\ \A key \in Others : key \in DOMAIN assets' /\ assets'[key] = assets[key]
      /\ \A key \in DOMAIN assets' \ Others : assets'[key].build \in Builds
  <2>1. CASE "assets" \in parts
    <3>1. assets' = UploadAssets
      BY <2>1 DEF Upload
    <3>2. DOMAIN assets' = DOMAIN assets \cup AssetsOf[target]
      BY <3>1 DEF UploadAssets
    <3>3. ASSUME NEW key \in DOMAIN assets'
          PROVE  assets'[key] = IF key \in AssetsOf[target] THEN [build |-> target, old |-> FALSE]
                                ELSE assets[key]
      BY <3>1, <3>3 DEF UploadAssets
    <3>4. \A key \in Others : key \in DOMAIN assets
      BY DEF IInv, UploadsStand
    <3>5. \A key \in DOMAIN assets : key \notin Others => assets[key].build \in Builds
      BY DEF IInv, UploadsStand
    <3>6. ASSUME NEW key \in DOMAIN assets'
          PROVE  assets'[key] \in [build : Builds \cup {NoBuild, "another stack"}, old : BOOLEAN]
      <4>1. CASE key \in AssetsOf[target]
        <5>1. assets'[key] = [build |-> target, old |-> FALSE]
          BY <3>3, <3>6, <4>1
        <5>2. [build |-> target, old |-> FALSE]
                  \in [build : Builds \cup {NoBuild, "another stack"}, old : BOOLEAN]
          BY <1>1
        <5>3. QED
          BY <5>1, <5>2, Zenon
      <4>2. CASE key \notin AssetsOf[target]
        <5>1. assets'[key] = assets[key] /\ key \in DOMAIN assets
          BY <3>2, <3>3, <3>6, <4>2
        <5>2. QED
          BY <1>0, <5>1 DEF PruningTypeOK
      <4>3. QED
        BY <4>1, <4>2
    <3>7. ASSUME NEW key \in AssetsOf[target]
          PROVE  key \in DOMAIN assets' /\ assets'[key].build = target
      BY <3>2, <3>3
    <3>8. ASSUME NEW key \in Others PROVE key \in DOMAIN assets' /\ assets'[key] = assets[key]
      BY <1>1, <3>2, <3>3, <3>4
    <3>9. ASSUME NEW key \in DOMAIN assets' \ Others PROVE assets'[key].build \in Builds
      BY <1>1, <3>2, <3>3, <3>5
    <3>10. DOMAIN assets' \subseteq AssetKeys
      BY <1>0, <1>1, <3>2 DEF PruningTypeOK
    <3>11. QED
      BY <3>6, <3>7, <3>8, <3>9, <3>10
  <2>2. CASE "assets" \notin parts
    <3>1. assets' = assets
      BY <2>2 DEF Upload
    <3>2. QED
      BY <1>0, <2>2, <3>1 DEF PruningTypeOK, IInv, UploadsStand
  <2>3. QED
    BY <2>1, <2>2
<1>4. Typed'
  BY <1>0, <1>2, <1>3 DEF Typed, PruningTypeOK, DeploymentPhases, compute
<1>5. TasksAreIts' /\ Spared' /\ BucketListed'
  BY <1>0 DEF IInv, TasksAreIts, Spared, Spares, BucketListed
<1>6. UploadsStand'
  <2>1. Standing' = target /\ phase' # "reverting"
    BY <1>0 DEF Standing
  <2>2. QED
    BY <1>0, <1>2, <1>3, <2>1 DEF IInv, UploadsStand
<1>7. NotedStands' /\ EdgeFollows'
  <2>1. ASSUME NEW b \in Builds, NEW p \in Partitions, <<b, p>> \in tainted PROVE <<b, p>> \in tainted'
    <3>1. <<b, p>> \notin AssetsOf[target] /\ <<b, p>> # <<target, "seed">>
      BY <1>1, RowIs
    <3>2. QED
      BY <2>1, <3>1 DEF Upload
  <2>2. NotedStands'
    BY <1>0, <2>1 DEF IInv, NotedStands
  <2>3. EdgeFollows'
    BY <1>0 DEF IInv, EdgeFollows, Fresh, Known, Ordered, compute
  <2>4. QED
    BY <2>2, <2>3
<1>8. RowsRecorded' /\ Queried'
  BY <1>0 DEF IInv, RowsRecorded, IsRecorded, Queried, Queries
<1>9. QED
  BY <1>4, <1>5, <1>6, <1>7, <1>8 DEF IInv
\* An invocation begins with a task of each kind the stack has.
LEMMA InvocationHolds ==
    ASSUME IInv, phase \in {"ready", "pruning"}, phase' = "pruning", tasks' = NewTasks,
           left' \subseteq left, Ordered => routed = target,
           UNCHANGED <<parts, current, target, compute, stores, history>>
    PROVE  IInv'
<1>0. Typed /\ PruningTypeOK
      /\ UNCHANGED <<serving, routed, rows, meta, cached, assets, edge, lost, stray, noted, tainted,
                     abandoned>>
  BY DEF IInv, Typed, compute, stores, history
<1>1. /\ \A t \in NewTasks :
            /\ t.kind \in parts /\ t.kind \in Kinds /\ t \in TasksOf(t.kind)
            /\ t.cur = target /\ t.prev = NoBuild /\ t.asked = {} /\ t.found = {}
            /\ t.at = FirstRequest[t.kind]
      /\ \A t, u \in NewTasks : t.kind = u.kind => t = u
      /\ \A kind \in parts \cap Kinds : \E t \in NewTasks : t.kind = kind
  BY NewTasksAre
<1>2. ASSUME NEW t \in NewTasks
      PROVE  /\ t.kind = "table" => t.at = "read"
             /\ t.kind = "cache" => t.at = "list"
  BY <1>1, <1>2 DEF FirstRequest
<1>3. target \in Builds /\ target # NoBuild
  BY <1>0, PruningAssumption DEF PruningTypeOK
<1>4. Typed'
  BY <1>0, <1>1 DEF Typed, PruningTypeOK, DeploymentPhases
<1>5. TasksAreIts'
  BY <1>1 DEF TasksAreIts
<1>6. Spared'
  <2>1. ASSUME NEW t \in left' PROVE Spares(t)' \/ t \in NewTasks
    BY <2>1 DEF IInv, Spared, Spares
  <2>2. ASSUME NEW t \in NewTasks PROVE Spares(t)'
    BY <1>1, <1>2, <2>2 DEF Spares
  <2>3. QED
    BY <2>1, <2>2 DEF Spared
<1>7. UploadsStand' /\ NotedStands'
  <2>1. Landed /\ Standing = target /\ Standing' = target /\ phase' # "reverting"
    BY <1>0 DEF Landed, Standing
  <2>2. UploadsStand'
    BY <1>0, <2>1 DEF IInv, UploadsStand
  <2>3. QED
    BY <1>0, <2>2 DEF IInv, NotedStands
<1>8. EdgeFollows'
  <2>1. "cdn" \in parts => \E t \in tasks' : t.kind = "cdn"
    BY <1>1 DEF Kinds
  <2>2. QED
    BY <1>0, <2>1 DEF IInv, EdgeFollows, Fresh, Ordered
<1>9. RowsRecorded'
  <2>1. ASSUME "table" \in parts, NEW b \in Builds, NEW p \in rows[b], IsRecorded(b)
        PROVE  IsRecorded(b)'
    <3>1. b = meta \/ b = target
      BY <2>1 DEF IsRecorded
    <3>2. \E t \in tasks' : t.kind = "table"
      BY <1>1, <2>1 DEF Kinds
    <3>3. QED
      BY <1>0, <3>1, <3>2 DEF IsRecorded
  <2>2. QED
    BY <1>0, <2>1 DEF IInv, RowsRecorded
<1>10. Queried'
  <2>1. ASSUME NEW t \in NewTasks, t.kind = "table" PROVE Queries(t)'
    BY <1>1, <1>2, <1>3, <2>1 DEF Queries
  <2>2. ASSUME NEW t \in left', t.kind = "table" PROVE Queries(t)'
    BY <1>0, <2>2 DEF IInv, Queried, Queries
  <2>3. QED
    BY <2>1, <2>2 DEF Queried
<1>11. BucketListed'
  BY <1>0, <1>1, <1>2 DEF BucketListed, Listed, Kinds
<1>12. QED
  BY <1>4, <1>5, <1>6, <1>7, <1>8, <1>9, <1>10, <1>11 DEF IInv

\* Only where the deployment is, or who has the requests.
LEMMA PhaseHolds ==
    ASSUME IInv, Typed', TasksAreIts', EdgeFollows', NotedStands',
           UNCHANGED <<target, parts, stores, tasks, left, lost, stray, tainted, abandoned>>,
           \/ phase' = phase /\ current' = current
           \/ phase = "pruning" /\ phase' = "pruned" /\ tasks = {}
           \/ phase \in {"pruned", "reverted"} /\ phase' = "idle" /\ tasks = {}
    PROVE  IInv'
<1>0. UNCHANGED <<rows, meta, cached, assets, edge, lost, stray, tainted, abandoned, tasks, left,
                  target, parts>>
  BY DEF stores
<1>1. Spared'
  BY <1>0 DEF IInv, Spared, Spares
<1>2. UploadsStand'
  <2>1. Standing' = Standing /\ (Landed' <=> Landed) /\ (phase' = "reverting" <=> phase = "reverting")
    BY <1>0 DEF Standing, Landed
  <2>2. QED
    BY <1>0, <2>1 DEF IInv, UploadsStand
<1>3. RowsRecorded'
  BY <1>0 DEF IInv, RowsRecorded, IsRecorded
<1>4. Queried' /\ BucketListed'
  BY <1>0 DEF IInv, Queried, Queries, BucketListed, Listed
<1>5. QED
  BY <1>1, <1>2, <1>3, <1>4 DEF IInv

LEMMA DeploymentHolds ==
    ASSUME IInv, Switch \/ Invoke \/ Succeed \/ Complete \/ TimeOut
    PROVE  IInv'
<1>0. Typed /\ PruningTypeOK /\ TasksAreIts /\ EdgeFollows
  BY DEF IInv, Typed
<1>1. CASE Switch
  <2>1. /\ phase # "idle" /\ routed' = target /\ serving' = serving \cup {target}
        /\ UNCHANGED <<parts, current, target, phase, stores, edge, tasks, left, history>>
    BY <1>1 DEF Switch, stack, stores
  <2>2. Typed'
    BY <1>0, <2>1 DEF Typed, PruningTypeOK, stores, history
  <2>3. TasksAreIts' /\ EdgeFollows' /\ NotedStands'
    BY <1>0, <2>1 DEF IInv, TasksAreIts, EdgeFollows, Fresh, Known, Ordered, NotedStands, stores, history
  <2>4. QED
    BY <2>1, <2>2, <2>3, PhaseHolds DEF history
<1>2. CASE Invoke
  BY <1>2, InvocationHolds DEF Invoke, MayInvoke
<1>3. CASE TimeOut
  <2>1. Ordered => routed = target
    BY <1>0, <1>3 DEF TimeOut, EdgeFollows
  <2>2. QED
    BY <1>3, <2>1, InvocationHolds DEF TimeOut
<1>4. CASE Succeed
  <2>1. /\ phase = "pruning" /\ phase' = "pruned" /\ tasks = {}
        /\ UNCHANGED <<parts, current, target, compute, stores, tasks, left, history>>
    BY <1>4 DEF Succeed
  <2>2. Typed'
    BY <1>0, <2>1 DEF Typed, PruningTypeOK, DeploymentPhases, compute, stores, history
  <2>3. TasksAreIts' /\ EdgeFollows' /\ NotedStands'
    BY <1>0, <2>1 DEF IInv, TasksAreIts, EdgeFollows, Fresh, Ordered, NotedStands, compute, stores, history
  <2>4. QED
    BY <2>1, <2>2, <2>3, PhaseHolds DEF history
<1>5. CASE Complete
  <2>1. /\ phase \in {"pruned", "reverted"} /\ phase' = "idle" /\ tasks = {} /\ routed = target
        /\ current' = target
        /\ UNCHANGED <<parts, target, compute, stores, tasks, left, lost, stray, tainted, abandoned>>
    BY <1>0, <1>5 DEF Complete, TasksAreIts
  <2>1a. noted' \subseteq noted /\ \A b, p : <<b, p>> \in noted' => b = target
    BY <1>5 DEF Complete, NotesOf
  <2>2. Typed'
    <3>1. noted' \subseteq Builds \X Partitions
      BY <1>0, <2>1a DEF PruningTypeOK
    <3>2. QED
      BY <1>0, <2>1, <3>1 DEF Typed, PruningTypeOK, DeploymentPhases, compute, stores
  <2>3. TasksAreIts' /\ EdgeFollows' /\ NotedStands'
    <3>1. TasksAreIts'
      BY <1>0, <2>1 DEF TasksAreIts
    <3>2. EdgeFollows'
      BY <1>0, <2>1 DEF TasksAreIts, EdgeFollows, Fresh, Known, Ordered, compute, stores
    <3>3. NotedStands'
      BY <2>1, <2>1a DEF IInv, NotedStands, stores
    <3>4. QED
      BY <3>1, <3>2, <3>3
  <2>4. QED
    BY <2>1, <2>2, <2>3, PhaseHolds
<1>6. QED
  BY <1>1, <1>2, <1>3, <1>4, <1>5
--------------------------------------------------------------------------------
(* The tasks. *)

\* What a step of a task t leaves of the deployment and of the other tasks. `set` is what
\* becomes of it.
Continues(t, set) ==
    /\ t \in tasks \cup left /\ phase = "pruning" /\ Becomes(t, set)
    /\ \A u \in set : u.kind = t.kind /\ u.cur = t.cur /\ u \in TasksOf(t.kind)
    /\ \A u, v \in set : u = v
    /\ UNCHANGED <<stack, compute, noted>> /\ abandoned' \subseteq abandoned

StoresTyped ==
    /\ rows \in [Builds -> SUBSET Partitions]
    /\ cached \in [Builds \cup {NoBuild} -> SUBSET Objects]
    /\ DOMAIN assets \subseteq AssetKeys
    /\ \A key \in DOMAIN assets :
          assets[key] \in [build : Builds \cup {NoBuild, "another stack"}, old : BOOLEAN]
    /\ edge \subseteq Builds /\ meta \in Builds
    /\ lost \subseteq Builds \X Partitions /\ stray \subseteq (Builds \cup {NoBuild}) \X Objects

LEMMA AwakeIs ==
    ASSUME IInv, NEW t, Awake(t)
    PROVE  /\ t \in tasks \cup left /\ phase = "pruning" /\ t.kind \in Kinds
           /\ t \in TasksOf(t.kind) /\ Spares(t) /\ (t \in tasks => t.cur = target)
           /\ (t.kind = "table" => Queries(t)) /\ StoresTyped /\ target \in Builds
  BY DEF IInv, Typed, PruningTypeOK, StoresTyped, Spared, Queried, Awake

LEMMA TaskHolds ==
    ASSUME IInv, NEW t, NEW set, Continues(t, set), StoresTyped',
           \A u \in set : Spares(u)'
    PROVE  Typed' /\ TasksAreIts' /\ Spared'
           /\ UNCHANGED <<parts, current, target, phase, serving, routed, noted>>
<1>0. abandoned' \subseteq abandoned /\ UNCHANGED <<parts, current, target, phase, serving, routed, noted>> /\ t \in tasks \cup left
  BY DEF Continues, stack, compute
<1>1. t.kind \in Kinds
  BY <1>0 DEF IInv, Typed
<1>2. /\ TasksAreIts'
      /\ \A u \in tasks' : u.cur = target'
      /\ \A u \in tasks' \cup left' : u.kind \in Kinds /\ u \in TasksOf(u.kind)
  BY <1>0, <1>1, OwnTasksStay DEF Continues
<1>3. Typed'
  BY <1>0, <1>2 DEF IInv, Typed, PruningTypeOK, StoresTyped
<1>4. Spared'
  <2>1. ASSUME NEW u \in tasks' \cup left' PROVE Spares(u)'
    <3>1. u \in set \/ (u \in tasks \cup left /\ (u \in tasks' => u \in tasks))
      BY <1>0, BecomesIs DEF Continues
    <3>2. CASE u \in tasks \cup left /\ (u \in tasks' => u \in tasks)
      BY <1>0, <3>2 DEF IInv, Spared, Spares
    <3>3. QED
      BY <3>1, <3>2
  <2>2. QED
    BY <2>1 DEF Spared
<1>5. QED
  BY <1>0, <1>2, <1>3, <1>4

\* Of another kind than the task's there is what there was; of its own, what it becomes.
LEMMA OthersContinue ==
    ASSUME IInv, NEW t, NEW set, Continues(t, set)
    PROVE  /\ \A u \in tasks : u.kind # t.kind => u \in tasks'
           /\ \A u \in tasks' : u.kind # t.kind => u \in tasks
           /\ t \notin tasks => tasks' = tasks
           /\ t \in tasks => set \subseteq tasks'
  BY BecomesIs DEF Continues

LEMMA UploadsUntouched ==
    ASSUME IInv, phase = "pruning", UNCHANGED <<parts, target, phase, assets>>, cached' = cached,
           tainted \subseteq tainted'
    PROVE  UploadsStand'
  BY DEF IInv, UploadsStand, Landed, Standing

LEMMA EdgeUntouched ==
    ASSUME IInv, NEW t, NEW set, Continues(t, set), t.kind # "cdn", UNCHANGED <<edge, abandoned>>
    PROVE  EdgeFollows'
<1>1. UNCHANGED <<parts, target, phase, routed>> /\ phase = "pruning"
  BY DEF Continues, stack, compute
<1>2. (\E u \in tasks : u.kind = "cdn") => \E u \in tasks' : u.kind = "cdn"
  BY OthersContinue
<1>3. QED
  BY <1>1, <1>2 DEF IInv, EdgeFollows, Fresh, Ordered

LEMMA RowsUntouched ==
    ASSUME IInv, NEW t, NEW set, Continues(t, set), t.kind # "table",
           UNCHANGED <<rows, meta, lost>>, tainted \subseteq tainted'
    PROVE  RowsRecorded' /\ Queried' /\ NotedStands'
<1>1. UNCHANGED <<parts, current, target, phase, noted>> /\ t \in tasks \cup left /\ Becomes(t, set)
      /\ \A u \in set : u.kind = t.kind
  BY DEF Continues, stack
<1>2. (\E u \in tasks : u.kind = "table") => \E u \in tasks' : u.kind = "table"
  BY OthersContinue
<1>3. RowsRecorded'
  BY <1>1, <1>2 DEF IInv, RowsRecorded, IsRecorded
<1>4. Queried'
  <2>1. \A u \in tasks' \cup left' : u.kind = "table" => u \in tasks \cup left
    BY <1>1, BecomesIs
  <2>2. QED
    BY <1>1, <2>1 DEF IInv, Queried, Queries
<1>5. NotedStands'
  BY <1>1 DEF IInv, NotedStands
<1>6. QED
  BY <1>3, <1>4, <1>5

LEMMA BucketUntouched ==
    ASSUME IInv, NEW t, NEW set, Continues(t, set), t.kind # "cache",
           UNCHANGED <<cached, stray>>
    PROVE  BucketListed'
<1>1. UNCHANGED <<parts, target, phase>>
  BY DEF Continues, stack
<1>2. ASSUME NEW b, Listed(b) PROVE Listed(b)'
  <2>1. \A u \in tasks : u.kind = "cache" => u \in tasks'
    BY OthersContinue
  <2>2. QED
    BY <1>2, <2>1 DEF Listed
<1>3. QED
  BY <1>1, <1>2 DEF IInv, BucketListed

LEMMA TaintGrows ==
    ASSUME NEW t, NEW things, Taint(t, things)
    PROVE  /\ tainted \subseteq tainted'
           /\ (t \notin tasks /\ t \in left) \/ target # current => things \subseteq tainted'
  BY DEF Taint, Leftover

LEMMA InvalidateHolds ==
    ASSUME IInv, NEW t, Invalidate(t)
    PROVE  IInv'
<1>0. Awake(t) /\ t.kind = "cdn" /\ edge' = {} /\ abandoned' = {} /\ Becomes(t, {})
      /\ UNCHANGED <<stack, compute, rows, meta, cached, assets, lost, stray, noted, tainted>>
  BY DEF Invalidate, history
<1>1. t \in tasks \cup left /\ phase = "pruning" /\ StoresTyped
  BY <1>0, AwakeIs
<1>2. Continues(t, {})
  BY <1>0, <1>1 DEF Continues
<1>3. StoresTyped'
  BY <1>0, <1>1 DEF StoresTyped
<1>4. Typed' /\ TasksAreIts' /\ Spared' /\ UNCHANGED <<parts, target, phase, routed>>
  BY <1>2, <1>3, TaskHolds
<1>5. UploadsStand'
  BY <1>0, <1>1, <1>4, UploadsUntouched
<1>6. EdgeFollows'
  BY <1>0, <1>1, <1>4 DEF IInv, EdgeFollows, Fresh, Ordered
<1>7. RowsRecorded' /\ Queried' /\ NotedStands' /\ BucketListed'
  BY <1>0, <1>2, RowsUntouched, BucketUntouched
<1>8. QED
  BY <1>4, <1>5, <1>6, <1>7 DEF IInv

LEMMA RejectHolds ==
    ASSUME IInv, NEW t, Rejects(t)
    PROVE  IInv'
<1>0. Typed /\ PruningTypeOK /\ TasksAreIts /\ Awake(t) /\ phase = "pruning" /\ t \in tasks \cup left
  BY AwakeIs DEF IInv, Typed, Rejects
<1>1. CASE t \notin tasks
  <2>1. left' = left \ {t} /\ UNCHANGED <<stack, compute, stores, tasks, history>>
    BY <1>1 DEF Rejects
  <2>2. UNCHANGED <<parts, current, target, phase, serving, routed, rows, meta, cached, assets,
                    edge, tasks, lost, stray, noted, tainted, abandoned>>
    BY <2>1 DEF stack, compute, stores, history
  <2>3. Typed' /\ TasksAreIts'
    BY <1>0, <2>1, <2>2 DEF Typed, PruningTypeOK, TasksAreIts
  <2>4. Spared'
    BY <2>1, <2>2 DEF IInv, Spared, Spares
  <2>5. UploadsStand' /\ NotedStands' /\ EdgeFollows'
    BY <2>2 DEF IInv, UploadsStand, Landed, Standing, NotedStands, EdgeFollows, Fresh, Known, Ordered
  <2>6. RowsRecorded'
    BY <2>2 DEF IInv, RowsRecorded, IsRecorded
  <2>7. Queried'
    BY <2>1, <2>2 DEF IInv, Queried, Queries
  <2>8. BucketListed'
    BY <2>2 DEF IInv, BucketListed, Listed
  <2>9. QED
    BY <2>3, <2>4, <2>5, <2>6, <2>7, <2>8 DEF IInv
<1>2. CASE t \in tasks
  <2>1. Fails(t)
    BY <1>2 DEF Rejects
  <2>2. tasks' = {} /\ left' = left \cup (tasks \ {t})
        /\ UNCHANGED <<parts, current, deployed, compute, stores, stray, tainted, abandoned>>
    BY <2>1 DEF Fails, Settle, Begin
  <2>3. CASE target = current
    <3>1. phase' = "stuck" /\ UNCHANGED <<target, noted, lost>>
      BY <2>1, <2>3 DEF Fails
    <3>2. UNCHANGED <<serving, routed, rows, meta, cached, assets, edge>>
      BY <2>2 DEF compute, stores
    <3>3. Typed' /\ TasksAreIts'
      BY <1>0, <2>2, <2>3, <3>1, <3>2 DEF Typed, PruningTypeOK, TasksAreIts, DeploymentPhases
    <3>4. Spared'
      BY <2>2, <3>1 DEF IInv, Spared, Spares
    <3>5. UploadsStand' /\ NotedStands' /\ EdgeFollows' /\ BucketListed'
      BY <1>0, <2>2, <3>1, <3>2
         DEF IInv, UploadsStand, Landed, NotedStands, EdgeFollows, Fresh, BucketListed
    <3>6. RowsRecorded'
      BY <2>2, <3>1, <3>2 DEF IInv, RowsRecorded, IsRecorded
    <3>7. Queried'
      BY <2>2, <3>1, <3>2 DEF IInv, Queried, Queries
    <3>8. QED
      BY <3>3, <3>4, <3>5, <3>6, <3>7 DEF IInv
  <2>4. CASE target # current
    <3>1. Begin(current, "uploading") /\ lost' = lost \cup Unrecorded
      BY <2>1, <2>4 DEF Fails
    <3>2. current \in Builds /\ lost \subseteq Builds \X Partitions /\ abandoned \subseteq Builds
      BY <1>0 DEF PruningTypeOK
    <3>3. QED
      BY <2>2, <3>1, <3>2, UnrecordedIs, BackIs, TargetHolds
  <2>5. QED
    BY <2>3, <2>4
<1>3. QED
  BY <1>1, <1>2

LEMMA QueriedStays ==
    ASSUME IInv, NEW t, NEW set, Continues(t, set), t.kind = "table",
           \A b \in Builds : rows'[b] \subseteq rows[b], lost \subseteq lost',
           \A u \in set : Queries(u)'
    PROVE  Queried'
<1>1. \A u \in tasks' \cup left' : u \in tasks \cup left \/ u \in set
  BY BecomesIs DEF Continues
<1>2. ASSUME NEW u \in tasks \cup left, u.kind = "table" PROVE Queries(u)'
  <2>1. Queries(u) /\ Spares(u) /\ u.prev \in Builds \cup {NoBuild}
    BY <1>2 DEF IInv, Typed, Queried, Spared, TasksOf
  <2>2. u.at \in {"query", "delete"} => u.prev \in Builds
    BY <1>2, <2>1 DEF Spares
  <2>3. QED
    BY <2>1, <2>2 DEF Queries
<1>3. QED
  BY <1>1, <1>2 DEF Queried

\* A step of the table's task, which touches neither files nor CloudFront.
LEMMA TableHolds ==
    ASSUME IInv, NEW t, NEW set, Continues(t, set), t.kind = "table", StoresTyped',
           \A u \in set : Spares(u)' /\ Queries(u)',
           UNCHANGED <<cached, assets, edge, stray, abandoned>>, tainted \subseteq tainted',
           \A b \in Builds : rows'[b] \subseteq rows[b], lost \subseteq lost',
           \A b \in {current, target} : \A p \in rows[b] : p \in rows'[b] \/ <<b, p>> \in tainted',
           \A b \in Builds : \A p \in rows'[b] :
              IsRecorded(b) => IsRecorded(b)' \/ <<b, p>> \in lost'
    PROVE  IInv'
<1>1. Typed' /\ TasksAreIts' /\ Spared' /\ UNCHANGED <<parts, current, target, phase, noted>>
      /\ phase = "pruning"
  BY TaskHolds DEF Continues
<1>2. UploadsStand' /\ EdgeFollows' /\ BucketListed'
  BY <1>1, UploadsUntouched, EdgeUntouched, BucketUntouched
<1>3. Queried'
  BY QueriedStays
<1>4. NotedStands'
  BY <1>1 DEF IInv, NotedStands
<1>5. RowsRecorded'
  BY <1>1 DEF IInv, RowsRecorded
<1>6. QED
  BY <1>1, <1>2, <1>3, <1>4, <1>5 DEF IInv
LEMMA ReadHolds ==
    ASSUME IInv, NEW t, ReadMetadata(t)
    PROVE  IInv'
<1>0. Awake(t) /\ t.kind = "table" /\ t.at = "read"
      /\ UNCHANGED <<stack, compute, rows, meta, cached, assets, edge, stray, noted, tainted, abandoned>>
  BY DEF ReadMetadata, stores
<1>1. /\ t \in tasks \cup left /\ phase = "pruning" /\ t \in TasksOf("table") /\ Spares(t)
      /\ (t \in tasks => t.cur = target) /\ Queries(t) /\ StoresTyped
  BY <1>0, AwakeIs
<1>2. t.cur \in Builds /\ t.asked = {} /\ t.found \subseteq Partitions /\ NoBuild \notin Builds
  BY <1>0, <1>1, PruningAssumption DEF TasksOf, Finds, Queries
<1>3. UNCHANGED <<parts, current, target, phase>>
  BY <1>0 DEF stack
<1>4. PICK prev \in {meta, NoBuild} :
        /\ Becomes(t, IF prev = t.cur THEN {}
                      ELSE {[t EXCEPT !.prev = prev, !.at = IF prev = NoBuild THEN "record" ELSE "query"]})
        /\ lost' = IF prev # meta /\ meta # t.cur THEN lost \cup ({meta} \X rows[meta]) ELSE lost
  BY DEF ReadMetadata
<1> DEFINE at  == IF prev = NoBuild THEN "record" ELSE "query"
           new == [t EXCEPT !.prev = prev, !.at = at]
<1>5. meta \in Builds /\ rows \in [Builds -> SUBSET Partitions] /\ lost \subseteq Builds \X Partitions
  BY <1>1 DEF StoresTyped
<1>6. lost \subseteq lost' /\ lost' \subseteq Builds \X Partitions
  BY <1>4, <1>5
<1>7. StoresTyped'
  BY <1>0, <1>1, <1>6 DEF StoresTyped
<1>8. at \in {"record", "query"} /\ prev \in Builds \cup {NoBuild}
      /\ (prev = NoBuild => at = "record") /\ (prev # NoBuild => at = "query" /\ prev \in Builds)
  BY <1>5
<1> HIDE DEF at
<1>9. /\ new \in TasksOf("table") /\ new.kind = "table" /\ new.cur = t.cur /\ new.at = at
      /\ new.prev = prev /\ new.asked = {} /\ new.found = t.found
  BY <1>1, <1>2, <1>8 DEF TasksOf, Finds
<1>10. Becomes(t, IF prev = t.cur THEN {} ELSE {new})
  BY <1>4 DEF at
<1> HIDE DEF new
<1>11. CASE prev = t.cur
  <2>1. Continues(t, {})
    BY <1>0, <1>1, <1>10, <1>11 DEF Continues
  <2>2. meta = t.cur
    BY <1>2, <1>11
  <2>3. ASSUME NEW b \in Builds, IsRecorded(b) PROVE IsRecorded(b)'
    <3>1. t \notin tasks => tasks' = tasks
      BY <2>1, OthersContinue
    <3>2. QED
      BY <1>0, <1>1, <1>3, <2>2, <2>3, <3>1 DEF IsRecorded
  <2>4. QED
    BY <1>0, <1>6, <1>7, <2>1, <2>3, TableHolds
<1>12. CASE prev # t.cur
  <2>1. Continues(t, {new})
    BY <1>0, <1>1, <1>9, <1>10, <1>12 DEF Continues
  <2>2. Spares(new)'
    BY <1>8, <1>9, <1>12 DEF Spares
  <2>3. Queries(new)'
    BY <1>8, <1>9, <1>12 DEF Queries
  <2>4. ASSUME NEW b \in Builds, IsRecorded(b) PROVE IsRecorded(b)'
    <3>1. (t \notin tasks => tasks' = tasks) /\ (t \in tasks => new \in tasks')
      BY <2>1, OthersContinue
    <3>2. QED
      BY <1>0, <1>1, <1>3, <1>9, <2>4, <3>1 DEF IsRecorded
  <2>5. QED
    BY <1>0, <1>6, <1>7, <2>1, <2>2, <2>3, <2>4, TableHolds
<1>13. QED
  BY <1>11, <1>12

LEMMA QueryHolds ==
    ASSUME IInv, NEW t, Query(t)
    PROVE  IInv'
<1> DEFINE p   == IF t.asked = {} THEN "rows" ELSE "log"
           at  == IF p = "log" THEN "delete" ELSE "query"
           is  == [t EXCEPT !.asked = @ \cup {p}, !.found = @ \cup (rows[t.prev] \cap {p}), !.at = at]
<1>0. Awake(t) /\ t.kind = "table" /\ t.at = "query" /\ Becomes(t, {is})
      /\ UNCHANGED <<stack, compute, rows, meta, cached, assets, edge, lost, stray, noted, tainted,
                     abandoned>>
  BY DEF Query, stores, history
<1>1. /\ t \in tasks \cup left /\ phase = "pruning" /\ t \in TasksOf("table") /\ Spares(t)
      /\ (t \in tasks => t.cur = target) /\ Queries(t) /\ StoresTyped
  BY <1>0, AwakeIs
<1>2. t.cur \in Builds /\ t.asked \subseteq Partitions /\ t.found \subseteq Partitions
      /\ "log" \notin t.asked /\ t.prev \in Builds \ {t.cur}
  BY <1>0, <1>1 DEF TasksOf, Finds, Queries, Spares
<1>3. UNCHANGED <<parts, current, target, phase>>
  BY <1>0 DEF stack
<1>4. rows[t.prev] \subseteq Partitions
  BY <1>1, <1>2 DEF StoresTyped
<1>5. p \in Partitions /\ (at = "query" => p = "rows") /\ at \in {"query", "delete"}
      /\ (at = "delete" => t.asked \cup {p} = Partitions)
  BY <1>2 DEF Partitions
<1> HIDE DEF p, at
<1>5a. /\ is \in TasksOf("table") /\ is.kind = "table" /\ is.cur = t.cur /\ is.at = at
       /\ is.prev = t.prev /\ is.asked = t.asked \cup {p}
       /\ is.found = t.found \cup (rows[t.prev] \cap {p})
  BY <1>1, <1>2, <1>4, <1>5 DEF TasksOf, Finds
<1> HIDE DEF is
<1>6. PICK new :
        /\ Becomes(t, {new})
        /\ new \in TasksOf("table") /\ new.kind = "table" /\ new.cur = t.cur /\ new.at = at
        /\ new.prev = t.prev /\ new.asked = t.asked \cup {p}
        /\ new.found = t.found \cup (rows[t.prev] \cap {p})
  BY <1>0, <1>5a
<1>7. StoresTyped'
  BY <1>0, <1>1 DEF StoresTyped
<1>8. Continues(t, {new})
  BY <1>0, <1>1, <1>6 DEF Continues
<1>9. Spares(new)'
  BY <1>2, <1>5, <1>6 DEF Spares
<1>10. Queries(new)'
  <2>1. \A q \in new.asked \cap rows[t.prev] : q \in new.found \/ <<t.prev, q>> \in lost
    BY <1>0, <1>1, <1>6 DEF Queries
  <2>2. QED
    BY <1>0, <1>2, <1>5, <1>6, <2>1 DEF Queries
<1>11. ASSUME NEW b \in Builds, IsRecorded(b) PROVE IsRecorded(b)'
  <2>1. (t \notin tasks => tasks' = tasks) /\ (t \in tasks => new \in tasks')
    BY <1>8, OthersContinue
  <2>2. QED
    BY <1>0, <1>1, <1>3, <1>6, <1>11, <2>1 DEF IsRecorded
<1>12. QED
  BY <1>0, <1>7, <1>8, <1>9, <1>10, <1>11, TableHolds

LEMMA DeleteRowsHolds ==
    ASSUME IInv, NEW t, DeleteRows(t)
    PROVE  IInv'
<1> DEFINE new == [t EXCEPT !.at = "record"]
<1>0. Awake(t) /\ t.kind = "table" /\ t.at = "delete" /\ Becomes(t, {new})
      /\ UNCHANGED <<stack, compute, meta, cached, assets, edge, stray, noted, abandoned>>
  BY DEF DeleteRows
<1>1. /\ t \in tasks \cup left /\ phase = "pruning" /\ t \in TasksOf("table") /\ Spares(t)
      /\ (t \in tasks => t.cur = target) /\ Queries(t) /\ StoresTyped
  BY <1>0, AwakeIs
<1>2. t.cur \in Builds /\ t.found \subseteq Partitions /\ t.prev \in Builds \ {t.cur}
      /\ t.asked = Partitions
  BY <1>0, <1>1 DEF TasksOf, Finds, Queries, Spares
<1>3. UNCHANGED <<parts, current, target, phase>>
  BY <1>0 DEF stack
<1>4. PICK gone \in SUBSET t.found :
        /\ rows' = [rows EXCEPT ![t.prev] = @ \ gone]
        /\ lost' = lost \cup ({t.prev} \X (t.found \ gone))
        /\ Taint(t, {t.prev} \X gone)
  BY DEF DeleteRows
<1>5. /\ new \in TasksOf("table") /\ new.kind = "table" /\ new.cur = t.cur /\ new.at = "record"
      /\ new.prev = t.prev /\ new.asked = Partitions /\ new.found = t.found
  BY <1>1, <1>2 DEF TasksOf, Finds
<1> HIDE DEF new
<1>6. rows \in [Builds -> SUBSET Partitions] /\ lost \subseteq Builds \X Partitions
  BY <1>1 DEF StoresTyped
<1>7. /\ rows' \in [Builds -> SUBSET Partitions] /\ lost' \subseteq Builds \X Partitions
      /\ lost \subseteq lost' /\ rows'[t.prev] = rows[t.prev] \ gone
      /\ \A b \in Builds : rows'[b] \subseteq rows[b] /\ (b # t.prev => rows'[b] = rows[b])
  BY <1>2, <1>4, <1>6
<1>8. StoresTyped'
  BY <1>0, <1>1, <1>7 DEF StoresTyped
<1>9. Continues(t, {new})
  BY <1>0, <1>1, <1>5 DEF Continues
<1>10. Spares(new)'
  BY <1>5 DEF Spares
<1>11. Queries(new)'
  <2>1. ASSUME NEW q \in rows'[t.prev] PROVE <<t.prev, q>> \in lost'
    <3>1. q \in rows[t.prev] /\ q \notin gone /\ q \in Partitions
      BY <1>2, <1>6, <1>7
    <3>2. q \in t.found \/ <<t.prev, q>> \in lost
      BY <1>0, <1>1, <1>2, <3>1 DEF Queries
    <3>3. QED
      BY <1>4, <3>1, <3>2
  <2>2. QED
    BY <1>2, <1>5, <2>1 DEF Queries
<1>12. tainted \subseteq tainted'
       /\ (t \notin tasks \/ target # current => {t.prev} \X gone \subseteq tainted')
  BY <1>1, <1>4, TaintGrows
<1>13. ASSUME NEW b \in {current, target}, NEW q \in rows[b]
       PROVE  q \in rows'[b] \/ <<b, q>> \in tainted'
  <2>1. CASE t.prev = b
    <3>1. t \notin tasks \/ target # current
      BY <1>1, <1>2, <2>1
    <3>2. {t.prev} \X gone \subseteq tainted'
      BY <1>12, <3>1
    <3>3. QED
      BY <1>7, <1>13, <2>1, <3>2
  <2>2. CASE t.prev # b
    <3>1. b \in Builds
      BY DEF IInv, Typed, PruningTypeOK
    <3>2. QED
      BY <1>7, <1>13, <2>2, <3>1
  <2>3. QED
    BY <2>1, <2>2
<1>14. ASSUME NEW b \in Builds, IsRecorded(b) PROVE IsRecorded(b)'
  <2>1. (t \notin tasks => tasks' = tasks) /\ (t \in tasks => new \in tasks')
    BY <1>9, OthersContinue
  <2>2. QED
    BY <1>0, <1>1, <1>3, <1>5, <1>14, <2>1 DEF IsRecorded
<1>15. QED
  BY <1>0, <1>7, <1>8, <1>9, <1>10, <1>11, <1>12, <1>13, <1>14, TableHolds

LEMMA UpdateHolds ==
    ASSUME IInv, NEW t, UpdateMetadata(t)
    PROVE  IInv'
<1>0. Awake(t) /\ t.kind = "table" /\ t.at = "record" /\ Becomes(t, {}) /\ meta' = t.cur
      /\ lost' = (IF meta \notin {t.cur, t.prev, NoBuild} THEN lost \cup ({meta} \X rows[meta]) ELSE lost)
      /\ UNCHANGED <<stack, compute, rows, cached, assets, edge, stray, noted, tainted, abandoned>>
  BY DEF UpdateMetadata
<1>1. /\ t \in tasks \cup left /\ phase = "pruning" /\ t \in TasksOf("table") /\ Spares(t)
      /\ (t \in tasks => t.cur = target) /\ Queries(t) /\ StoresTyped
  BY <1>0, AwakeIs
<1>2. t.cur \in Builds /\ NoBuild \notin Builds
  BY <1>1, PruningAssumption DEF TasksOf
<1>3. UNCHANGED <<parts, current, target, phase>>
  BY <1>0 DEF stack
<1>4. meta \in Builds /\ rows \in [Builds -> SUBSET Partitions] /\ lost \subseteq Builds \X Partitions
  BY <1>1 DEF StoresTyped
<1>5. lost \subseteq lost' /\ lost' \subseteq Builds \X Partitions
  BY <1>0, <1>4
<1>6. StoresTyped'
  BY <1>0, <1>1, <1>2, <1>5 DEF StoresTyped
<1>7. Continues(t, {})
  BY <1>0, <1>1 DEF Continues
<1>8. ASSUME NEW b \in Builds, NEW q \in rows[b], IsRecorded(b)
      PROVE  IsRecorded(b)' \/ <<b, q>> \in lost'
  <2>1. CASE b = meta
    <3>1. CASE meta = t.cur
      BY <1>0, <2>1, <3>1 DEF IsRecorded
    <3>2. CASE meta = t.prev
      BY <1>0, <1>1, <1>2, <1>4, <1>5, <2>1, <3>2 DEF Queries
    <3>3. CASE meta \notin {t.cur, t.prev}
      BY <1>0, <1>2, <1>4, <2>1, <3>3
    <3>4. QED
      BY <3>1, <3>2, <3>3
  <2>2. CASE b # meta
    <3>1. b = target /\ \E u \in tasks : u.kind = "table"
      BY <1>1, <1>8, <2>2 DEF IsRecorded
    <3>2. t \notin tasks => tasks' = tasks
      BY <1>7, OthersContinue
    <3>3. QED
      BY <1>0, <1>1, <1>3, <3>1, <3>2 DEF IsRecorded
  <2>3. QED
    BY <2>1, <2>2
<1>9. QED
  BY <1>0, <1>5, <1>6, <1>7, <1>8, TableHolds
\* A step of the bucket's task, which touches neither the table nor the assets.
LEMMA BucketHolds ==
    ASSUME IInv, NEW t, NEW set, Continues(t, set), t.kind = "cache", StoresTyped',
           \A u \in set : Spares(u)', UNCHANGED <<rows, meta, assets, edge, lost, abandoned>>,
           tainted \subseteq tainted', BucketListed',
           "seed" \in cached[target] =>
              "seed" \in cached'[target] \/ <<target, "seed">> \in tainted'
    PROVE  IInv'
<1>1. Typed' /\ TasksAreIts' /\ Spared' /\ UNCHANGED <<parts, target, phase>> /\ phase = "pruning"
  BY TaskHolds DEF Continues
<1>2. EdgeFollows' /\ RowsRecorded' /\ Queried' /\ NotedStands'
  BY EdgeUntouched, RowsUntouched
<1>3. UploadsStand'
  BY <1>1 DEF IInv, UploadsStand, Landed, Standing
<1>4. QED
  BY <1>1, <1>2, <1>3 DEF IInv

LEMMA ListCacheHolds ==
    ASSUME IInv, NEW t, ListCache(t)
    PROVE  IInv'
<1> DEFINE is == [t EXCEPT !.at = "delete", !.found = OldPrefixes(t)]
<1>0. Awake(t) /\ t.kind = "cache" /\ t.at = "list" /\ Becomes(t, {is})
      /\ UNCHANGED <<stack, compute, rows, meta, assets, edge, lost, noted, tainted, abandoned>>
  BY DEF ListCache
<1>1. /\ t \in tasks \cup left /\ phase = "pruning" /\ t \in TasksOf("cache") /\ Spares(t)
      /\ (t \in tasks => t.cur = target) /\ StoresTyped /\ target \in Builds
  BY <1>0, AwakeIs
<1>2. PICK loose \in SUBSET cached[NoBuild] :
        /\ cached' = [cached EXCEPT ![NoBuild] = loose]
        /\ stray' = IF Leftover(t) THEN stray ELSE {NoBuild} \X loose
  BY DEF ListCache
<1>3. cached \in [Builds \cup {NoBuild} -> SUBSET Objects]
      /\ stray \subseteq (Builds \cup {NoBuild}) \X Objects /\ NoBuild \notin Builds
  BY <1>1, PruningAssumption DEF StoresTyped
<1>4. loose \subseteq Objects
  BY <1>3
<1>5. /\ cached' \in [Builds \cup {NoBuild} -> SUBSET Objects]
      /\ cached'[NoBuild] = loose /\ \A b \in Builds : cached'[b] = cached[b]
      /\ stray' \subseteq (Builds \cup {NoBuild}) \X Objects
  BY <1>2, <1>3, <1>4
<1>6. StoresTyped'
  BY <1>0, <1>1, <1>5 DEF StoresTyped
<1>7. OldPrefixes(t) \subseteq Builds /\ t.cur \notin OldPrefixes(t)
      /\ \A b \in Builds \ {t.cur} : b \in OldPrefixes(t) \/ cached[b] = {}
  BY DEF OldPrefixes
<1>8. /\ is \in TasksOf("cache") /\ is.kind = "cache" /\ is.cur = t.cur /\ is.at = "delete"
      /\ is.found = OldPrefixes(t)
  BY <1>1, <1>7 DEF TasksOf, Finds
<1> HIDE DEF is
<1>9. PICK new :
        /\ Becomes(t, {new})
        /\ new \in TasksOf("cache") /\ new.kind = "cache" /\ new.cur = t.cur /\ new.at = "delete"
        /\ new.found = OldPrefixes(t)
  BY <1>0, <1>8
<1>10. Continues(t, {new}) /\ UNCHANGED target
  BY <1>0, <1>1, <1>9 DEF Continues, stack
<1>11. Spares(new)'
  BY <1>7, <1>9 DEF Spares
<1>12. BucketListed'
  <2>1. SUFFICES ASSUME "cache" \in parts, NEW b \in (Builds \cup {NoBuild}) \ {target}
                 PROVE  Listed(b)'
    BY <1>0, <1>10 DEF BucketListed, stack
  <2>2. CASE t \in tasks
    <3>1. new \in tasks' /\ t.cur = target /\ stray' = {NoBuild} \X loose
      BY <1>1, <1>2, <1>10, <2>2, OthersContinue DEF Leftover
    <3>2. CASE b = NoBuild
      BY <1>5, <3>1, <3>2 DEF Listed
    <3>3. CASE b \in OldPrefixes(t)
      BY <1>9, <3>1, <3>3 DEF Listed
    <3>4. CASE b \in Builds /\ cached[b] = {}
      BY <1>5, <3>4 DEF Listed
    <3>5. QED
      BY <1>7, <2>1, <3>1, <3>2, <3>3, <3>4
  <2>3. CASE t \notin tasks
    <3>1. tasks' = tasks /\ stray' = stray
      BY <1>1, <1>2, <1>10, <2>3, OthersContinue DEF Leftover
    <3>2. cached'[b] \subseteq cached[b]
      BY <1>5, <2>1
    <3>3. Listed(b)
      BY <1>1, <2>1 DEF IInv, BucketListed
    <3>4. QED
      BY <3>1, <3>2, <3>3 DEF Listed
  <2>4. QED
    BY <2>2, <2>3
<1>13. QED
  BY <1>0, <1>1, <1>5, <1>6, <1>10, <1>11, <1>12, BucketHolds

LEMMA DeletePrefixHolds ==
    ASSUME IInv, NEW t, DeletePrefix(t)
    PROVE  IInv'
<1>0. Awake(t) /\ t.kind = "cache" /\ t.at = "delete"
      /\ UNCHANGED <<stack, compute, rows, meta, assets, edge, lost, noted, abandoned>>
  BY DEF DeletePrefix
<1>1. /\ t \in tasks \cup left /\ phase = "pruning" /\ t \in TasksOf("cache") /\ Spares(t)
      /\ (t \in tasks => t.cur = target) /\ StoresTyped /\ target \in Builds
  BY <1>0, AwakeIs
<1>2. PICK b \in t.found : \E kept \in {{}, cached[b]} :
        /\ cached' = [cached EXCEPT ![b] = kept]
        /\ stray' = stray \cup ({b} \X kept)
        /\ Taint(t, {b} \X (cached[b] \ kept))
        /\ Becomes(t, {[t EXCEPT !.found = @ \ {b}]})
  BY DEF DeletePrefix
<1>2a. PICK kept \in {{}, cached[b]} :
        /\ cached' = [cached EXCEPT ![b] = kept]
        /\ stray' = stray \cup ({b} \X kept)
        /\ Taint(t, {b} \X (cached[b] \ kept))
        /\ Becomes(t, {[t EXCEPT !.found = @ \ {b}]})
  BY <1>2
<1> DEFINE new == [t EXCEPT !.found = @ \ {b}]
<1>3. b \in Builds /\ b # t.cur /\ t.cur \notin t.found /\ t.found \subseteq Builds
  BY <1>0, <1>1 DEF TasksOf, Finds, Spares
<1>4. cached \in [Builds \cup {NoBuild} -> SUBSET Objects]
      /\ stray \subseteq (Builds \cup {NoBuild}) \X Objects
  BY <1>1 DEF StoresTyped
<1>5. kept \subseteq cached[b] /\ kept \subseteq Objects
  BY <1>3, <1>4
<1>6. /\ cached' \in [Builds \cup {NoBuild} -> SUBSET Objects] /\ cached'[b] = kept
      /\ \A d \in Builds \cup {NoBuild} : cached'[d] \subseteq cached[d] /\ (d # b => cached'[d] = cached[d])
      /\ stray' \subseteq (Builds \cup {NoBuild}) \X Objects
  BY <1>2a, <1>3, <1>4, <1>5
<1>7. StoresTyped'
  BY <1>0, <1>1, <1>6 DEF StoresTyped
<1>8. /\ new \in TasksOf("cache") /\ new.kind = "cache" /\ new.cur = t.cur /\ new.at = "delete"
      /\ new.found = t.found \ {b}
  BY <1>0, <1>1, <1>3 DEF TasksOf, Finds
<1>9. Becomes(t, {new})
  BY <1>2a
<1> HIDE DEF new
<1>10. Continues(t, {new}) /\ UNCHANGED target
  BY <1>0, <1>1, <1>8, <1>9 DEF Continues, stack
<1>11. Spares(new)'
  BY <1>3, <1>8 DEF Spares
<1>12. tainted \subseteq tainted' /\ (t \notin tasks => {b} \X (cached[b] \ kept) \subseteq tainted')
  BY <1>1, <1>2a, TaintGrows
<1>13. "seed" \in cached[target] => "seed" \in cached'[target] \/ <<target, "seed">> \in tainted'
  BY <1>1, <1>3, <1>6, <1>12
<1>14. BucketListed'
  <2>1. SUFFICES ASSUME "cache" \in parts, NEW d \in (Builds \cup {NoBuild}) \ {target}
                 PROVE  Listed(d)'
    BY <1>0, <1>10 DEF BucketListed, stack
  <2>2. Listed(d)
    BY <1>1, <2>1 DEF IInv, BucketListed
  <2>3. CASE \A o \in cached[d] : <<d, o>> \in stray
    BY <1>2a, <1>6, <2>1, <2>3 DEF Listed
  <2>4. ASSUME NEW u \in tasks, u.kind = "cache", u.at = "list" \/ d \in u.found PROVE Listed(d)'
    <3>1. CASE t \notin tasks
      BY <1>10, <2>4, <3>1, OthersContinue DEF Listed
    <3>2. CASE t \in tasks
      <4>1. u = t /\ new \in tasks'
        BY <1>0, <1>10, <2>4, <3>2, OthersContinue DEF IInv, TasksAreIts
      <4>2. d \in t.found
        BY <1>0, <2>4, <4>1
      <4>3. CASE d = b
        BY <1>2a, <1>6, <4>3 DEF Listed
      <4>4. CASE d # b
        BY <1>8, <4>1, <4>2, <4>4 DEF Listed
      <4>5. QED
        BY <4>3, <4>4
    <3>3. QED
      BY <3>1, <3>2
  <2>5. QED
    BY <2>2, <2>3, <2>4 DEF Listed
<1>15. QED
  BY <1>0, <1>7, <1>10, <1>11, <1>12, <1>13, <1>14, BucketHolds

LEMMA EndCacheHolds ==
    ASSUME IInv, NEW t, EndCache(t)
    PROVE  IInv'
<1>0. Awake(t) /\ t.kind = "cache" /\ t.at = "delete" /\ Becomes(t, {})
      /\ stray' = stray \cup UNION {{b} \X cached[b] : b \in t.found}
      /\ UNCHANGED <<stack, compute, rows, meta, cached, assets, edge, lost, noted, tainted, abandoned>>
  BY DEF EndCache, stores
<1>1. /\ t \in tasks \cup left /\ phase = "pruning" /\ t \in TasksOf("cache") /\ StoresTyped
  BY <1>0, AwakeIs
<1>2. t.found \subseteq Builds /\ cached \in [Builds \cup {NoBuild} -> SUBSET Objects]
      /\ stray \subseteq (Builds \cup {NoBuild}) \X Objects
  BY <1>1 DEF TasksOf, Finds, StoresTyped
<1>3. stray' \subseteq (Builds \cup {NoBuild}) \X Objects
      /\ stray \subseteq stray' /\ \A b \in t.found : \A o \in cached[b] : <<b, o>> \in stray'
  <2>1. ASSUME NEW b \in t.found PROVE cached[b] \subseteq Objects
    BY <1>2
  <2>2. QED
    BY <1>0, <1>2, <2>1
<1>4. StoresTyped'
  BY <1>0, <1>1, <1>3 DEF StoresTyped
<1>5. Continues(t, {}) /\ UNCHANGED target
  BY <1>0, <1>1 DEF Continues, stack
<1>6. BucketListed'
  <2>1. SUFFICES ASSUME "cache" \in parts, NEW d \in (Builds \cup {NoBuild}) \ {target}
                 PROVE  Listed(d)'
    BY <1>0, <1>5 DEF BucketListed, stack
  <2>2. Listed(d)
    BY <1>1, <2>1 DEF IInv, BucketListed
  <2>3. CASE \A o \in cached[d] : <<d, o>> \in stray
    BY <1>0, <1>3, <2>3 DEF Listed
  <2>4. ASSUME NEW u \in tasks, u.kind = "cache", u.at = "list" \/ d \in u.found PROVE Listed(d)'
    <3>1. CASE t \notin tasks
      BY <1>5, <2>4, <3>1, OthersContinue DEF Listed
    <3>2. CASE t \in tasks
      <4>1. u = t
        BY <1>0, <2>4, <3>2 DEF IInv, TasksAreIts
      <4>2. QED
        BY <1>0, <1>3, <2>4, <4>1 DEF Listed
    <3>3. QED
      BY <3>1, <3>2
  <2>5. QED
    BY <2>2, <2>3, <2>4 DEF Listed
<1>7. QED
  BY <1>0, <1>4, <1>5, <1>6, BucketHolds
LEMMA ListAssetsHolds ==
    ASSUME IInv, NEW t, ListAssets(t)
    PROVE  IInv'
<1>0. Awake(t) /\ t.kind = "assets"
      /\ UNCHANGED <<stack, compute, rows, meta, cached, assets, edge, lost, stray, noted, tainted,
                     abandoned>>
  BY DEF ListAssets, stores, history
<1>1. /\ t \in tasks \cup left /\ phase = "pruning" /\ t \in TasksOf("assets")
      /\ (t \in tasks => t.cur = target) /\ StoresTyped
  BY <1>0, AwakeIs
<1>2. PICK checked \in SUBSET {key \in DOMAIN assets : Prunable(key, t.cur)} :
        Becomes(t, {[t EXCEPT !.at = "delete", !.found = checked]})
  BY DEF ListAssets
<1> DEFINE new == [t EXCEPT !.at = "delete", !.found = checked]
<1>3. checked \subseteq DOMAIN assets /\ DOMAIN assets \subseteq AssetKeys
  BY <1>1 DEF StoresTyped
<1>4. /\ new \in TasksOf("assets") /\ new.kind = "assets" /\ new.cur = t.cur /\ new.at = "delete"
      /\ new.found = checked
  BY <1>1, <1>3 DEF TasksOf, Finds
<1>5. Becomes(t, {new})
  BY <1>2
<1> HIDE DEF new
<1>6. Continues(t, {new}) /\ UNCHANGED target
  BY <1>0, <1>1, <1>4, <1>5 DEF Continues, stack
<1>7. StoresTyped'
  BY <1>0, <1>1 DEF StoresTyped
<1>8. Spares(new)'
  <2>1. checked \cap Others = {}
    BY DEF IInv, UploadsStand, Prunable
  <2>2. CASE t \in tasks
    <3>1. t.cur = target /\ "assets" \in parts
      BY <1>0, <1>1, <2>2 DEF IInv, TasksAreIts
    <3>2. checked \cap AssetsOf[target] = {}
      BY <1>1, <3>1 DEF IInv, UploadsStand, Landed, Standing, Prunable
    <3>3. QED
      BY <1>4, <1>6, <2>1, <3>2 DEF Spares
  <2>3. CASE t \notin tasks
    <3>1. tasks' = tasks
      BY <1>6, <2>3, OthersContinue
    <3>2. new \in tasks => Spares(new)
      BY DEF IInv, Spared
    <3>3. QED
      BY <1>4, <1>6, <2>1, <3>1, <3>2 DEF Spares
  <2>4. QED
    BY <2>2, <2>3
<1>9. Typed' /\ TasksAreIts' /\ Spared' /\ UNCHANGED <<parts, target, phase>>
  BY <1>6, <1>7, <1>8, TaskHolds
<1>10. UploadsStand' /\ EdgeFollows' /\ RowsRecorded' /\ Queried' /\ NotedStands' /\ BucketListed'
  BY <1>0, <1>1, <1>6, <1>9, UploadsUntouched, EdgeUntouched, RowsUntouched, BucketUntouched
<1>11. QED
  BY <1>9, <1>10 DEF IInv

LEMMA DeleteAssetsHolds ==
    ASSUME IInv, NEW t, DeleteAssets(t)
    PROVE  IInv'
<1>0. Awake(t) /\ t.kind = "assets" /\ Becomes(t, {})
      /\ UNCHANGED <<stack, compute, rows, meta, cached, edge, lost, stray, noted, abandoned>>
  BY DEF DeleteAssets
<1>1. /\ t \in tasks \cup left /\ phase = "pruning" /\ t \in TasksOf("assets") /\ Spares(t)
      /\ (t \in tasks => t.cur = target) /\ StoresTyped
  BY <1>0, AwakeIs
<1>2. PICK gone \in SUBSET t.found :
        assets' = [key \in DOMAIN assets \ gone |-> assets[key]] /\ Taint(t, gone)
  BY DEF DeleteAssets
<1>3. Continues(t, {}) /\ UNCHANGED target
  BY <1>0, <1>1 DEF Continues, stack
<1>4. DOMAIN assets' = DOMAIN assets \ gone
      /\ \A key \in DOMAIN assets \ gone : assets'[key] = assets[key]
  BY <1>2
<1>5. StoresTyped'
  BY <1>0, <1>1, <1>4 DEF StoresTyped
<1>6. Typed' /\ TasksAreIts' /\ Spared' /\ UNCHANGED <<parts, target, phase>>
  BY <1>3, <1>5, TaskHolds
<1>7. tainted \subseteq tainted' /\ (t \notin tasks => gone \subseteq tainted')
  BY <1>1, <1>2, TaintGrows
<1>8. gone \cap Others = {} /\ (t \in tasks => gone \cap AssetsOf[target] = {})
  BY <1>0, <1>1 DEF Spares
<1>9. UploadsStand'
  <2>1. ASSUME "assets" \in parts, NEW key \in AssetsOf[target]
        PROVE  IF key \in DOMAIN assets' THEN assets'[key].build = target ELSE key \in tainted'
    <3>1. IF key \in DOMAIN assets THEN assets[key].build = target ELSE key \in tainted
      BY <1>1, <2>1 DEF IInv, UploadsStand, Landed, Standing
    <3>2. QED
      BY <1>4, <1>7, <1>8, <3>1
  <2>2. ASSUME NEW key \in Others
        PROVE  key \in DOMAIN assets' /\ (IsOurs(key) => assets'[key].build = NoBuild)
    BY <1>4, <1>8, <2>2 DEF IInv, UploadsStand
  <2>3. ASSUME NEW key \in DOMAIN assets' \ Others PROVE assets'[key].build \in Builds
    BY <1>4, <2>3 DEF IInv, UploadsStand
  <2>4. "cache" \in parts => "seed" \in cached[target] \/ <<target, "seed">> \in tainted
    BY <1>1 DEF IInv, UploadsStand, Landed, Standing
  <2>5. Standing' = target /\ phase' = "pruning"
    BY <1>1, <1>6 DEF Standing
  <2>6. QED
    BY <1>0, <1>6, <1>7, <2>1, <2>2, <2>3, <2>4, <2>5 DEF UploadsStand
<1>10. EdgeFollows' /\ RowsRecorded' /\ Queried' /\ NotedStands' /\ BucketListed'
  BY <1>0, <1>3, <1>7, EdgeUntouched, RowsUntouched, BucketUntouched
<1>11. QED
  BY <1>6, <1>9, <1>10 DEF IInv
--------------------------------------------------------------------------------
(* The theorems. *)

LEMMA StepHolds ==
    ASSUME IInv, [PruningNext]_pruningVars
    PROVE  IInv'
<1>1. ASSUME NEW b \in Builds,
             Store(b) \/ InstancesEnd(b) \/ Deploy(b) \/ \E p \in Partitions : WriteRow(b, p)
      PROVE  IInv'
  BY <1>1, StoreHolds, InstancesHold, BeginHolds, WriteHolds
<1>2. CASE CacheAtEdge \/ MonthPasses
  BY <1>2, InstancesHold
<1>3. CASE Upload
  BY <1>3, UploadHolds
<1>4. CASE Switch \/ Invoke \/ Succeed \/ Complete \/ TimeOut
  BY <1>4, DeploymentHolds
<1>5. CASE RollBack \/ ContinueRollback
  BY <1>5, BeginHolds
<1>6. ASSUME NEW t \in tasks \cup left, TaskStep(t) PROVE IInv'
  BY <1>6, RejectHolds, InvalidateHolds, ReadHolds, QueryHolds, DeleteRowsHolds, UpdateHolds,
     ListCacheHolds, DeletePrefixHolds, EndCacheHolds, ListAssetsHolds, DeleteAssetsHolds
     DEF TaskStep
<1>7. CASE UNCHANGED pruningVars
  <2>1. UNCHANGED <<parts, current, target, phase, serving, routed, rows, meta, cached, assets,
                    edge, tasks, left, lost, stray, noted, tainted, abandoned>>
    BY <1>7 DEF pruningVars, stack, compute, stores, history
  <2>2. Typed' /\ TasksAreIts' /\ Spared'
    BY <2>1 DEF IInv, Typed, PruningTypeOK, TasksAreIts, Spared, Spares
  <2>3. UploadsStand' /\ NotedStands' /\ EdgeFollows' /\ BucketListed'
    BY <2>1 DEF IInv, UploadsStand, Landed, Standing, NotedStands, EdgeFollows, Fresh, Known, Ordered,
                BucketListed, Listed
  <2>4. RowsRecorded' /\ Queried'
    BY <2>1 DEF IInv, RowsRecorded, IsRecorded, Queried, Queries
  <2>5. QED
    BY <2>2, <2>3, <2>4 DEF IInv
<1>8. QED
  BY <1>1, <1>2, <1>3, <1>4, <1>5, <1>6, <1>7 DEF PruningNext

\* The inductive invariant: what a deployment's tasks may take is never the target's,
\* and what they have yet to take is in their hands or accounted for.
THEOREM Invariance == PruningSpec => []IInv
  BY StartHolds, StepHolds, PTL DEF PruningSpec

\* Every variable keeps its type, and the metadata names a build.
THEOREM TypeCorrect == PruningSpec => []PruningTypeOK
<1>1. IInv => PruningTypeOK
  BY DEF IInv, Typed
<1>2. QED
  BY <1>1, Invariance, PTL

\* After any deployments, rollbacks before the post-deploy or after it, rejections and
\* retries the build the stack ends at has what it uploaded and what its instances
\* recorded, but for the rows that a deployment which failed afterwards had pruned, and for
\* what the tasks of a failed invocation delete when a later one thaws them; other stacks'
\* objects are never touched; where the functions are behind CloudFront it holds nothing of
\* another build, but for one given up before its post-deploy (post-deploy's pruning and
\* invalidation, NextjsBaseConstruct.createNextjsPostDeploy).
THEOREM CurrentStaysWhole == PruningSpec => []CurrentStands
<1>1. ASSUME IInv PROVE CurrentStands
  <2>1. current \in Builds /\ (phase = "idle" => target = current)
    BY <1>1 DEF IInv, Typed, PruningTypeOK, TasksAreIts
  <2>2. ASSUME phase = "idle"
        PROVE  /\ "cache" \in parts => "seed" \in cached[current] \/ <<current, "seed">> \in tainted
               /\ "assets" \in parts => AssetsOf[current] \subseteq DOMAIN assets \cup tainted
    BY <1>1, <2>1, <2>2 DEF IInv, UploadsStand, Landed, Standing
  <2>3. \A p \in Partitions :
           <<current, p>> \in noted => p \in rows[current] \/ <<current, p>> \in tainted
    BY <1>1, <2>1 DEF IInv, NotedStands
  <2>4. Others \subseteq DOMAIN assets
    BY <1>1 DEF IInv, UploadsStand
  <2>5. EdgeIsCurrent
    BY <1>1, <2>1 DEF IInv, EdgeFollows, TasksAreIts, EdgeIsCurrent
  <2>6. QED
    BY <2>2, <2>3, <2>4, <2>5 DEF CurrentStands, BuildStands
<1>2. QED
  BY <1>1, Invariance, PTL

\* When the deployment is done, rows of an earlier build are there for a named cause
\* only, and so are its objects in the cache bucket (pruneRevalidationTable,
\* pruneCacheBucket).
THEOREM OldIsGone == PruningSpec => []OldGo
<1>1. ASSUME IInv PROVE OldGo
  <2>1. phase \in {"idle", "pruned"} => tasks = {}
    BY <1>1 DEF IInv, TasksAreIts
  <2>2. OldRowsGo
    BY <1>1, <2>1 DEF IInv, RowsRecorded, IsRecorded, OldRowsGo
  <2>3. OldObjectsGo
    BY <1>1, <2>1 DEF IInv, BucketListed, Listed, OldObjectsGo
  <2>4. QED
    BY <2>2, <2>3 DEF OldGo
<1>2. QED
  BY <1>1, Invariance, PTL

--------------------------------------------------------------------------------
(* What a synth leaves in its directory: NextjsBuild. *)

Shells == {"none", "lambda", "server", "both"}
WholeBinaries == [name : Sharps, platform : Platforms, whole : {TRUE}]
Binaries == [name : Sharps, platform : Platforms, whole : BOOLEAN]
Chunk == [build : Nat, patches : Seq({"p", "q"})]
Root == [build : Nat, shell : Shells, manifest : Nat, public : BOOLEAN, sharp : SUBSET Binaries]
StagingSteps == {"stage", "cleared", "sharp", "install", "fetch", "warn", "size", "done"}

SynthTyped ==
    /\ props \in Props /\ builds \in Nat /\ cache \in Nat /\ root \in RootGroups
    /\ step \in {"failed", "build", "compiled", "staged", "written", "built", "patch"} \cup StagingSteps
    /\ manifest \in [build : Nat, version : {1, 2}, split : BOOLEAN]
    /\ chunks \in [ChunkNames -> Chunk]
    /\ roots \in [RootGroups -> Root]
    /\ warned \in [RootGroups -> SUBSET (DOMAIN Natives \cup Sharps)]

\* A download has its name once it is whole: a synth that finds one may extract it.
DownloadsWhole == downloads \cup fetches \subseteq WholeBinaries

\* Wherever a synth ends, what it leaves is of one build: the chunks of the last, the
\* manifest of that or none, the init cache of the manifest's or none, and the roots
\* the manifest speaks of are those that were built with it.
OneBuild ==
    /\ cache \in {NotBuilt, manifest.build} /\ manifest.build \in {NotBuilt, builds}
    /\ \A c \in ChunkNames : chunks[c].build = builds
    /\ manifest.build # NotBuilt => \A g \in Staged(manifest.split) : roots[g].build = manifest.build

\* While the adapter writes: no manifest before its roots.
AdapterWrites ==
    /\ step \in {"compiled", "staged"} => manifest.build = NotBuilt
    /\ step = "staged" => \A g \in Staged(props.split) : roots[g].build = builds
    /\ step = "written" => manifest.build = builds

\* The chunks that are not to be patched any more are patched, once.
ChunksPatched ==
    step \in {"patch"} \cup StagingSteps =>
    /\ manifest.build # NotBuilt
    /\ props.type = "GLOBAL_FUNCTIONS" =>
          \A c \in ChunkNames : chunks[c].patches = <<props.patch>> \/ (step = "patch" /\ c \in todo)

\* What stageRuntime, stageSharpForTarget and warnOnForeignNativeBinaries leave of a root.
RuntimeOf(g) ==
    /\ roots[g].manifest = manifest.build /\ roots[g].public = ~PublicOnDisk
    /\ roots[g].shell = Shell
SharpOf(g) == roots[g].sharp = IF HasSharp(g) THEN {Binary(s, Target, TRUE) : s \in Sharps} ELSE {}
WarnedOf(g) == warned[g] = {p \in DOMAIN Natives : HeaderOf(Target) \notin {HeaderOf(b) : b \in Natives[p]}}

\* The roots that were staged before this one are done, and those to come are others.
RootsInTurn ==
    step \in StagingSteps =>
    /\ manifest.split = props.split
    /\ root \in Staged(props.split) /\ todo \subseteq Staged(props.split) \ {root}
    /\ \A g \in Staged(props.split) \ (todo \cup {root}) : RuntimeOf(g) /\ SharpOf(g) /\ WarnedOf(g)

\* And this one as far as it came: nothing of an earlier synth's is left in it, and what
\* is extracted into it is the target's, and whole.
RootAsFar ==
    /\ step = "cleared" => roots[root].shell = "none" /\ roots[root].public = FALSE
    /\ step \in StagingSteps \ {"stage", "cleared"} => RuntimeOf(root)
    /\ step \in {"install", "fetch"} =>
          HasSharp(root) /\ roots[root].sharp \subseteq {Binary(s, Target, TRUE) : s \in Sharps}
    /\ step \in {"warn", "size", "done"} => SharpOf(root)
    /\ step \in {"size", "done"} => WarnedOf(root)
    /\ step = "done" => todo = {}

SynthInv ==
    /\ SynthTyped /\ DownloadsWhole
    /\ OneBuild /\ AdapterWrites /\ ChunksPatched /\ RootsInTurn /\ RootAsFar

LEMMA SynthStarts == SynthInit => SynthInv
<1> SUFFICES ASSUME SynthInit PROVE SynthInv
  OBVIOUS
<1>1. props \in Props
  BY SynthAssumption DEF SynthInit
<1>2. SynthTyped
  BY <1>1 DEF SynthInit, SynthTyped, NotBuilt, NoManifest, NoChunk, NoRoot, Chunk, Root, Shells,
              RootGroups, StagingSteps
<1>3. DownloadsWhole
  BY DEF SynthInit, DownloadsWhole
<1>4. OneBuild
  BY DEF SynthInit, OneBuild, NotBuilt, NoManifest, NoChunk
<1>5. QED
  BY <1>2, <1>3, <1>4 DEF SynthInit, SynthInv, AdapterWrites, ChunksPatched, RootsInTurn, RootAsFar,
                          StagingSteps

\* What is said of a root stands as long as its root, the props and the manifest do.
LEMMA RootStands ==
    ASSUME NEW g, props' = props, manifest' = manifest, roots'[g] = roots[g], warned'[g] = warned[g]
    PROVE  RuntimeOf(g)' = RuntimeOf(g) /\ SharpOf(g)' = SharpOf(g) /\ WarnedOf(g)' = WarnedOf(g)
BY DEF RuntimeOf, SharpOf, WarnedOf, PublicOnDisk, Shell, IsFunctions, Target

LEMMA StagedRoots == ASSUME NEW split PROVE Staged(split) \subseteq RootGroups
BY DEF Staged, RootGroups

\* A synth's start, and all that is between its build and its patch.
LEMMA SynthBuilds ==
    ASSUME SynthInv,
           Synth \/ Compile \/ Unbuilt \/ StageRoots \/ WriteManifest \/ WriteInitCache
    PROVE  SynthInv'
<1> USE DEF SynthInv
<1>1. CASE Synth
  <2>1. props' \in Props
    BY <1>1 DEF Synth, SynthTyped, NextAsked
  <2>2. SynthTyped'
    BY <1>1, <2>1 DEF Synth, SynthTyped, NotBuilt
  <2>3. DownloadsWhole' /\ OneBuild'
    BY <1>1 DEF Synth, DownloadsWhole, OneBuild, shared
  <2>4. step' \in {"build", "built"}
    BY <1>1 DEF Synth
  <2>5. QED
    BY <2>2, <2>3, <2>4 DEF AdapterWrites, ChunksPatched, RootsInTurn, RootAsFar, StagingSteps
<1>2. CASE Compile
  <2>1. builds' \in Nat
    BY <1>2 DEF Compile, SynthTyped
  <2>2. SynthTyped'
    <3>1. <<>> \in Seq({"p", "q"})
      OBVIOUS
    <3>2. chunks' \in [ChunkNames -> Chunk]
      BY <1>2, <2>1, <3>1 DEF Compile, Chunk
    <3>3. roots' \in [RootGroups -> Root]
      BY <1>2 DEF Compile, Root, NoRoot, NotBuilt, Shells
    <3>4. QED
      BY <1>2, <2>1, <3>2, <3>3 DEF Compile, SynthTyped, NoManifest, NotBuilt
  <2>3. DownloadsWhole'
    BY <1>2 DEF Compile, DownloadsWhole, shared
  <2>4. OneBuild'
    BY <1>2 DEF Compile, OneBuild, NoManifest, NotBuilt
  <2>5. manifest'.build = NotBuilt /\ step' = "compiled"
    BY <1>2 DEF Compile, NoManifest
  <2>6. QED
    BY <2>2, <2>3, <2>4, <2>5 DEF AdapterWrites, ChunksPatched, RootsInTurn, RootAsFar, StagingSteps
<1>3. CASE Unbuilt
  <2>1. SynthTyped' /\ DownloadsWhole' /\ OneBuild'
    BY <1>3 DEF Unbuilt, SynthTyped, DownloadsWhole, OneBuild, disk, shared
  <2>2. step' = "built"
    BY <1>3 DEF Unbuilt
  <2>3. QED
    BY <2>1, <2>2 DEF AdapterWrites, ChunksPatched, RootsInTurn, RootAsFar, StagingSteps
<1>4. CASE StageRoots
  <2>1. builds' = builds /\ manifest' = manifest /\ cache' = cache /\ chunks' = chunks /\ props' = props
        /\ step' = "staged" /\ manifest.build = NotBuilt
    BY <1>4 DEF StageRoots, AdapterWrites
  <2>2. \A s \in Sharps : Binary(s, Machine, TRUE) \in Binaries
    BY DEF Binary, Binaries, Machine, Platforms
  <2>3. roots' \in [RootGroups -> Root]
    <3>1. {Binary(s, Machine, TRUE) : s \in Sharps} \subseteq Binaries
      BY <2>2
    <3>2. NoRoot \in Root
      BY DEF NoRoot, NotBuilt, Root, Shells
    <3>3. \A S \in SUBSET Binaries : [NoRoot EXCEPT !.build = builds, !.sharp = S] \in Root
      BY <3>2 DEF NoRoot, Root, SynthTyped, Shells, NotBuilt
    <3>4. \A g \in RootGroups : roots'[g] \in Root
      BY <1>4, <3>1, <3>2, <3>3 DEF StageRoots
    <3>5. QED
      BY <1>4, <3>4 DEF StageRoots
  <2>4. SynthTyped'
    BY <1>4, <2>3 DEF StageRoots, SynthTyped
  <2>5. DownloadsWhole'
    BY <1>4 DEF StageRoots, DownloadsWhole, shared
  <2>6. OneBuild'
    BY <2>1 DEF OneBuild
  <2>7. \A g \in Staged(props.split) : roots'[g].build = builds
    BY <1>4, StagedRoots DEF StageRoots, NoRoot
  <2>8. QED
    BY <2>1, <2>4, <2>5, <2>6, <2>7
       DEF AdapterWrites, ChunksPatched, RootsInTurn, RootAsFar, StagingSteps
<1>5. CASE WriteManifest
  <2>1. SynthTyped' /\ DownloadsWhole'
    BY <1>5 DEF WriteManifest, SynthTyped, DownloadsWhole, shared, Props
  <2>2. manifest'.build = builds /\ manifest'.split = props.split /\ step' = "written" /\ builds' = builds
    BY <1>5 DEF WriteManifest
  <2>3. cache = NotBuilt /\ \A g \in Staged(props.split) : roots[g].build = builds
    BY <1>5 DEF WriteManifest, OneBuild, AdapterWrites
  <2>4. OneBuild'
    BY <1>5, <2>2, <2>3 DEF WriteManifest, OneBuild
  <2>5. QED
    BY <2>1, <2>2, <2>4 DEF AdapterWrites, ChunksPatched, RootsInTurn, RootAsFar, StagingSteps
<1>6. CASE WriteInitCache
  <2>1. SynthTyped' /\ DownloadsWhole'
    BY <1>6 DEF WriteInitCache, SynthTyped, DownloadsWhole, shared
  <2>2. cache' = manifest.build /\ step' = "built"
    BY <1>6 DEF WriteInitCache, AdapterWrites
  <2>3. OneBuild'
    BY <1>6, <2>2 DEF WriteInitCache, OneBuild
  <2>4. QED
    BY <2>1, <2>2, <2>3 DEF AdapterWrites, ChunksPatched, RootsInTurn, RootAsFar, StagingSteps
<1>7. QED
  BY <1>1, <1>2, <1>3, <1>4, <1>5, <1>6

\* The patch of the chunks, and the choice of the roots.
LEMMA SynthPatches ==
    ASSUME SynthInv,
           ReadAdapterManifest \/ (\E c \in ChunkNames : PatchChunk(c)) \/ ResolveDeploymentRoots
    PROVE  SynthInv'
<1> USE DEF SynthInv
<1>1. CASE ReadAdapterManifest
  <2>1. step' \in {"failed", "patch"}
    BY <1>1 DEF ReadAdapterManifest, Throw
  <2>2. SynthTyped' /\ DownloadsWhole' /\ OneBuild'
    BY <1>1, <2>1 DEF ReadAdapterManifest, SynthTyped, DownloadsWhole, OneBuild, disk, shared
  <2>3. ChunksPatched'
    BY <1>1, <2>1 DEF ReadAdapterManifest, ChunksPatched, Throw, StagingSteps, disk
  <2>4. QED
    BY <2>1, <2>2, <2>3 DEF AdapterWrites, RootsInTurn, RootAsFar, StagingSteps
<1>2. ASSUME NEW c \in ChunkNames, PatchChunk(c) PROVE SynthInv'
  <2>1. step = "patch" /\ step' = "patch" /\ props' = props /\ manifest' = manifest /\ todo' = todo \ {c}
    BY <1>2 DEF PatchChunk
  <2>2. /\ chunks'[c] = [chunks[c] EXCEPT !.patches = <<props.patch>>]
        /\ \A d \in ChunkNames \ {c} : chunks'[d] = chunks[d]
    BY <1>2 DEF PatchChunk, PatchClientChunk, SynthTyped
  <2>3. props.patch \in {"p", "q"}
    BY DEF SynthTyped, Props
  <2>4. chunks'[c] \in Chunk /\ chunks'[c].build = chunks[c].build /\ chunks'[c].patches = <<props.patch>>
    <3>1. <<props.patch>> \in Seq({"p", "q"})
      BY <2>3
    <3>2. chunks[c] \in Chunk
      BY DEF SynthTyped
    <3>3. QED
      BY <2>2, <3>1, <3>2 DEF Chunk
  <2>5. SynthTyped'
    <3>1. chunks' \in [ChunkNames -> Chunk]
      BY <1>2, <2>2, <2>4 DEF PatchChunk, SynthTyped
    <3>2. QED
      BY <1>2, <3>1 DEF PatchChunk, SynthTyped
  <2>6. DownloadsWhole'
    BY <1>2 DEF PatchChunk, DownloadsWhole, shared
  <2>7. OneBuild'
    BY <1>2, <2>2, <2>4 DEF PatchChunk, OneBuild
  <2>8. ChunksPatched'
    BY <2>1, <2>2, <2>4 DEF ChunksPatched, StagingSteps
  <2>9. QED
    BY <2>1, <2>5, <2>6, <2>7, <2>8 DEF AdapterWrites, RootsInTurn, RootAsFar, StagingSteps
<1>3. CASE ResolveDeploymentRoots
  <2>1. step' \in {"failed", "stage"} /\ step = "patch" /\ todo = {}
        /\ props' = props /\ manifest' = manifest /\ chunks' = chunks
    BY <1>3 DEF ResolveDeploymentRoots, Throw, disk
  <2>2. SynthTyped' /\ DownloadsWhole' /\ OneBuild'
    BY <1>3 DEF ResolveDeploymentRoots, Throw, SynthTyped, DownloadsWhole, OneBuild, StagingSteps,
                RootGroups, disk, shared
  <2>3. ChunksPatched'
    BY <2>1 DEF ChunksPatched, StagingSteps
  <2>4. RootsInTurn'
    <3>1. CASE step' = "failed"
      BY <3>1 DEF RootsInTurn, StagingSteps
    <3>2. CASE step' = "stage"
      <4>1. props.split = manifest.split /\ root' = "default" /\ todo' = Staged(props.split) \ {"default"}
        BY <1>3, <3>2 DEF ResolveDeploymentRoots, Throw
      <4>2. Staged(props.split) \ (todo' \cup {root'}) = {} /\ root' \in Staged(props.split)
        BY <4>1 DEF Staged, RootGroups
      <4>3. QED
        BY <2>1, <4>1, <4>2, StagedRoots DEF RootsInTurn
    <3>3. QED
      BY <2>1, <3>1, <3>2
  <2>5. QED
    BY <2>1, <2>2, <2>3, <2>4 DEF AdapterWrites, RootAsFar, StagingSteps
<1>4. QED
  BY <1>1, <1>2, <1>3

\* The staging of one root: the others keep what is said of them.
LEMMA OthersStay ==
    ASSUME SynthInv, step \in StagingSteps, step' \in StagingSteps,
           props' = props, manifest' = manifest, root' = root, todo' = todo,
           \A g \in RootGroups \ {root} : roots'[g] = roots[g] /\ warned'[g] = warned[g]
    PROVE  RootsInTurn'
<1> DEFINE OthersOf == Staged(props.split) \ (todo \cup {root})
<1>1. /\ manifest.split = props.split /\ root \in Staged(props.split)
      /\ todo \subseteq Staged(props.split) \ {root}
      /\ \A g \in OthersOf : RuntimeOf(g) /\ SharpOf(g) /\ WarnedOf(g)
  BY DEF SynthInv, RootsInTurn
<1>2. OthersOf \subseteq RootGroups \ {root}
  BY StagedRoots
<1>3. ASSUME NEW g \in OthersOf PROVE RuntimeOf(g)' /\ SharpOf(g)' /\ WarnedOf(g)'
  BY <1>1, <1>2, <1>3, RootStands
<1>4. QED
  BY <1>1, <1>3 DEF RootsInTurn

\* What is left alone while one root is staged.
LEMMA StagingKeeps ==
    ASSUME SynthInv, step \in StagingSteps, step' \in StagingSteps,
           props' = props, manifest' = manifest, builds' = builds, cache' = cache, chunks' = chunks,
           \A g \in RootGroups : roots'[g].build = roots[g].build
    PROVE  OneBuild' /\ AdapterWrites' /\ ChunksPatched'
<1>1. OneBuild'
  BY StagedRoots DEF SynthInv, OneBuild
<1>2. QED
  BY <1>1 DEF SynthInv, AdapterWrites, ChunksPatched, StagingSteps

\* A root that is cleared, and one that is cleared and copied into.
LEMMA ClearedRoot ==
    ASSUME NEW r \in Root
    PROVE  /\ Cleared(r) \in Root /\ Cleared(r).build = r.build
           /\ Cleared(r).shell = "none" /\ Cleared(r).public = FALSE
BY DEF Root, Cleared, Shells, NotBuilt
LEMMA CopiedRoot ==
    ASSUME NEW r \in Root, manifest.build \in Nat, r.shell = "none", r.public = FALSE
    PROVE  /\ Copied(r) \in Root /\ Copied(r).build = r.build /\ Copied(r).sharp = r.sharp
           /\ Copied(r).shell = Shell /\ Copied(r).manifest = manifest.build
           /\ Copied(r).public = ~PublicOnDisk
BY DEF Root, Copied, Shells, Shell, PublicOnDisk

\* stageRuntime: cleared first, then copied.
LEMMA SynthStagesRuntime ==
    ASSUME SynthInv, ClearRuntime \/ StageRuntime
    PROVE  SynthInv'
<1>1. /\ props' = props /\ manifest' = manifest /\ root' = root /\ todo' = todo /\ warned' = warned
      /\ builds' = builds /\ cache' = cache /\ chunks' = chunks /\ DownloadsWhole'
      /\ step \in StagingSteps /\ step' \in {"cleared", "sharp"} /\ root \in RootGroups
  BY DEF ClearRuntime, StageRuntime, SynthInv, SynthTyped, DownloadsWhole, StagingSteps, shared
<1>2. roots \in [RootGroups -> Root] /\ roots[root] \in Root
  BY <1>1 DEF SynthInv, SynthTyped
<1>3. \A g \in RootGroups \ {root} : roots'[g] = roots[g]
  BY <1>1, <1>2 DEF ClearRuntime, StageRuntime
<1>4. CASE ClearRuntime
  <2>1. roots'[root] = Cleared(roots[root])
    BY <1>1, <1>2, <1>4 DEF ClearRuntime
  <2>2. /\ roots'[root] \in Root /\ roots'[root].build = roots[root].build
        /\ roots'[root].shell = "none" /\ roots'[root].public = FALSE
    BY <1>2, <2>1, ClearedRoot
  <2>3. roots' \in [RootGroups -> Root] /\ step' = "cleared"
    BY <1>2, <1>4, <2>2, <1>3 DEF ClearRuntime
  <2>4. SynthTyped'
    BY <1>1, <2>3 DEF SynthInv, SynthTyped, StagingSteps
  <2>5. QED
    BY <1>1, <1>3, <2>2, <2>3, <2>4, OthersStay, StagingKeeps DEF SynthInv, RootAsFar, StagingSteps
<1>5. CASE StageRuntime
  <2>1. step = "cleared" /\ roots[root].shell = "none" /\ roots[root].public = FALSE /\ step' = "sharp"
    BY <1>5 DEF StageRuntime, SynthInv, RootAsFar
  <2>2. roots'[root] = Copied(roots[root]) /\ manifest.build \in Nat
    BY <1>1, <1>2, <1>5 DEF StageRuntime, SynthInv, SynthTyped
  <2>4. /\ roots'[root] \in Root /\ roots'[root].build = roots[root].build
        /\ roots'[root].shell = Shell /\ roots'[root].manifest = manifest.build
        /\ roots'[root].public = ~PublicOnDisk
    BY <1>2, <2>1, <2>2, CopiedRoot
  <2>5. RuntimeOf(root)'
    BY <1>1, <2>4 DEF RuntimeOf, Shell, IsFunctions, PublicOnDisk
  <2>6. SynthTyped'
    <3>1. roots' \in [RootGroups -> Root]
      BY <1>2, <1>3, <1>5, <2>4 DEF StageRuntime
    <3>2. QED
      BY <1>1, <3>1 DEF SynthInv, SynthTyped, StagingSteps
  <2>7. \A g \in RootGroups : roots'[g].build = roots[g].build
    BY <1>3, <2>4
  <2>8. RootAsFar'
    BY <2>1, <2>5 DEF RootAsFar
  <2>9. QED
    BY <1>1, <1>3, <2>1, <2>6, <2>7, <2>8, OthersStay, StagingKeeps DEF SynthInv, StagingSteps
<1>6. QED
  BY <1>4, <1>5

\* The binaries of the target.
TargetBinaries == {Binary(s, Target, TRUE) : s \in Sharps}

LEMMA TargetIsPlatform == ASSUME SynthTyped PROVE Target \in Platforms
BY DEF SynthTyped, Props, Target, Platforms

LEMMA WholeAre == ASSUME SynthTyped PROVE TargetBinaries \subseteq WholeBinaries
<1>1. \A name \in Sharps : Binary(name, Target, TRUE) \in WholeBinaries
  BY TargetIsPlatform DEF Binary, WholeBinaries
<1>2. QED
  BY <1>1 DEF TargetBinaries

LEMMA PartsAre ==
    ASSUME NEW b \in WholeBinaries, NEW whole \in BOOLEAN
    PROVE  /\ PartOf(b) \notin WholeBinaries
           /\ [b EXCEPT !.whole = whole] \in Binaries
           /\ whole => [b EXCEPT !.whole = whole] = b
<1>1. PartOf(b).whole = FALSE
  BY DEF PartOf, WholeBinaries
<1>2. [b EXCEPT !.whole = whole] \in Binaries
  BY DEF WholeBinaries, Binaries
<1>3. ASSUME whole PROVE [b EXCEPT !.whole = whole] = b
  BY <1>3 DEF WholeBinaries
<1>4. QED
  BY <1>1, <1>2, <1>3 DEF WholeBinaries

LEMMA WantedIs ==
    Wanted \in TargetBinaries /\ \E name \in Sharps : Wanted = Binary(name, Target, TRUE)
BY DEF Wanted, TargetBinaries, Sharps

\* A root whose sharp is another.
LEMMA RootWithSharp ==
    ASSUME SynthInv, NEW S \in SUBSET Binaries, root' = root, roots' = [roots EXCEPT ![root].sharp = S]
    PROVE  /\ roots' \in [RootGroups -> Root] /\ roots'[root].sharp = S
           /\ \A g \in RootGroups \ {root} : roots'[g] = roots[g]
           /\ \A g \in RootGroups : roots'[g].build = roots[g].build
           /\ props' = props /\ manifest' = manifest /\ RuntimeOf(root) => RuntimeOf(root)'
<1>1. roots \in [RootGroups -> Root] /\ root \in RootGroups
  BY DEF SynthInv, SynthTyped
<1>2. roots'[root] = [roots[root] EXCEPT !.sharp = S] /\ roots[root] \in Root
  BY <1>1
<1>3. /\ roots'[root] \in Root /\ roots'[root].sharp = S /\ roots'[root].build = roots[root].build
      /\ roots'[root].shell = roots[root].shell /\ roots'[root].manifest = roots[root].manifest
      /\ roots'[root].public = roots[root].public
  BY <1>2 DEF Root
<1>4. \A g \in RootGroups \ {root} : roots'[g] = roots[g]
  BY <1>1
<1>5. roots' \in [RootGroups -> Root]
  BY <1>1, <1>3, <1>4
<1>6. ASSUME props' = props, manifest' = manifest, RuntimeOf(root) PROVE RuntimeOf(root)'
  BY <1>3, <1>6 DEF RuntimeOf, PublicOnDisk, Shell, IsFunctions
<1>7. QED
  BY <1>3, <1>4, <1>5, <1>6

\* stageSharpForTarget: the binaries of a root go, and the target's come, each whole or
\* else the last thing the synth did.
LEMMA SynthStagesSharp ==
    ASSUME SynthInv, RemoveExistingSharpBinaries \/ Extract
    PROVE  SynthInv'
<1>1. /\ props' = props /\ manifest' = manifest /\ root' = root /\ todo' = todo /\ warned' = warned
      /\ builds' = builds /\ cache' = cache /\ chunks' = chunks /\ DownloadsWhole'
      /\ step \in {"sharp", "install"} /\ step' \in {"failed", "install", "warn"}
      /\ SynthTyped /\ RuntimeOf(root)
  BY DEF RemoveExistingSharpBinaries, Extract, Throw, SynthInv, DownloadsWhole, RootAsFar, StagingSteps, shared
<1>2. ASSUME NEW S \in SUBSET Binaries, roots' = [roots EXCEPT ![root].sharp = S],
             step' \in StagingSteps => RootAsFar'
      PROVE  SynthInv'
  <2>1. /\ roots' \in [RootGroups -> Root]
        /\ \A g \in RootGroups \ {root} : roots'[g] = roots[g]
        /\ \A g \in RootGroups : roots'[g].build = roots[g].build
    BY <1>1, <1>2, RootWithSharp
  <2>2. SynthTyped'
    BY <1>1, <2>1 DEF SynthTyped, StagingSteps
  <2>3. CASE step' = "failed"
    <3>1. OneBuild'
      BY <1>1, <2>1, StagedRoots DEF SynthInv, OneBuild
    <3>2. QED
      BY <1>1, <2>2, <2>3, <3>1 DEF SynthInv, AdapterWrites, ChunksPatched, RootsInTurn, RootAsFar, StagingSteps
  <2>4. CASE step' # "failed"
    <3>1. step \in StagingSteps /\ step' \in StagingSteps
      BY <1>1, <2>4 DEF StagingSteps
    <3>2. QED
      BY <1>1, <1>2, <2>1, <2>2, <3>1, OthersStay, StagingKeeps DEF SynthInv
  <2>5. QED
    BY <2>3, <2>4
<1>3. CASE RemoveExistingSharpBinaries
  <2>1. {} \in SUBSET Binaries /\ roots' = [roots EXCEPT ![root].sharp = {}]
    BY <1>3 DEF RemoveExistingSharpBinaries, KeepSharp
  <2>2. roots'[root].sharp = {} /\ RuntimeOf(root)'
    BY <1>1, <2>1, RootWithSharp, Zenon
  <2>3. step' = IF HasSharp(root) THEN "install" ELSE "warn"
    BY <1>3 DEF RemoveExistingSharpBinaries
  <2>4. step' = "warn" => SharpOf(root)'
    BY <1>1, <2>2, <2>3 DEF SharpOf, HasSharp
  <2>5. RootAsFar'
    BY <1>1, <2>2, <2>3, <2>4 DEF RootAsFar, HasSharp
  <2>6. QED
    BY <1>2, <2>1, <2>5, Zenon
<1>4. CASE Extract
  <2>1. step = "install" /\ HasSharp(root) /\ roots[root].sharp \subseteq TargetBinaries
    BY <1>4 DEF Extract, SynthInv, RootAsFar, TargetBinaries
  <2>2. Wanted \in TargetBinaries /\ Wanted \in WholeBinaries
    BY <1>1, WantedIs, WholeAre
  <2>3. Wanted \in downloads
    <3>1. PartOf(Wanted) \notin downloads
      BY <2>2, PartsAre DEF SynthInv, DownloadsWhole
    <3>2. QED
      BY <1>4, <3>1 DEF Extract, Valid
  <2>4. PICK whole \in BOOLEAN :
            /\ roots' = [roots EXCEPT ![root].sharp = @ \cup {[Wanted EXCEPT !.whole = whole]}]
            /\ step' = IF whole THEN "install" ELSE "failed"
    BY <1>4, <2>1, <2>3 DEF Extract, Throw
  <2> DEFINE S == roots[root].sharp \cup {[Wanted EXCEPT !.whole = whole]}
  <2>5. S \in SUBSET Binaries
    <3>1. roots[root].sharp \subseteq Binaries
      BY <1>1 DEF SynthTyped, Root
    <3>2. QED
      BY <2>2, <3>1, PartsAre
  <2>6. roots' = [roots EXCEPT ![root].sharp = S]
    BY <2>4
  <2>7. step' # "failed" => S \subseteq TargetBinaries
    BY <2>1, <2>2, <2>4, PartsAre
  <2>8. roots'[root].sharp = S /\ RuntimeOf(root)'
    BY <1>1, <2>5, <2>6, RootWithSharp
  <2>9. step' # "failed" => RootAsFar'
    BY <1>1, <2>1, <2>4, <2>7, <2>8 DEF RootAsFar, TargetBinaries, Target, IsFunctions
  <2>10. QED
    BY <1>2, <2>5, <2>6, <2>9 DEF StagingSteps
<1>5. QED
  BY <1>3, <1>4

\* The downloads, this synth's and another app's: a name is given to what is whole.
LEMMA SynthDownloads ==
    ASSUME SynthInv, Fetch \/ Fetched \/ OtherFetch \/ OtherFetched
    PROVE  SynthInv'
<1>1. SynthTyped /\ DownloadsWhole
  BY DEF SynthInv
<1>2. \A b \in WholeBinaries : Downloads(b) \subseteq WholeBinaries /\ Renamed(b) \subseteq WholeBinaries
  BY <1>1 DEF Downloads, Renamed, DownloadsWhole
<1>3. Wanted \in WholeBinaries /\ \A name \in Sharps : Binary(name, Target, TRUE) \in WholeBinaries
  BY <1>1, WholeAre, WantedIs DEF TargetBinaries
<1>4. DownloadsWhole'
  BY <1>1, <1>2, <1>3 DEF Fetch, Fetched, OtherFetch, OtherFetched, DownloadsWhole
<1>5. /\ UNCHANGED <<props, root, todo, builds, manifest, cache, chunks, roots, warned>>
      /\ step' = step \/ (step \in {"install", "fetch"} /\ step' \in {"install", "fetch"})
  BY DEF Fetch, Fetched, OtherFetch, OtherFetched, disk
<1>6. SynthTyped' /\ OneBuild'
  BY <1>1, <1>5 DEF SynthInv, SynthTyped, OneBuild, StagingSteps
<1>7. AdapterWrites' /\ ChunksPatched'
  BY <1>5 DEF SynthInv, AdapterWrites, ChunksPatched, StagingSteps
<1>8. RootsInTurn'
  BY <1>5, RootStands DEF SynthInv, RootsInTurn, StagingSteps
<1>9. RootAsFar'
  BY <1>5, RootStands DEF SynthInv, RootAsFar, StagingSteps, Target, IsFunctions
<1>10. QED
  BY <1>4, <1>6, <1>7, <1>8, <1>9 DEF SynthInv

\* What the warning names: whoever is traced with binaries, none with the target's
\* header. sharp's are the target's by now.
LEMMA ForeignAre ==
    ASSUME SynthInv, step = "warn"
    PROVE  FindForeignNativePackages =
               {p \in DOMAIN Natives : HeaderOf(Target) \notin {HeaderOf(b) : b \in Natives[p]}}
<1>1. HeaderOf(Target) = <<"linux", props.architecture>>
  BY DEF HeaderOf, Target
<1>2. ASSUME NEW p \in DOMAIN Natives
      PROVE  p \notin Sharps /\ Natives[p] # {}
  BY <1>2, SynthAssumption DEF Sharps
<1>3. ASSUME NEW p \in DOMAIN Natives
      PROVE  p \in FindForeignNativePackages <=> HeaderOf(Target) \notin {HeaderOf(b) : b \in Natives[p]}
  <2>1. PlatformsOf(p) = {HeaderOf(b) : b \in Natives[p]} /\ PlatformsOf(p) # {}
    BY <1>2 DEF PlatformsOf
  <2>2. QED
    BY <1>1, <2>1 DEF FindForeignNativePackages
<1>4. ASSUME NEW p \in Sharps PROVE p \notin FindForeignNativePackages
  <2>1. SharpOf(root)
    BY DEF SynthInv, RootAsFar
  <2>2. PlatformsOf(p) = {HeaderOf(b.platform) : b \in {x \in roots[root].sharp : x.name = p}}
    BY <1>4 DEF PlatformsOf
  <2>3. CASE HasSharp(root)
    <3>1. Binary(p, Target, TRUE) \in roots[root].sharp
      BY <1>4, <2>1, <2>3 DEF SharpOf
    <3>2. Binary(p, Target, TRUE).name = p /\ Binary(p, Target, TRUE).platform = Target
      BY DEF Binary
    <3>3. HeaderOf(Target) \in PlatformsOf(p)
      BY <2>2, <3>1, <3>2
    <3>4. QED
      BY <1>1, <3>3 DEF FindForeignNativePackages
  <2>4. CASE ~HasSharp(root)
    <3>1. PlatformsOf(p) = {}
      BY <2>1, <2>2, <2>4 DEF SharpOf
    <3>2. QED
      BY <3>1 DEF FindForeignNativePackages
  <2>5. QED
    BY <2>3, <2>4
<1>5. FindForeignNativePackages \subseteq DOMAIN Natives \cup Sharps
  BY DEF FindForeignNativePackages
<1>6. QED
  BY <1>3, <1>4, <1>5

\* The end of a root: it has all binaries, those that warn are named, and the next one.
LEMMA SynthEndsRoot ==
    ASSUME SynthInv, InstallSharpPackages \/ WarnOnForeignNativeBinaries \/ NextRoot \/ FailSynth
    PROVE  SynthInv'
<1>1. /\ props' = props /\ manifest' = manifest /\ builds' = builds /\ cache' = cache /\ chunks' = chunks
      /\ roots' = roots /\ DownloadsWhole' /\ OneBuild'
  BY DEF InstallSharpPackages, WarnOnForeignNativeBinaries, NextRoot, FailSynth, SynthInv, DownloadsWhole,
         OneBuild, disk, shared
<1>2. CASE InstallSharpPackages
  <2>1. step = "install" /\ step' = "warn" /\ root' = root /\ todo' = todo /\ warned' = warned
    BY <1>2 DEF InstallSharpPackages
  <2>2. SharpOf(root)
    <3>1. HasSharp(root) /\ roots[root].sharp \subseteq TargetBinaries
      BY <2>1 DEF SynthInv, RootAsFar, TargetBinaries
    <3>2. {b.name : b \in roots[root].sharp} = Sharps
      BY <1>2 DEF InstallSharpPackages, InPlace
    <3>3. \A name \in Sharps : Binary(name, Target, TRUE).name = name
      BY DEF Binary
    <3>4. ASSUME NEW name \in Sharps PROVE Binary(name, Target, TRUE) \in roots[root].sharp
      <4>1. PICK b \in roots[root].sharp : b.name = name
        BY <3>2, <3>4
      <4>2. PICK s \in Sharps : b = Binary(s, Target, TRUE)
        BY <3>1, <4>1 DEF TargetBinaries
      <4>3. QED
        BY <3>3, <4>1, <4>2
    <3>5. QED
      BY <3>1, <3>4 DEF SharpOf, TargetBinaries
  <2>3. SynthTyped'
    BY <1>1, <2>1 DEF SynthInv, SynthTyped, StagingSteps
  <2>4. RootAsFar'
    BY <1>1, <2>1, <2>2, RootStands DEF SynthInv, RootAsFar, StagingSteps
  <2>5. QED
    BY <1>1, <2>1, <2>3, <2>4, OthersStay, StagingKeeps DEF SynthInv, StagingSteps
<1>3. CASE WarnOnForeignNativeBinaries
  <2>1. step = "warn" /\ step' = "size" /\ root' = root /\ todo' = todo
        /\ warned' = [warned EXCEPT ![root] = FindForeignNativePackages]
    BY <1>3 DEF WarnOnForeignNativeBinaries
  <2>2. root \in RootGroups /\ warned \in [RootGroups -> SUBSET (DOMAIN Natives \cup Sharps)]
        /\ FindForeignNativePackages \subseteq DOMAIN Natives \cup Sharps
    BY DEF SynthInv, SynthTyped, FindForeignNativePackages
  <2>3. SynthTyped'
    BY <1>1, <2>1, <2>2 DEF SynthInv, SynthTyped, StagingSteps
  <2>4. \A g \in RootGroups \ {root} : warned'[g] = warned[g]
    BY <2>1, <2>2
  <2>5. WarnedOf(root)'
    BY <1>1, <2>1, <2>2, ForeignAre DEF WarnedOf, Target, IsFunctions
  <2>6. (RuntimeOf(root) /\ SharpOf(root)) => (RuntimeOf(root) /\ SharpOf(root))'
    BY <1>1, <2>1 DEF RuntimeOf, SharpOf, PublicOnDisk, Shell, IsFunctions, Target
  <2>7. RootAsFar'
    BY <2>1, <2>5, <2>6 DEF SynthInv, RootAsFar, StagingSteps
  <2>8. QED
    BY <1>1, <2>1, <2>3, <2>4, <2>7, OthersStay, StagingKeeps DEF SynthInv, StagingSteps
<1>4. CASE NextRoot
  <2>1. step = "size" /\ step' \in {"failed", "done", "stage"} /\ warned' = warned
    BY <1>4 DEF NextRoot, Throw
  <2>2. /\ manifest.split = props.split /\ root \in Staged(props.split)
        /\ todo \subseteq Staged(props.split) \ {root}
        /\ \A g \in Staged(props.split) \ todo : RuntimeOf(g) /\ SharpOf(g) /\ WarnedOf(g)
    BY <2>1 DEF SynthInv, RootsInTurn, RootAsFar, StagingSteps
  <2>3. ASSUME NEW g \in Staged(props.split) \ todo PROVE RuntimeOf(g)' /\ SharpOf(g)' /\ WarnedOf(g)'
    BY <1>1, <2>1, <2>2, RootStands
  <2>4. CASE step' = "failed"
    BY <1>1, <1>4, <2>1, <2>4
       DEF NextRoot, Throw, SynthInv, SynthTyped, AdapterWrites, ChunksPatched, RootsInTurn, RootAsFar, StagingSteps
  <2>5. CASE step' = "done"
    <3>1. todo = {} /\ todo' = {} /\ root' = root
      BY <1>4, <2>5 DEF NextRoot, Throw
    <3>2. SynthTyped'
      BY <1>1, <2>1, <2>5, <3>1 DEF SynthInv, SynthTyped, StagingSteps
    <3>3. RootAsFar' /\ RootsInTurn'
      BY <1>1, <2>1, <2>2, <2>3, <2>5, <3>1 DEF RootAsFar, RootsInTurn, StagingSteps
    <3>4. QED
      BY <1>1, <2>1, <2>5, <3>2, <3>3, StagingKeeps DEF SynthInv, StagingSteps
  <2>6. CASE step' = "stage"
    <3>1. PICK g \in todo : root' = g /\ todo' = todo \ {g}
      BY <1>4, <2>6 DEF NextRoot, Throw
    <3>2. SynthTyped'
      BY <1>1, <2>1, <2>2, <2>6, <3>1, StagedRoots DEF SynthInv, SynthTyped, StagingSteps
    <3>3. RootsInTurn'
      BY <1>1, <2>2, <2>3, <2>6, <3>1 DEF RootsInTurn
    <3>4. QED
      BY <1>1, <2>1, <2>6, <3>2, <3>3, StagingKeeps DEF SynthInv, RootAsFar, StagingSteps
  <2>7. QED
    BY <2>1, <2>4, <2>5, <2>6
<1>5. CASE FailSynth
  BY <1>1, <1>5 DEF FailSynth, Throw, SynthInv, SynthTyped, AdapterWrites, ChunksPatched, RootsInTurn,
                    RootAsFar, StagingSteps
<1>6. QED
  BY <1>2, <1>3, <1>4, <1>5

LEMMA SynthSteps == SynthInv /\ [SynthNext]_synthVars => SynthInv'
<1> SUFFICES ASSUME SynthInv, [SynthNext]_synthVars PROVE SynthInv'
  OBVIOUS
<1>1. CASE SynthNext
  BY <1>1, SynthBuilds, SynthPatches, SynthStagesRuntime, SynthStagesSharp, SynthDownloads, SynthEndsRoot
     DEF SynthNext
<1>2. CASE UNCHANGED synthVars
  <2>1. UNCHANGED <<props, step, todo, root, builds, manifest, cache, chunks, roots, downloads, fetches, warned>>
    BY <1>2 DEF synthVars, disk, shared
  <2>2. SynthTyped' /\ DownloadsWhole' /\ OneBuild' /\ AdapterWrites' /\ ChunksPatched'
    BY <2>1 DEF SynthInv, SynthTyped, DownloadsWhole, OneBuild, AdapterWrites, ChunksPatched
  <2>3. RootsInTurn' /\ RootAsFar'
    BY <2>1, RootStands DEF SynthInv, RootsInTurn, RootAsFar, Target, IsFunctions
  <2>4. QED
    BY <2>2, <2>3 DEF SynthInv
<1>3. QED
  BY <1>1, <1>2

\* The inductive invariant of the directory: what is there is of one build wherever a
\* synth ends, and a synth that goes on has left no root half done.
THEOREM SynthInvariance == SynthSpec => []SynthInv
BY SynthStarts, SynthSteps, PTL DEF SynthSpec

\* Whatever earlier synths, of any props, left in the directory and wherever they ended,
\* for any packages with binaries, and whatever another app's synth downloads meanwhile:
\* a synth that ends well leaves roots of one build and of what it was asked for, with
\* whole binaries of their platform alone, the chunks patched once, no other build's
\* init cache, and named whoever has no binary for it (NextjsBuild).
THEOREM DoneStaysAsAsked == SynthSpec => []DoneIsAsAsked
<1>1. ASSUME SynthInv PROVE DoneIsAsAsked
  <2> SUFFICES ASSUME step = "done" PROVE DoneIsAsAsked
    BY DEF DoneIsAsAsked
  <2>1. manifest.build # NotBuilt /\ manifest.split = props.split /\ todo = {}
        /\ cache \in {NotBuilt, manifest.build} /\ manifest.build = builds
    BY <1>1 DEF SynthInv, ChunksPatched, RootsInTurn, RootAsFar, OneBuild, StagingSteps
  <2>2. \A g \in Staged(props.split) :
            roots[g].build = manifest.build /\ RuntimeOf(g) /\ SharpOf(g) /\ WarnedOf(g)
    BY <1>1, <2>1 DEF SynthInv, OneBuild, RootsInTurn, RootAsFar, StagingSteps
  <2>3. \A c \in ChunkNames :
            /\ chunks[c].build = manifest.build
            /\ props.type = "GLOBAL_FUNCTIONS" => chunks[c].patches = <<props.patch>>
    BY <1>1, <2>1 DEF SynthInv, OneBuild, ChunksPatched, StagingSteps
  <2>4. QED
    BY <2>1, <2>2, <2>3 DEF DoneIsAsAsked, RuntimeOf, SharpOf, WarnedOf
<1>2. QED
  BY <1>1, SynthInvariance, PTL
================================================================================
