-------------------------- MODULE IncrementalCacheProofs ------------------------
(***************************************************************************)
(* That what is answered as fresh shows every revalidation its instance    *)
(* had heard of, and that the edge is not left with a page from before a   *)
(* revalidation, proved for any instances, deployments, revalidations and  *)
(* renders, and for any number of retries.                                 *)
(***************************************************************************)
EXTENDS IncrementalCache, TLAPS

\* An entry is judged by when it was stored, which is when its render ended: without a
\* revalidation in between, that is what it shows.
Right(entry) ==
    /\ entry \in Entry \cup {None}
    /\ ~entry.blurred /\ ~entry.short => entry.gen = entry.modified

Copies == Right(store) /\ memory \in [Instances -> Entry \cup {None}]
          /\ \A i \in Instances : Right(memory[i])

Typed ==
    /\ setup \in Setups /\ unmapped \in BOOLEAN /\ rows \in BOOLEAN
    /\ revs \in 0 .. MaxRevalidations /\ renders \in 0 .. MaxRenders
    /\ soft \subseteq 1 .. revs /\ recorded \subseteq 1 .. revs
    /\ heard \in [Instances -> SUBSET (1 .. revs)]
    /\ waiting \in [Instances -> BOOLEAN]
    /\ edge \subseteq 0 .. MaxRevalidations

\* The revalidations under way are ones that were begun.
Revalidations ==
    /\ reval \in [Instances -> Revalidation]
    /\ \A i \in Instances : reval[i].phase # "idle" => reval[i].number \in 1 .. revs

Served(j) == j.phase = "answered" /\ j.verdict \in {"fresh", "stale"}

\* A get or a set has the copy its next step is about, and a render comes after
\* revalidations that were begun.
HasCopy(j) ==
    /\ Right(j.copy)
    /\ j.phase = "rendering" => j.gen <= revs
    /\ j.phase \in {"asking", "asked", "putting"} \/ Served(j) => j.copy \in Entry

\* What is asked is heard, and what is answered as fresh shows it.
ShowsAsked(i, j) ==
    /\ j.phase = "asked" => j.asked \subseteq heard[i]
    /\ j.phase = "answered" /\ j.verdict = "fresh" /\ ~j.copy.blurred /\ ~j.copy.short
          => \A r \in j.asked : r <= j.copy.gen

\* A revalidation recorded since the log was asked has its invalidation still to come,
\* unless that crossed the answer, or the answer of the log was behind already.
ToBeDropped(r) == \E k \in Instances : reval[k].phase \in {"querying", "dropping"} /\ reval[k].number = r
Heeds(j) ==
    setup.cdn /\ ~j.crossed /\ ~j.behind /\ (j.phase = "asked" \/ Served(j))
        => \A r \in recorded : r \in j.asked \/ ToBeDropped(r)

\* A stale answer leaves its key in softRevalidatedKeys until it is rendered again.
StaleIsNoted(i, j) == AtEdge /\ j.phase = "answered" /\ j.verdict = "stale" => waiting[i]

JobOK(i, j) == j \in Job /\ HasCopy(j) /\ ShowsAsked(i, j) /\ Heeds(j) /\ StaleIsNoted(i, j)
Jobs == job \in [Instances -> Job] /\ \A i \in Instances : JobOK(i, job[i])

\* Without a row that names the key, nothing of it was ever stored or served: it is
\* being stored, or the row was lost.
Storing == {"putting", "dropping", "mapping"}
Nothing == /\ store = None /\ edge = {}
           /\ \A i \in Instances : memory[i] = None /\ job[i].copy = None
Mapped ==
    /\ setup.cdn /\ ~setup.seeded /\ ~unmapped /\ ~rows
    /\ \A i \in Instances : job[i].phase \notin Storing
    => Nothing

IInv == Typed /\ Copies /\ Revalidations /\ Jobs /\ Mapped /\ StaleAtEdgeIsAwaited
--------------------------------------------------------------------------------
(* Records. *)

LEMMA Bounds == MaxRevalidations \in Nat /\ MaxRenders \in Nat /\ Retries \in Nat
  BY BoundsAssumption

LEMMA NoneIs == Right(None) /\ None \notin Entry /\ None.gen = -1
  BY Bounds DEF Right, None, Entry

LEMMA IdleIs ==
    /\ Idle \in Job /\ Idle.phase = "idle" /\ Idle.copy = None /\ Idle.crossed = FALSE
    /\ Idle.from = "memory" /\ Idle.asked = {} /\ Idle.gen = 0 /\ Idle.attempt = 0
    /\ Idle.verdict = "fresh"
  BY Bounds DEF Idle, Job

LEMMA FieldsAre ==
    ASSUME NEW j \in Job
    PROVE  /\ j.copy \in Entry \cup {None} /\ j.asked \subseteq 1 .. MaxRevalidations
           /\ j.gen \in 0 .. MaxRevalidations /\ j.crossed \in BOOLEAN /\ j.attempt \in 0 .. Retries
           /\ j.behind \in BOOLEAN
           /\ j.verdict \in {"fresh", "stale", "expired", "missed"} /\ j.from \in {"memory", "s3"}
  BY DEF Job

LEMMA HandedIs ==
    ASSUME NEW e \in Entry, Right(e), NEW verdict
    PROVE  /\ Handed(e, verdict) \in Entry /\ Right(Handed(e, verdict))
           /\ Handed(e, verdict).gen = e.gen /\ Handed(e, verdict).modified = e.modified
           /\ Handed(e, verdict).blurred = e.blurred /\ Handed(e, verdict).short = e.short
<1>1. (e.handed \/ Noted(verdict)) \in BOOLEAN
  BY DEF Noted, Entry
<1>2. \A h \in BOOLEAN :
        LET f == [e EXCEPT !.handed = h]
        IN  /\ f \in Entry /\ f.gen = e.gen /\ f.modified = e.modified
            /\ f.blurred = e.blurred /\ f.short = e.short
  BY DEF Entry
<1>3. QED
  BY <1>1, <1>2 DEF Handed, Right

LEMMA UnhandedIs ==
    ASSUME NEW e \in Entry \cup {None}, Right(e)
    PROVE  /\ [e EXCEPT !.handed = FALSE] \in Entry \cup {None} /\ Right([e EXCEPT !.handed = FALSE])
           /\ e \in Entry => [e EXCEPT !.handed = FALSE] \in Entry
           /\ e = None => [e EXCEPT !.handed = FALSE] = None
<1>1. CASE e \in Entry
  BY <1>1, NoneIs DEF Entry, Right
<1>2. CASE e = None
  <2> DEFINE R == [gen : {-1}, blurred : {FALSE}, modified : {-1}, short : {FALSE}, handed : {FALSE}]
  <2>1. None \in R
    BY DEF None
  <2>2. \A f \in R : [f EXCEPT !.handed = FALSE] = f
    OBVIOUS
  <2>3. [None EXCEPT !.handed = FALSE] = None
    BY <2>1, <2>2
  <2>4. QED
    BY <1>2, <2>3, NoneIs
<1>3. QED
  BY <1>1, <1>2
--------------------------------------------------------------------------------
(* The initial states. *)

LEMMA StartHolds == Init => IInv
<1> SUFFICES ASSUME Init PROVE IInv
  OBVIOUS
<1>1. Typed
  <2>1. setup \in Setups /\ unmapped = FALSE /\ rows = FALSE /\ revs = 0 /\ renders = 0
        /\ soft = {} /\ recorded = {} /\ edge = {}
    BY DEF Init
  <2>2. heard \in [Instances -> SUBSET (1 .. revs)] /\ waiting \in [Instances -> BOOLEAN]
    BY DEF Init
  <2>3. 0 \in 0 .. MaxRevalidations /\ 0 \in 0 .. MaxRenders
    BY Bounds
  <2>4. QED
    BY <2>1, <2>2, <2>3 DEF Typed
<1>2. Right(Seeded)
  <2> DEFINE R == [gen : {-1}, blurred : {FALSE}, modified : {-1}, short : {FALSE}, handed : {FALSE}]
  <2>1. None \in R
    BY DEF None
  <2>2. \A f \in R : [f EXCEPT !.gen = 0, !.modified = 0] \in
                        [gen : {0}, blurred : {FALSE}, modified : {0}, short : {FALSE}, handed : {FALSE}]
    OBVIOUS
  <2>3. Seeded \in [gen : {0}, blurred : {FALSE}, modified : {0}, short : {FALSE}, handed : {FALSE}]
    BY <2>1, <2>2 DEF Seeded
  <2>4. 0 \in 0 .. MaxRevalidations
    BY Bounds
  <2>5. Seeded \in Entry
    BY <2>3, <2>4 DEF Entry
  <2>6. Seeded.gen = Seeded.modified
    BY <2>3
  <2>7. QED
    BY <2>5, <2>6 DEF Right
<1>3. Copies
  BY <1>2, NoneIs DEF Init, Copies, Right
<1>4. Revalidations
  <2>1. NoRevalidation \in Revalidation /\ NoRevalidation.phase = "idle"
    BY Bounds DEF NoRevalidation, Revalidation
  <2>2. QED
    BY <2>1 DEF Init, Revalidations
<1>5. Jobs
  <2>1. \A i \in Instances : JobOK(i, Idle)
    BY IdleIs, NoneIs DEF JobOK, HasCopy, Served, ShowsAsked, Heeds, StaleIsNoted
  <2>2. QED
    BY <2>1, IdleIs DEF Init, Jobs
<1>6. Mapped
  <2>1. ~setup.seeded => Nothing
    BY IdleIs DEF Init, Nothing
  <2>2. QED
    BY <2>1 DEF Mapped
<1>7. StaleAtEdgeIsAwaited
  BY DEF Init, StaleAtEdgeIsAwaited
<1>8. QED
  BY <1>1, <1>3, <1>4, <1>5, <1>6, <1>7 DEF IInv
--------------------------------------------------------------------------------
(* The steps of an instance's get or set. *)

\* What becomes of its job, and what the step leaves alone.
Owns(i, new) ==
    /\ job' = [job EXCEPT ![i] = new] /\ JobOK(i, new)'
    /\ UNCHANGED <<setup, revs, recorded, reval>>
    /\ \A k \in Instances : heard[k] \subseteq heard'[k]
    /\ \A k \in Instances \ {i} : waiting'[k] = waiting[k]

\* What it may do to the edge and to the key's rows.
Accounts(i, new) ==
    /\ unmapped => unmapped'
    /\ \A shown \in edge' : \/ shown \in edge \/ waiting'[i]
                            \/ \A r \in recorded : shown < r => ToBeDropped(r)
    /\ waiting[i] => waiting'[i] \/ new.phase = "dropping" \/ edge' = {}
    /\ job[i].phase = "dropping" => new.phase = "dropping" \/ edge' = {}
    /\ rows => rows' \/ unmapped'
    /\ setup.cdn /\ job[i].phase \in Storing => new.phase \in Storing \/ rows' \/ unmapped'
    /\ Nothing => \/ new.phase \in Storing
                  \/ /\ store' = None /\ edge' = {} /\ new.copy = None
                     /\ \A k \in Instances : memory'[k] = None

LEMMA OwnJobs ==
    ASSUME IInv, NEW i \in Instances, NEW new, Owns(i, new)
    PROVE  /\ Jobs' /\ job'[i] = new /\ \A k \in Instances \ {i} : job'[k] = job[k]
<1>1. job \in [Instances -> Job] /\ \A k \in Instances : JobOK(k, job[k])
  BY DEF IInv, Jobs
<1>2. new \in Job
  BY DEF Owns, JobOK
<1>3. job' \in [Instances -> Job] /\ job'[i] = new /\ \A k \in Instances \ {i} : job'[k] = job[k]
  BY <1>1, <1>2 DEF Owns
<1>4. ASSUME NEW k \in Instances \ {i} PROVE JobOK(k, job[k])'
  <2>1. JobOK(k, job[k]) /\ job'[k] = job[k]
    BY <1>1, <1>3
  <2>2. UNCHANGED <<setup, revs, recorded, reval>> /\ heard[k] \subseteq heard'[k] /\ waiting'[k] = waiting[k]
    BY DEF Owns
  <2>3. HasCopy(job[k])' /\ ShowsAsked(k, job[k])'
    BY <2>1, <2>2 DEF JobOK, HasCopy, Served, ShowsAsked
  <2>4. Heeds(job[k])' /\ StaleIsNoted(k, job[k])'
    BY <2>1, <2>2 DEF JobOK, Heeds, Served, ToBeDropped, StaleIsNoted, AtEdge
  <2>5. QED
    BY <1>3, <2>1, <2>3, <2>4 DEF JobOK
<1>5. JobOK(i, job[i])'
  <2>1. JobOK(i, new)'
    BY DEF Owns
  <2>2. QED
    BY <1>3, <2>1 DEF JobOK, HasCopy, Served, ShowsAsked, Heeds, StaleIsNoted
<1>6. QED
  BY <1>3, <1>4, <1>5 DEF Jobs

LEMMA OwnStepHolds ==
    ASSUME IInv, NEW i \in Instances, NEW new, Owns(i, new), Accounts(i, new), Typed', Copies'
    PROVE  IInv'
<1>1. Jobs' /\ job'[i] = new /\ \A k \in Instances \ {i} : job'[k] = job[k]
  BY OwnJobs
<1>2. UNCHANGED <<setup, revs, recorded, reval>> /\ \A k \in Instances \ {i} : waiting'[k] = waiting[k]
  BY DEF Owns
<1>3. Revalidations'
  BY <1>2 DEF IInv, Revalidations
<1>4. Mapped'
  <2>1. SUFFICES ASSUME setup.cdn, ~setup.seeded, ~unmapped', ~rows',
                        \A k \in Instances : job'[k].phase \notin Storing
                 PROVE  Nothing'
    BY <1>2 DEF Mapped
  <2>2. ~unmapped /\ ~rows /\ new.phase \notin Storing /\ job[i].phase \notin Storing
    BY <1>1, <2>1 DEF Accounts
  <2>3. \A k \in Instances : job[k].phase \notin Storing
    BY <1>1, <2>1, <2>2
  <2>4. Nothing
    BY <2>1, <2>2, <2>3 DEF IInv, Mapped
  <2>5. QED
    BY <1>1, <2>2, <2>4 DEF Accounts, Nothing
<1>5. StaleAtEdgeIsAwaited'
  <2>1. SUFFICES ASSUME AtEdge, ~unmapped', NEW shown \in edge', NEW r \in recorded, shown < r
                 PROVE  \E k \in Instances : \/ reval[k].phase # "idle" /\ shown < reval[k].number
                                             \/ waiting'[k]
                                             \/ job'[k].phase = "dropping"
    BY <1>2 DEF StaleAtEdgeIsAwaited, AtEdge
  <2>2. CASE waiting'[i]
    BY <2>2
  <2>3. CASE ToBeDropped(r)
    BY <2>1, <2>3 DEF ToBeDropped
  <2>4. CASE shown \in edge
    <3>1. ~unmapped
      BY <2>1 DEF Accounts
    <3>2. PICK k \in Instances : \/ reval[k].phase # "idle" /\ shown < reval[k].number
                                 \/ waiting[k]
                                 \/ job[k].phase = "dropping"
      BY <2>1, <2>4, <3>1 DEF IInv, StaleAtEdgeIsAwaited
    <3>3. CASE k = i
      BY <1>1, <2>1, <3>2, <3>3 DEF Accounts
    <3>4. CASE k # i
      BY <1>1, <1>2, <3>2, <3>4
    <3>5. QED
      BY <3>3, <3>4
  <2>5. QED
    BY <2>1, <2>2, <2>3, <2>4 DEF Accounts
<1>6. QED
  BY <1>1, <1>3, <1>4, <1>5 DEF IInv
\* A job that neither judges, answers nor puts anything.
LEMMA QuietIsOK ==
    ASSUME NEW i, NEW new \in Job, Right(new.copy),
           new.phase \notin {"asking", "asked", "answered", "putting"},
           new.phase = "rendering" => new.gen <= revs'
    PROVE  JobOK(i, new)'
  BY DEF JobOK, HasCopy, Served, ShowsAsked, Heeds, StaleIsNoted

\* What an instance's steps are proved from.
LEMMA CopiesAre ==
    ASSUME IInv, NEW i \in Instances
    PROVE  /\ memory[i] \in Entry \cup {None} /\ Right(memory[i]) /\ Right(job[i].copy)
           /\ store \in Entry \cup {None} /\ Right(store) /\ job[i] \in Job
           /\ job[i].copy \in Entry \cup {None}
           /\ (job[i].phase \in {"asking", "asked", "putting"} => job[i].copy \in Entry)
           /\ (Served(job[i]) => job[i].copy \in Entry)
           /\ Nothing => memory[i] = None /\ store = None /\ job[i].copy = None
           /\ (job[i].phase = "rendering" => job[i].gen <= revs)
           /\ revs \in 0 .. MaxRevalidations
  BY DEF IInv, Typed, Copies, Right, Jobs, JobOK, HasCopy, Nothing

LEMMA MissHolds ==
    ASSUME IInv, NEW i \in Instances, MissMemory(i)
    PROVE  IInv'
<1> DEFINE new == [Idle EXCEPT !.phase = "reading"]
<1>1. new \in Job /\ new.phase = "reading" /\ new.copy = None
  BY IdleIs DEF Job
<1>2. /\ job' = [job EXCEPT ![i] = new] /\ job[i].phase = "idle"
      /\ UNCHANGED <<setup, unmapped, renders, revs, soft, recorded, heard, store, rows,
                     memory, waiting, edge, reval>>
  BY DEF MissMemory, Step, settings, tagVars, stored
<1> HIDE DEF new
<1>3. Owns(i, new)
  BY <1>1, <1>2, NoneIs, QuietIsOK DEF Owns
<1>4. Accounts(i, new)
  BY <1>1, <1>2 DEF Accounts, Nothing, Storing
<1>5. Typed' /\ Copies'
  BY <1>2 DEF IInv, Typed, Copies
<1>6. QED
  BY <1>3, <1>4, <1>5, OwnStepHolds

LEMMA ReadHolds ==
    ASSUME IInv, NEW i \in Instances, ReadS3(i)
    PROVE  IInv'
<1>1. job[i].phase = "reading"
      /\ UNCHANGED <<setup, unmapped, renders, revs, soft, recorded, heard, store, rows,
                     memory, waiting, edge, reval>>
  BY DEF ReadS3, settings, tagVars, stored
<1>2. PICK new :
        /\ job' = [job EXCEPT ![i] = new]
        /\ \/ /\ store # None
              /\ new = [job[i] EXCEPT !.phase = "asking", !.from = "s3",
                                      !.copy = [store EXCEPT !.handed = FALSE]]
           \/ new = [job[i] EXCEPT !.phase = "answered", !.verdict = "missed", !.copy = None]
  BY DEF ReadS3, Step
<1>3. job[i] \in Job /\ store \in Entry \cup {None} /\ Right(store)
  BY CopiesAre
<1>4. Typed' /\ Copies'
  BY <1>1 DEF IInv, Typed, Copies
<1>5. CASE store # None /\ new = [job[i] EXCEPT !.phase = "asking", !.from = "s3",
                                  !.copy = [store EXCEPT !.handed = FALSE]]
  <2> DEFINE copy == [store EXCEPT !.handed = FALSE]
  <2>1. copy \in Entry /\ Right(copy)
    BY <1>3, <1>5, UnhandedIs
  <2> HIDE DEF copy
  <2>2. new \in Job /\ new.phase = "asking" /\ new.copy = copy
    BY <1>3, <1>5, <2>1 DEF Job, copy
  <2>3. JobOK(i, new)'
    BY <2>1, <2>2 DEF JobOK, HasCopy, Served, ShowsAsked, Heeds, StaleIsNoted
  <2>4. Owns(i, new)
    BY <1>1, <1>2, <2>3 DEF Owns
  <2>5. Accounts(i, new)
    BY <1>1, <1>5, <2>2 DEF Accounts, Nothing, Storing
  <2>6. QED
    BY <1>4, <2>4, <2>5, OwnStepHolds
<1>6. CASE new = [job[i] EXCEPT !.phase = "answered", !.verdict = "missed", !.copy = None]
  <2>1. new \in Job /\ new.phase = "answered" /\ new.verdict = "missed" /\ new.copy = None
    BY <1>3, <1>6 DEF Job
  <2>2. JobOK(i, new)'
    BY <2>1, NoneIs DEF JobOK, HasCopy, Served, ShowsAsked, Heeds, StaleIsNoted
  <2>3. Owns(i, new)
    BY <1>1, <1>2, <2>2 DEF Owns
  <2>4. Accounts(i, new)
    BY <1>1, <2>1 DEF Accounts, Nothing, Storing
  <2>5. QED
    BY <1>4, <2>3, <2>4, OwnStepHolds
<1>7. QED
  BY <1>2, <1>5, <1>6

\* The question of a job `asking`, of a copy it has.
LEMMA AskHolds ==
    ASSUME IInv, NEW i \in Instances, NEW asking \in Job, AskTags(i, asking),
           asking.copy \in Entry, Right(asking.copy), Nothing => asking.copy = None,
           job[i].phase \in {"idle", "asking"},
           UNCHANGED <<setup, unmapped, renders, revs, soft, recorded, store, rows,
                       memory, waiting, edge, reval>>
    PROVE  IInv'
<1>1. heard \in [Instances -> SUBSET (1 .. revs)] /\ recorded \subseteq 1 .. revs
      /\ revs \in 0 .. MaxRevalidations
  BY DEF IInv, Typed
<1>2. PICK answer \in SUBSET recorded :
        /\ heard' = [heard EXCEPT ![i] = heard[i] \cup answer]
        /\ job' = [job EXCEPT ![i] =
              [asking EXCEPT !.phase = "asked", !.asked = heard[i] \cup answer,
                             !.behind = ~(recorded \subseteq heard[i] \cup answer)]]
  BY DEF AskTags, Step
<1>3. /\ heard' \in [Instances -> SUBSET (1 .. revs)] /\ heard'[i] = heard[i] \cup answer
      /\ \A k \in Instances : heard[k] \subseteq heard'[k]
      /\ heard'[i] \subseteq 1 .. MaxRevalidations
  BY <1>1, <1>2, Bounds
<1>4. PICK asked, behind :
        /\ asked = heard[i] \cup answer
        /\ behind = ~(recorded \subseteq heard[i] \cup answer)
  OBVIOUS
<1>5. PICK new :
        /\ job' = [job EXCEPT ![i] = new]
        /\ new = [asking EXCEPT !.phase = "asked", !.asked = asked, !.behind = behind]
  BY <1>2, <1>4
<1>6. asked \subseteq 1 .. MaxRevalidations /\ behind \in BOOLEAN
  BY <1>3, <1>4, FieldsAre
<1>7. /\ new \in Job /\ new.phase = "asked" /\ new.asked = asked /\ new.behind = behind
      /\ new.copy = asking.copy
  BY <1>5, <1>6 DEF Job
<1>8. JobOK(i, new)'
  <2>1. HasCopy(new)' /\ ShowsAsked(i, new)' /\ StaleIsNoted(i, new)'
    BY <1>3, <1>4, <1>7 DEF HasCopy, Served, ShowsAsked, StaleIsNoted
  <2>2. Heeds(new)'
    BY <1>4, <1>7 DEF Heeds
  <2>3. QED
    BY <1>7, <2>1, <2>2 DEF JobOK
<1>9. Owns(i, new)
  BY <1>3, <1>5, <1>8 DEF Owns
<1>10. Accounts(i, new)
  BY <1>7 DEF Accounts, Nothing, Storing
<1>11. Typed' /\ Copies'
  BY <1>3 DEF IInv, Typed, Copies
<1>12. QED
  BY <1>9, <1>10, <1>11, OwnStepHolds

LEMMA AsksHold ==
    ASSUME IInv, NEW i \in Instances, HitMemory(i) \/ CheckS3(i)
    PROVE  IInv'
<1>1. UNCHANGED <<setup, unmapped, renders, revs, soft, recorded, store, rows,
                  memory, waiting, edge, reval>>
  BY DEF HitMemory, CheckS3, settings, stored
<1>2. CASE HitMemory(i)
  <2>1. /\ memory[i] \in Entry /\ Right(memory[i]) /\ (Nothing => memory[i] = None)
    BY <1>2, CopiesAre DEF HitMemory
  <2>2. PICK asking : asking = [Idle EXCEPT !.copy = memory[i]]
    OBVIOUS
  <2>3. asking \in Job /\ asking.copy = memory[i]
    BY <2>1, <2>2, IdleIs DEF Job
  <2>4. AskTags(i, asking) /\ job[i].phase = "idle"
    BY <1>2, <2>2 DEF HitMemory
  <2>5. QED
    BY <1>1, <2>1, <2>3, <2>4, AskHolds
<1>3. CASE CheckS3(i)
  <2>1. PICK asking : asking = job[i]
    OBVIOUS
  <2>2. AskTags(i, asking) /\ job[i].phase = "asking"
    BY <1>3, <2>1 DEF CheckS3
  <2>3. asking \in Job /\ asking.copy \in Entry /\ Right(asking.copy) /\ (Nothing => asking.copy = None)
    BY <2>1, <2>2, CopiesAre
  <2>4. QED
    BY <1>1, <2>2, <2>3, AskHolds
<1>4. QED
  BY <1>2, <1>3
LEMMA DropHolds ==
    ASSUME IInv, NEW i \in Instances, DropMemory(i)
    PROVE  IInv'
<1>1. /\ memory' = [memory EXCEPT ![i] = None]
      /\ UNCHANGED <<setup, unmapped, renders, revs, soft, recorded, heard, store, rows,
                     waiting, edge, job, reval>>
  BY DEF DropMemory, settings, tagVars, stored
<1>2. Typed' /\ Copies'
  BY <1>1, NoneIs DEF IInv, Typed, Copies
<1>3. Revalidations' /\ Jobs'
  BY <1>1 DEF IInv, Revalidations, Jobs, JobOK, HasCopy, ShowsAsked, Heeds, ToBeDropped, StaleIsNoted,
              AtEdge
<1>4. Mapped'
  BY <1>1 DEF IInv, Mapped, Nothing, Copies
<1>5. StaleAtEdgeIsAwaited'
  BY <1>1 DEF IInv, StaleAtEdgeIsAwaited, AtEdge
<1>6. QED
  BY <1>2, <1>3, <1>4, <1>5 DEF IInv

LEMMA StateIs ==
    ASSUME NEW i, NEW entry
    PROVE  /\ State(i, entry) \in {"fresh", "stale", "expired"}
           /\ State(i, entry) = "fresh" => \A r \in heard[i] : ~(r > entry.modified)
  BY DEF State

\* An answer that is served.
Judged(i, verdict, copy, new) ==
    /\ job[i].phase = "asked" /\ verdict = State(i, job[i].copy) /\ verdict # "expired"
    /\ copy = Handed(job[i].copy, verdict) /\ NoteSoftRevalidated(i, verdict)
    /\ new = [job[i] EXCEPT !.phase = "answered", !.verdict = verdict, !.copy = copy]
    /\ UNCHANGED <<setup, revs, recorded, heard, reval>>

LEMMA JudgedIsOK ==
    ASSUME IInv, NEW i \in Instances, NEW verdict, NEW copy, NEW new, Judged(i, verdict, copy, new)
    PROVE  /\ JobOK(i, new)' /\ new.phase = "answered" /\ new.copy = copy
           /\ copy \in Entry /\ Right(copy)
<1>0. /\ job[i].phase = "asked" /\ verdict = State(i, job[i].copy) /\ verdict # "expired"
      /\ copy = Handed(job[i].copy, verdict) /\ NoteSoftRevalidated(i, verdict)
      /\ new = [job[i] EXCEPT !.phase = "answered", !.verdict = verdict, !.copy = copy]
      /\ UNCHANGED <<setup, revs, recorded, heard, reval>>
  BY DEF Judged
<1>1. job[i] \in Job /\ job[i].copy \in Entry /\ Right(job[i].copy) /\ JobOK(i, job[i])
      /\ revs \in 0 .. MaxRevalidations /\ heard[i] \subseteq 1 .. revs
      /\ waiting \in [Instances -> BOOLEAN]
  BY <1>0, CopiesAre DEF IInv, Jobs, Typed
<1>2. /\ copy \in Entry /\ Right(copy) /\ copy.gen = job[i].copy.gen
      /\ copy.modified = job[i].copy.modified /\ copy.blurred = job[i].copy.blurred
      /\ copy.short = job[i].copy.short
  BY <1>0, <1>1, HandedIs
<1>3. verdict \in {"fresh", "stale"}
      /\ (verdict = "fresh" => \A r \in heard[i] : ~(r > job[i].copy.modified))
  BY <1>0, StateIs
<1>4. /\ new \in Job /\ new.phase = "answered" /\ new.verdict = verdict /\ new.copy = copy
      /\ new.asked = job[i].asked /\ new.crossed = job[i].crossed
      /\ new.behind = job[i].behind
  BY <1>0, <1>1, <1>2, <1>3 DEF Job
<1>5. HasCopy(new)'
  BY <1>2, <1>4 DEF HasCopy
<1>6. ShowsAsked(i, new)'
  <2>1. ASSUME verdict = "fresh", ~copy.blurred, ~copy.short, NEW r \in job[i].asked
        PROVE  r <= copy.gen
    <3>1. r \in heard[i] /\ r \in Int /\ ~(r > copy.modified)
      BY <1>0, <1>1, <1>2, <1>3, <2>1 DEF JobOK, ShowsAsked
    <3>2. copy.gen = copy.modified /\ copy.gen \in Int
      BY <1>2, <2>1, Bounds DEF Right, Entry
    <3>3. QED
      BY <3>1, <3>2
  <2>2. QED
    BY <1>0, <1>4, <2>1 DEF ShowsAsked
<1>7. Heeds(new)'
  <2>1. \A r : ToBeDropped(r)' <=> ToBeDropped(r)
    BY <1>0 DEF ToBeDropped
  <2>2. QED
    BY <1>0, <1>1, <1>4, <2>1 DEF JobOK, Heeds
<1>8. StaleIsNoted(i, new)'
  BY <1>0, <1>1, <1>4 DEF StaleIsNoted, NoteSoftRevalidated, Noted, AtEdge
<1>9. QED
  BY <1>2, <1>4, <1>5, <1>6, <1>7, <1>8 DEF JobOK

LEMMA NotedGrows ==
    ASSUME IInv, NEW i \in Instances, NEW verdict, NoteSoftRevalidated(i, verdict)
    PROVE  /\ waiting' \in [Instances -> BOOLEAN] /\ (waiting[i] => waiting'[i])
           /\ \A k \in Instances \ {i} : waiting'[k] = waiting[k]
<1>1. waiting \in [Instances -> BOOLEAN] /\ Noted(verdict) \in BOOLEAN
  BY DEF IInv, Typed, Noted
<1>2. QED
  BY <1>1 DEF NoteSoftRevalidated

\* A judgement that is not an answer: the entry is dropped, or is to be rendered again.
LEMMA ExpiredHolds ==
    ASSUME IInv, NEW i \in Instances, NEW verdict, NoteSoftRevalidated(i, verdict), NEW new,
           job' = [job EXCEPT ![i] = new], JobOK(i, new)', new.phase \in {"reading", "answered"},
           new.copy = None \/ new.copy = job[i].copy, job[i].phase = "asked",
           \/ UNCHANGED memory
           \/ memory' = [memory EXCEPT ![i] = None],
           UNCHANGED <<setup, unmapped, renders, revs, soft, recorded, heard, store, rows,
                       edge, reval>>
    PROVE  IInv'
<1>1. /\ waiting' \in [Instances -> BOOLEAN] /\ (waiting[i] => waiting'[i])
      /\ \A k \in Instances \ {i} : waiting'[k] = waiting[k]
  BY NotedGrows
<1>2. Owns(i, new)
  BY <1>1 DEF Owns
<1>3. Typed' /\ Copies' /\ (\A k \in Instances : memory[k] = None => memory'[k] = None)
  BY <1>1, NoneIs DEF IInv, Typed, Copies
<1>4. Accounts(i, new)
  BY <1>1, <1>3 DEF Accounts, Nothing, Storing
<1>5. QED
  BY <1>2, <1>3, <1>4, OwnStepHolds

LEMMA JudgeMemoryHolds ==
    ASSUME IInv, NEW i \in Instances, JudgeMemory(i)
    PROVE  IInv'
<1>1. PICK verdict, copy : verdict = State(i, job[i].copy) /\ copy = Handed(job[i].copy, verdict)
  OBVIOUS
<1>2. /\ job[i].phase = "asked" /\ NoteSoftRevalidated(i, verdict)
      /\ UNCHANGED <<setup, unmapped, renders, revs, soft, recorded, heard, store, rows, edge, reval>>
  BY <1>1 DEF JudgeMemory, settings, tagVars, stored
<1>3. /\ waiting' \in [Instances -> BOOLEAN] /\ (waiting[i] => waiting'[i])
      /\ \A k \in Instances \ {i} : waiting'[k] = waiting[k]
  BY <1>2, NotedGrows
<1>4. CASE verdict = "expired"
  <2>1. memory' = [memory EXCEPT ![i] = None]
        /\ Step(i, [Idle EXCEPT !.phase = "reading", !.crossed = job[i].crossed])
    BY <1>1, <1>4 DEF JudgeMemory
  <2>2. PICK new :
          /\ new = [Idle EXCEPT !.phase = "reading", !.crossed = job[i].crossed]
          /\ job' = [job EXCEPT ![i] = new]
    BY <2>1 DEF Step
  <2>3. job[i].crossed \in BOOLEAN
    BY CopiesAre, FieldsAre
  <2>4. new \in Job /\ new.phase = "reading" /\ new.copy = None
    BY <2>2, <2>3, IdleIs DEF Job
  <2>5. JobOK(i, new)'
    BY <2>4, NoneIs, QuietIsOK
  <2>6. QED
    BY <1>2, <2>1, <2>2, <2>4, <2>5, ExpiredHolds
<1>5. CASE verdict # "expired"
  <2>1. /\ memory' = [memory EXCEPT ![i] = IF @ = job[i].copy THEN copy ELSE @]
        /\ Step(i, [job[i] EXCEPT !.phase = "answered", !.verdict = verdict, !.copy = copy])
    BY <1>1, <1>5 DEF JudgeMemory
  <2>2. PICK new :
          /\ new = [job[i] EXCEPT !.phase = "answered", !.verdict = verdict, !.copy = copy]
          /\ job' = [job EXCEPT ![i] = new]
    BY <2>1 DEF Step
  <2>3. JobOK(i, new)' /\ new.phase = "answered" /\ copy \in Entry /\ Right(copy)
    <3>1. Judged(i, verdict, copy, new)
      BY <1>1, <1>2, <1>5, <2>2 DEF Judged
    <3>2. QED
      BY <3>1, JudgedIsOK
  <2>4. Owns(i, new)
    BY <1>2, <1>3, <2>2, <2>3 DEF Owns
  <2>5. Typed' /\ Copies'
    BY <1>2, <1>3, <2>1, <2>3 DEF IInv, Typed, Copies
  <2>6. ~Nothing
    BY <1>2, NoneIs, CopiesAre
  <2>7. Accounts(i, new)
    BY <1>2, <1>3, <2>3, <2>6 DEF Accounts, Storing
  <2>8. QED
    BY <2>4, <2>5, <2>7, OwnStepHolds
<1>6. QED
  BY <1>4, <1>5

LEMMA JudgeS3Holds ==
    ASSUME IInv, NEW i \in Instances, JudgeS3(i)
    PROVE  IInv'
<1>1. PICK verdict, copy : verdict = State(i, job[i].copy) /\ copy = Handed(job[i].copy, verdict)
  OBVIOUS
<1>2. /\ job[i].phase = "asked" /\ NoteSoftRevalidated(i, verdict)
      /\ UNCHANGED <<setup, unmapped, renders, revs, soft, recorded, heard, store, rows, edge, reval>>
  BY <1>1 DEF JudgeS3, settings, tagVars, stored
<1>3. /\ waiting' \in [Instances -> BOOLEAN] /\ (waiting[i] => waiting'[i])
      /\ \A k \in Instances \ {i} : waiting'[k] = waiting[k]
  BY <1>2, NotedGrows
<1>4. job[i] \in Job /\ Right(job[i].copy)
  BY CopiesAre
<1>5. CASE verdict = "expired"
  <2>1. UNCHANGED memory
        /\ \/ Step(i, [job[i] EXCEPT !.phase = "answered", !.verdict = "missed", !.copy = None])
           \/ Step(i, [job[i] EXCEPT !.phase = "answered", !.verdict = "expired"])
    BY <1>1, <1>5 DEF JudgeS3
  <2>2. PICK new :
          /\ job' = [job EXCEPT ![i] = new]
          /\ \/ new = [job[i] EXCEPT !.phase = "answered", !.verdict = "missed", !.copy = None]
             \/ new = [job[i] EXCEPT !.phase = "answered", !.verdict = "expired"]
    BY <2>1 DEF Step
  <2>3. /\ new \in Job /\ new.phase = "answered" /\ new.verdict \in {"missed", "expired"}
        /\ new.copy = None \/ new.copy = job[i].copy
    BY <1>4, <2>2 DEF Job
  <2>4. JobOK(i, new)'
    BY <1>4, <2>3, NoneIs DEF JobOK, HasCopy, Served, ShowsAsked, Heeds, StaleIsNoted
  <2>5. QED
    BY <1>2, <2>1, <2>2, <2>3, <2>4, ExpiredHolds
<1>6. CASE verdict # "expired"
  <2>1. /\ memory' = [memory EXCEPT ![i] = copy]
        /\ Step(i, [job[i] EXCEPT !.phase = "answered", !.verdict = verdict, !.copy = copy])
    BY <1>1, <1>6 DEF JudgeS3, Promoted
  <2>2. PICK new :
          /\ new = [job[i] EXCEPT !.phase = "answered", !.verdict = verdict, !.copy = copy]
          /\ job' = [job EXCEPT ![i] = new]
    BY <2>1 DEF Step
  <2>3. JobOK(i, new)' /\ new.phase = "answered" /\ copy \in Entry /\ Right(copy)
    <3>1. Judged(i, verdict, copy, new)
      BY <1>1, <1>2, <1>6, <2>2 DEF Judged
    <3>2. QED
      BY <3>1, JudgedIsOK
  <2>4. Owns(i, new)
    BY <1>2, <1>3, <2>2, <2>3 DEF Owns
  <2>5. Typed' /\ Copies'
    BY <1>2, <1>3, <2>1, <2>3 DEF IInv, Typed, Copies
  <2>6. ~Nothing
    BY <1>2, NoneIs, CopiesAre
  <2>7. Accounts(i, new)
    BY <1>2, <1>3, <2>3, <2>6 DEF Accounts, Storing
  <2>8. QED
    BY <2>4, <2>5, <2>7, OwnStepHolds
<1>7. QED
  BY <1>5, <1>6--------------------------------------------------------------------------------
(* The answer and the render. *)

\* A fresh answer shows what was recorded, or its invalidation is still to come; a stale
\* one waits to be rendered again.
LEMMA DeliverHolds ==
    ASSUME IInv, NEW i \in Instances, Deliver(i)
    PROVE  IInv'
<1>1. /\ job[i].phase = "answered"
      /\ UNCHANGED <<setup, unmapped, revs, soft, recorded, heard, store, rows, memory, waiting, reval>>
  BY DEF Deliver, tagVars, stored
<1>2. PICK new :
        /\ job' = [job EXCEPT ![i] = new]
        /\ \/ new = Idle /\ renders' = renders
           \/ /\ new = [job[i] EXCEPT !.phase = "rendering", !.gen = revs, !.asked = {},
                                      !.behind = FALSE, !.crossed = FALSE]
              /\ renders < MaxRenders /\ renders' = renders + 1
  BY DEF Deliver, Step
<1>3. /\ job[i] \in Job /\ Right(job[i].copy) /\ JobOK(i, job[i]) /\ revs \in 0 .. MaxRevalidations
      /\ (Served(job[i]) => job[i].copy \in Entry) /\ (Nothing => job[i].copy = None)
  BY CopiesAre DEF IInv, Jobs
<1>4. /\ new \in Job /\ Right(new.copy) /\ new.phase \in {"idle", "rendering"}
      /\ (new.phase = "rendering" => new.gen <= revs) /\ (Nothing => new.copy = None)
  <2>1. CASE new = Idle
    BY <2>1, IdleIs, NoneIs
  <2>2. CASE new = [job[i] EXCEPT !.phase = "rendering", !.gen = revs, !.asked = {},
                                  !.behind = FALSE, !.crossed = FALSE]
    <3>1. /\ new \in Job /\ new.copy = job[i].copy /\ new.phase = "rendering" /\ new.gen = revs
      BY <1>3, <2>2 DEF Job
    <3>2. revs <= revs
      BY <1>3, Bounds
    <3>3. QED
      BY <1>3, <3>1, <3>2
  <2>3. QED
    BY <1>2, <2>1, <2>2
<1>5. Owns(i, new)
  <2>1. JobOK(i, new)'
    BY <1>1, <1>4, QuietIsOK
  <2>2. QED
    BY <1>1, <1>2, <2>1 DEF Owns
<1>6. \/ edge' = edge
      \/ /\ Served(job[i]) /\ AtEdge /\ ~job[i].copy.short /\ ~job[i].copy.blurred
            /\ ~job[i].crossed /\ ~job[i].behind
         /\ edge' = edge \cup {job[i].copy.gen}
  BY <1>1 DEF Deliver, Reach, Served
<1>7. ASSUME NEW shown \in edge'
      PROVE  \/ shown \in edge \/ waiting'[i]
             \/ \A r \in recorded : shown < r => ToBeDropped(r)
  <2>1. SUFFICES ASSUME shown \notin edge, ~waiting[i], NEW r \in recorded, shown < r
                 PROVE  ToBeDropped(r)
    BY <1>1
  <2>2. /\ Served(job[i]) /\ AtEdge /\ ~job[i].copy.short /\ ~job[i].copy.blurred
        /\ ~job[i].crossed /\ ~job[i].behind
        /\ shown = job[i].copy.gen
    BY <1>6, <2>1
  <2>3. job[i].verdict # "stale"
    BY <1>1, <1>3, <2>1, <2>2 DEF JobOK, StaleIsNoted
  <2>4. \A q \in job[i].asked : q <= job[i].copy.gen
    BY <1>1, <1>3, <2>2, <2>3 DEF JobOK, ShowsAsked, Served
  <2>5. r \in job[i].asked \/ ToBeDropped(r)
    BY <1>3, <2>1, <2>2 DEF JobOK, Heeds, AtEdge
  <2>6. r \in Int /\ job[i].copy.gen \in Int
    BY <1>3, <2>2, Bounds DEF IInv, Typed, Entry
  <2>7. QED
    BY <2>1, <2>2, <2>4, <2>5, <2>6
<1>8. Nothing => edge' = {}
  BY <1>3, <1>6, NoneIs DEF Nothing
<1>9. Accounts(i, new)
  BY <1>1, <1>4, <1>7, <1>8 DEF Accounts, Nothing, Storing
<1>10. Typed' /\ Copies'
  <2>1. renders' \in 0 .. MaxRenders
    BY <1>2, Bounds DEF IInv, Typed
  <2>2. edge' \subseteq 0 .. MaxRevalidations
    BY <1>3, <1>6 DEF IInv, Typed, Entry
  <2>3. QED
    BY <1>1, <2>1, <2>2 DEF IInv, Typed, Copies
<1>11. QED
  BY <1>5, <1>9, <1>10, OwnStepHolds

\* What is rendered, or written back, is in memory and to be put.
Sets(i, stamped) ==
    /\ job[i].phase = "rendering"
    /\ memory' = [memory EXCEPT ![i] = stamped]
    /\ job' = [job EXCEPT ![i] = [Idle EXCEPT !.phase = "putting", !.copy = stamped]]
    /\ stamped \in Entry /\ Right(stamped)
    /\ edge' \subseteq 0 .. MaxRevalidations
    /\ \A shown \in edge' : shown \in edge \/ \A r \in recorded : ~(shown < r)
    /\ UNCHANGED <<setup, unmapped, renders, revs, soft, recorded, heard, store, rows, waiting, reval>>

LEMMA SetHolds ==
    ASSUME IInv, NEW i \in Instances, NEW stamped, Sets(i, stamped)
    PROVE  IInv'
<1>1. /\ job[i].phase = "rendering" /\ stamped \in Entry /\ Right(stamped)
      /\ memory' = [memory EXCEPT ![i] = stamped] /\ edge' \subseteq 0 .. MaxRevalidations
      /\ \A shown \in edge' : shown \in edge \/ \A r \in recorded : ~(shown < r)
      /\ UNCHANGED <<setup, unmapped, renders, revs, soft, recorded, heard, store, rows, waiting, reval>>
  BY DEF Sets
<1>2. PICK new : /\ job' = [job EXCEPT ![i] = new]
                 /\ new = [Idle EXCEPT !.phase = "putting", !.copy = stamped]
  BY DEF Sets
<1>3. new \in Job /\ new.phase = "putting" /\ new.copy = stamped
  BY <1>1, <1>2, IdleIs DEF Job
<1>4. JobOK(i, new)'
  BY <1>1, <1>3 DEF JobOK, HasCopy, Served, ShowsAsked, Heeds, StaleIsNoted
<1>5. Owns(i, new)
  BY <1>1, <1>2, <1>4 DEF Owns
<1>6. Accounts(i, new)
  BY <1>1, <1>3 DEF Accounts, Storing
<1>7. Typed' /\ Copies'
  BY <1>1 DEF IInv, Typed, Copies
<1>8. QED
  BY <1>5, <1>6, <1>7, OwnStepHolds

\* What a render shows: all that was begun by its end, unless it is blurred.
LEMMA RenderedIs ==
    ASSUME IInv, NEW i \in Instances, job[i].phase = "rendering", NEW r, r = Rendered(i),
           NEW stamped, stamped = [r EXCEPT !.modified = revs]
    PROVE  /\ r.gen = job[i].gen /\ r.gen \in 0 .. MaxRevalidations
           /\ ~r.blurred => r.gen = revs
           /\ stamped \in Entry /\ Right(stamped)
<1> DEFINE R == [gen : {-1}, blurred : {FALSE}, modified : {-1}, short : {FALSE}, handed : {FALSE}]
<1>1. None \in R
  BY DEF None
<1>2. PICK g, b : g = job[i].gen /\ b = (job[i].gen < revs)
  OBVIOUS
<1>3. g \in 0 .. MaxRevalidations /\ b \in BOOLEAN /\ revs \in 0 .. MaxRevalidations /\ g <= revs
  BY <1>2, CopiesAre, FieldsAre
<1>4. r = [None EXCEPT !.gen = g, !.blurred = b]
  BY <1>2 DEF Rendered
<1>5. r \in [gen : {g}, blurred : {b}, modified : {-1}, short : {FALSE}, handed : {FALSE}]
  BY <1>1, <1>4
<1>6. stamped \in [gen : {g}, blurred : {b}, modified : {revs}, short : {FALSE}, handed : {FALSE}]
  BY <1>5
<1>7. stamped \in Entry
  BY <1>3, <1>6 DEF Entry
<1>8. ~b => g = revs
  <2>1. ~b => ~(g < revs)
    BY <1>2, Zenon
  <2>2. QED
    BY <1>3, <2>1, Bounds
<1>9. Right(stamped)
  BY <1>6, <1>7, <1>8 DEF Right
<1>10. QED
  BY <1>2, <1>3, <1>5, <1>7, <1>8, <1>9

LEMMA RenderEndsHolds ==
    ASSUME IInv, NEW i \in Instances, RenderEnds(i)
    PROVE  IInv'
<1>1. /\ job[i].phase = "rendering"
      /\ UNCHANGED <<setup, unmapped, renders, revs, soft, recorded, heard, store, rows, waiting, reval>>
  BY DEF RenderEnds, settings, tagVars, stored
<1>2. PICK r : r = Rendered(i)
  OBVIOUS
<1>3. PICK stamped : stamped = [r EXCEPT !.modified = revs]
  OBVIOUS
<1>4. /\ r.gen \in 0 .. MaxRevalidations /\ (~r.blurred => r.gen = revs)
      /\ stamped \in Entry /\ Right(stamped)
  BY <1>1, <1>2, <1>3, RenderedIs
<1>5. edge' = edge \/ (~r.blurred /\ edge' = edge \cup {r.gen})
  BY <1>2 DEF RenderEnds, Reach
<1>6. ASSUME NEW shown \in edge' PROVE shown \in edge \/ \A q \in recorded : ~(shown < q)
  <2>1. CASE shown \in edge
    BY <2>1
  <2>2. CASE shown \notin edge
    <3>1. shown = revs /\ revs \in Int
      BY <1>4, <1>5, <2>2, Bounds DEF IInv, Typed
    <3>2. \A q \in recorded : q \in Int /\ q <= revs
      BY <3>1 DEF IInv, Typed
    <3>3. QED
      BY <3>1, <3>2
  <2>3. QED
    BY <2>1, <2>2
<1>7. edge' \subseteq 0 .. MaxRevalidations
  BY <1>4, <1>5 DEF IInv, Typed
<1>8. /\ memory' = [memory EXCEPT ![i] = stamped]
      /\ job' = [job EXCEPT ![i] = [Idle EXCEPT !.phase = "putting", !.copy = stamped]]
  BY <1>2, <1>3 DEF RenderEnds, Set, Step
<1>9. Sets(i, stamped)
  BY <1>1, <1>4, <1>6, <1>7, <1>8 DEF Sets
<1>10. QED
  BY <1>9, SetHolds

LEMMA RenderFailsHolds ==
    ASSUME IInv, NEW i \in Instances, RenderFails(i)
    PROVE  IInv'
<1>1. /\ job[i].phase = "rendering"
      /\ UNCHANGED <<setup, unmapped, renders, revs, soft, recorded, heard, store, rows, waiting,
                     edge, reval>>
  BY DEF RenderFails, settings, tagVars, stored
<1>2. /\ job[i].copy \in Entry \cup {None} /\ revs \in 0 .. MaxRevalidations
      /\ edge \subseteq 0 .. MaxRevalidations
  BY CopiesAre DEF IInv, Typed
<1>3. CASE job[i].copy # None
  <2>1. Set(i, [job[i].copy EXCEPT !.short = TRUE])
    BY <1>3 DEF RenderFails
  <2>2. PICK back : back = [job[i].copy EXCEPT !.short = TRUE]
    OBVIOUS
  <2>3. PICK stamped : stamped = [back EXCEPT !.modified = revs]
    OBVIOUS
  <2>4. back \in Entry /\ back.short = TRUE
    BY <1>2, <1>3, <2>2 DEF Entry
  <2>5. stamped \in Entry /\ stamped.short = TRUE
    BY <1>2, <2>3, <2>4 DEF Entry
  <2>6. Right(stamped)
    BY <2>5 DEF Right
  <2>7. /\ memory' = [memory EXCEPT ![i] = stamped]
        /\ job' = [job EXCEPT ![i] = [Idle EXCEPT !.phase = "putting", !.copy = stamped]]
    BY <2>1, <2>2, <2>3 DEF Set, Step
  <2>8. Sets(i, stamped)
    BY <1>1, <1>2, <2>5, <2>6, <2>7 DEF Sets
  <2>9. QED
    BY <2>8, SetHolds
<1>4. CASE job[i].copy = None
  <2>1. job' = [job EXCEPT ![i] = Idle] /\ memory' = memory
    BY <1>4 DEF RenderFails, Step
  <2>2. JobOK(i, Idle)'
    BY IdleIs, NoneIs, QuietIsOK
  <2>3. Owns(i, Idle)
    BY <1>1, <2>1, <2>2 DEF Owns
  <2>4. Accounts(i, Idle)
    BY <1>1, <2>1, IdleIs DEF Accounts, Nothing, Storing
  <2>5. Typed' /\ Copies'
    BY <1>1, <2>1 DEF IInv, Typed, Copies
  <2>6. QED
    BY <2>3, <2>4, <2>5, OwnStepHolds
<1>5. QED
  BY <1>3, <1>4

LEMMA RenderNothingHolds ==
    ASSUME IInv, NEW i \in Instances, RenderNothing(i)
    PROVE  IInv'
<1>1. /\ job[i].phase = "rendering" /\ edge' = {} /\ memory' = [memory EXCEPT ![i] = None]
      /\ waiting' = [waiting EXCEPT ![i] = FALSE]
      /\ UNCHANGED <<setup, unmapped, renders, revs, soft, recorded, heard, store, rows, reval>>
  BY DEF RenderNothing, LeftAtEdge, settings, tagVars, stored
<1>2. PICK new : /\ job' = [job EXCEPT ![i] = new] /\ new = [Idle EXCEPT !.phase = "tagging"]
  BY DEF RenderNothing, Step
<1>3. new \in Job /\ new.phase = "tagging" /\ new.copy = None
  BY <1>2, IdleIs DEF Job
<1>4. JobOK(i, new)'
  BY <1>3, NoneIs, QuietIsOK
<1>5. waiting' \in [Instances -> BOOLEAN] /\ \A k \in Instances \ {i} : waiting'[k] = waiting[k]
  BY <1>1 DEF IInv, Typed
<1>6. Owns(i, new)
  BY <1>1, <1>2, <1>4, <1>5 DEF Owns
<1>7. Typed' /\ Copies' /\ (\A k \in Instances : memory[k] = None => memory'[k] = None)
  BY <1>1, <1>5, NoneIs DEF IInv, Typed, Copies
<1>8. Accounts(i, new)
  BY <1>1, <1>3, <1>7 DEF Accounts, Nothing, Storing
<1>9. QED
  BY <1>6, <1>7, <1>8, OwnStepHolds--------------------------------------------------------------------------------
(* The put, and what comes after it. *)

QuietStep(i, new) ==
    /\ job' = [job EXCEPT ![i] = new]
    /\ new \in Job /\ Right(new.copy)
    /\ new.phase \notin {"asking", "asked", "answered", "rendering", "putting"}
    /\ Right(store') /\ unmapped' \in BOOLEAN /\ rows' \in BOOLEAN
    /\ waiting' \in [Instances -> BOOLEAN]
    /\ \A k \in Instances \ {i} : waiting'[k] = waiting[k]
    /\ UNCHANGED <<setup, renders, revs, soft, recorded, heard, memory, edge, reval>>

LEMMA QuietHolds ==
    ASSUME IInv, NEW i \in Instances, NEW new, QuietStep(i, new), Accounts(i, new)
    PROVE  IInv'
<1>1. /\ job' = [job EXCEPT ![i] = new]
      /\ new \in Job /\ Right(new.copy)
      /\ new.phase \notin {"asking", "asked", "answered", "rendering", "putting"}
      /\ Right(store') /\ unmapped' \in BOOLEAN /\ rows' \in BOOLEAN
      /\ waiting' \in [Instances -> BOOLEAN]
      /\ \A k \in Instances \ {i} : waiting'[k] = waiting[k]
      /\ UNCHANGED <<setup, renders, revs, soft, recorded, heard, memory, edge, reval>>
  BY DEF QuietStep
<1>2. JobOK(i, new)'
  BY <1>1, QuietIsOK
<1>3. Owns(i, new)
  BY <1>1, <1>2 DEF Owns
<1>4. Typed' /\ Copies'
  BY <1>1 DEF IInv, Typed, Copies
<1>5. QED
  BY <1>3, <1>4, OwnStepHolds

LEMMA TypesAre ==
    ASSUME IInv
    PROVE  /\ unmapped \in BOOLEAN /\ rows \in BOOLEAN /\ waiting \in [Instances -> BOOLEAN]
           /\ Right(store) /\ store \in Entry \cup {None}
  BY DEF IInv, Typed, Copies, Right

LEMMA PutLandsHolds ==
    ASSUME IInv, NEW i \in Instances, PutLands(i)
    PROVE  IInv'
<1>1. /\ job[i].phase = "putting" /\ store' = [job[i].copy EXCEPT !.handed = FALSE]
      /\ UNCHANGED <<setup, unmapped, renders, revs, soft, recorded, heard, rows, memory, edge, reval>>
  BY DEF PutLands, settings, tagVars
<1>2. job[i] \in Job /\ job[i].copy \in Entry /\ Right(job[i].copy)
  BY <1>1, CopiesAre
<1>3. PICK regenerated \in BOOLEAN : regenerated <=> ~job[i].copy.handed /\ waiting[i]
  BY Zenon
<1>4. waiting' = [waiting EXCEPT ![i] = @ /\ ~regenerated]
  <2>1. regenerated = (~job[i].copy.handed /\ waiting[i])
    BY <1>3
  <2>2. QED
    BY <2>1 DEF PutLands
<1>5. PICK new :
        /\ job' = [job EXCEPT ![i] = new]
        /\ \/ new = [Idle EXCEPT !.phase = "dropping"] /\ regenerated
           \/ new = [Idle EXCEPT !.phase = "mapping"] /\ ~regenerated /\ setup.cdn
           \/ new = Idle /\ ~regenerated /\ ~setup.cdn
  BY <1>3 DEF PutLands, Step
<1>6. /\ new \in Job /\ new.copy = None /\ new.phase \in {"idle", "dropping", "mapping"}
      /\ regenerated => new.phase = "dropping"
      /\ setup.cdn => new.phase \in Storing
  BY <1>5, IdleIs DEF Job, Storing
<1>7. /\ waiting' \in [Instances -> BOOLEAN] /\ \A k \in Instances \ {i} : waiting'[k] = waiting[k]
      /\ waiting[i] => waiting'[i] \/ regenerated
  BY <1>4, TypesAre
<1>8. Right(store')
  BY <1>1, <1>2, UnhandedIs
<1>9. ~Nothing
  BY <1>2, NoneIs, CopiesAre
<1>10. QuietStep(i, new)
  BY <1>1, <1>5, <1>6, <1>7, <1>8, NoneIs, TypesAre DEF QuietStep
<1>11. Accounts(i, new)
  BY <1>1, <1>6, <1>7, <1>9 DEF Accounts
<1>12. QED
  BY <1>10, <1>11, QuietHolds

LEMMA PutFailsHolds ==
    ASSUME IInv, NEW i \in Instances, PutFails(i)
    PROVE  IInv'
<1>1. /\ job[i].phase = "putting" /\ unmapped' = (unmapped \/ ~rows)
      /\ job' = [job EXCEPT ![i] = Idle]
      /\ UNCHANGED <<setup, renders, revs, soft, recorded, heard, store, rows, memory, waiting,
                     edge, reval>>
  BY DEF PutFails, Step, tagVars, stored
<1>2. ~Nothing
  BY <1>1, NoneIs, CopiesAre
<1>3. unmapped' \in BOOLEAN /\ (unmapped => unmapped') /\ (rows \/ unmapped')
  BY <1>1, TypesAre
<1>4. QuietStep(i, Idle)
  BY <1>1, <1>3, IdleIs, NoneIs, TypesAre DEF QuietStep
<1>5. Accounts(i, Idle)
  BY <1>1, <1>2, <1>3, IdleIs DEF Accounts
<1>6. QED
  BY <1>4, <1>5, QuietHolds

LEMMA MappingsHold ==
    ASSUME IInv, NEW i \in Instances, StoreMappings(i) \/ DeleteMappings(i)
    PROVE  IInv'
<1>1. /\ job[i].phase \in {"mapping", "unmapping"} /\ job' = [job EXCEPT ![i] = Idle]
      /\ UNCHANGED <<setup, renders, revs, soft, recorded, heard, store, memory, waiting, edge, reval>>
      /\ \/ rows' = TRUE /\ unmapped' = unmapped
         \/ rows' = rows /\ unmapped' = TRUE
         \/ rows' = FALSE /\ unmapped' = TRUE
         \/ rows' = rows /\ unmapped' = unmapped /\ job[i].phase = "unmapping"
  BY DEF StoreMappings, DeleteMappings, Step, tagVars
<1>2. unmapped' \in BOOLEAN /\ rows' \in BOOLEAN /\ (unmapped => unmapped') /\ (rows => rows' \/ unmapped')
  <2>1. CASE unmapped' = TRUE /\ rows' \in {rows, FALSE}
    BY <2>1, TypesAre
  <2>2. CASE unmapped' = unmapped /\ rows' = rows
    BY <2>2, TypesAre
  <2>3. CASE unmapped' = unmapped /\ rows' = TRUE
    BY <2>3, TypesAre
  <2>4. QED
    BY <1>1, <2>1, <2>2, <2>3
<1>3. QuietStep(i, Idle)
  BY <1>1, <1>2, IdleIs, NoneIs, TypesAre DEF QuietStep
<1>4. Accounts(i, Idle)
  BY <1>1, <1>2, IdleIs DEF Accounts, Nothing, Storing
<1>5. QED
  BY <1>3, <1>4, QuietHolds

LEMMA ReadTagsHolds ==
    ASSUME IInv, NEW i \in Instances, ReadStoredTags(i)
    PROVE  IInv'
<1>1. /\ job[i].phase = "tagging"
      /\ UNCHANGED <<setup, unmapped, renders, revs, soft, recorded, heard, store, rows, memory,
                     waiting, edge, reval>>
  BY DEF ReadStoredTags, settings, tagVars, stored
<1>2. PICK found \in {store, None} :
        job' = [job EXCEPT ![i] = [job[i] EXCEPT !.phase = "deleting", !.copy = found]]
  BY DEF ReadStoredTags, Step
<1>3. PICK new : /\ job' = [job EXCEPT ![i] = new]
                 /\ new = [job[i] EXCEPT !.phase = "deleting", !.copy = found]
  BY <1>2
<1>4. job[i] \in Job /\ found \in Entry \cup {None} /\ Right(found)
  BY <1>2, CopiesAre, TypesAre, NoneIs
<1>5. new \in Job /\ new.phase = "deleting" /\ new.copy = found
  BY <1>3, <1>4 DEF Job
<1>6. QuietStep(i, new)
  BY <1>1, <1>3, <1>4, <1>5, TypesAre DEF QuietStep
<1>7. Accounts(i, new)
  BY <1>1, <1>2, <1>5 DEF Accounts, Nothing, Storing
<1>8. QED
  BY <1>6, <1>7, QuietHolds

LEMMA DeleteHolds ==
    ASSUME IInv, NEW i \in Instances, DeleteObject(i)
    PROVE  IInv'
<1>1. /\ job[i].phase = "deleting" /\ store' \in {store, None}
      /\ UNCHANGED <<setup, unmapped, renders, revs, soft, recorded, heard, rows, memory,
                     waiting, edge, reval>>
  BY DEF DeleteObject, settings, tagVars
<1>2. PICK new : /\ job' = [job EXCEPT ![i] = new]
                 /\ new = Idle \/ new = [job[i] EXCEPT !.phase = "unmapping"]
  BY DEF DeleteObject, Step
<1>3. job[i] \in Job /\ Right(job[i].copy)
  BY CopiesAre
<1>4. new \in Job /\ new.phase \in {"idle", "unmapping"} /\ (new.copy = None \/ new.copy = job[i].copy)
  BY <1>2, <1>3, IdleIs DEF Job
<1>5. QuietStep(i, new)
  BY <1>1, <1>2, <1>3, <1>4, NoneIs, TypesAre DEF QuietStep
<1>6. Accounts(i, new)
  BY <1>1, <1>4 DEF Accounts, Nothing, Storing
<1>7. QED
  BY <1>5, <1>6, QuietHolds

LEMMA RetryRegeneratedHolds ==
    ASSUME IInv, NEW i \in Instances, RetryRegenerated(i)
    PROVE  IInv'
<1>1. /\ job[i].phase = "dropping" /\ job[i].attempt < Retries
      /\ UNCHANGED <<setup, unmapped, renders, revs, soft, recorded, heard, store, rows, memory,
                     waiting, edge, reval>>
  BY DEF RetryRegenerated, MayRetry, settings, tagVars, stored
<1>2. PICK new : /\ job' = [job EXCEPT ![i] = new]
                 /\ new = [job[i] EXCEPT !.attempt = job[i].attempt + 1]
  BY DEF RetryRegenerated, Step
<1>3. job[i] \in Job /\ Right(job[i].copy) /\ job[i].attempt + 1 \in 0 .. Retries
  BY <1>1, CopiesAre, FieldsAre, Bounds
<1>4. new \in Job /\ new.phase = "dropping" /\ new.copy = job[i].copy
  BY <1>1, <1>2, <1>3 DEF Job
<1>5. QuietStep(i, new)
  BY <1>1, <1>2, <1>3, <1>4, TypesAre DEF QuietStep
<1>6. Accounts(i, new)
  BY <1>1, <1>4 DEF Accounts, Storing
<1>7. QED
  BY <1>5, <1>6, QuietHolds--------------------------------------------------------------------------------
(* Invalidations, and what they cross. *)

\* A job that an invalidation passes, and one whose set goes on after its own.
Passed(k) ==
    /\ job'[k].copy = job[k].copy /\ job'[k].verdict = job[k].verdict
    /\ job'[k].asked = job[k].asked /\ job'[k].gen = job[k].gen
    /\ \/ /\ job'[k].phase = job[k].phase
          /\ job[k].phase \in {"asked", "answered"} => job'[k].crossed
       \/ job[k].phase = "dropping" /\ job'[k].phase = "mapping"

CrossStep ==
    /\ job' \in [Instances -> Job] /\ \A k \in Instances : Passed(k)
    /\ edge' \subseteq edge /\ (edge' = {} \/ unmapped' \/ ~setup.cdn)
    /\ unmapped' \in BOOLEAN /\ (unmapped => unmapped')
    /\ UNCHANGED <<setup, renders, revs, soft, recorded, heard, store, rows, memory, waiting>>

LEMMA CrossHolds ==
    ASSUME IInv, CrossStep, Revalidations'
    PROVE  IInv'
<1>1. /\ job' \in [Instances -> Job] /\ \A k \in Instances : Passed(k)
      /\ edge' \subseteq edge /\ (edge' = {} \/ unmapped' \/ ~setup.cdn)
      /\ unmapped' \in BOOLEAN /\ (unmapped => unmapped')
      /\ UNCHANGED <<setup, renders, revs, soft, recorded, heard, store, rows, memory, waiting>>
  BY DEF CrossStep
<1>2. Typed' /\ Copies'
  BY <1>1 DEF IInv, Typed, Copies
<1>3. ASSUME NEW k \in Instances PROVE JobOK(k, job[k])'
  <2>1. JobOK(k, job[k]) /\ Passed(k) /\ job'[k] \in Job
    BY <1>1 DEF IInv, Jobs
  <2>2. HasCopy(job[k])' /\ ShowsAsked(k, job[k])' /\ StaleIsNoted(k, job[k])'
    BY <1>1, <2>1 DEF JobOK, Passed, HasCopy, Served, ShowsAsked, StaleIsNoted, AtEdge
  <2>3. Heeds(job[k])'
    BY <2>1 DEF Passed, Heeds, Served
  <2>4. QED
    BY <2>1, <2>2, <2>3 DEF JobOK
<1>4. Jobs'
  BY <1>1, <1>3 DEF Jobs
<1>5. Mapped'
  <2>1. \A k \in Instances : job[k].phase \in Storing => job'[k].phase \in Storing
    BY <1>1 DEF Passed, Storing
  <2>2. Nothing => Nothing'
    BY <1>1 DEF Passed, Nothing
  <2>3. QED
    BY <1>1, <2>1, <2>2 DEF IInv, Mapped
<1>6. StaleAtEdgeIsAwaited'
  BY <1>1 DEF StaleAtEdgeIsAwaited, AtEdge
<1>7. QED
  BY <1>2, <1>4, <1>5, <1>6 DEF IInv

LEMMA CrossedIs ==
    ASSUME IInv, NEW k \in Instances, NEW new, new = Crossed(k)
    PROVE  /\ new \in Job /\ new.copy = job[k].copy /\ new.verdict = job[k].verdict
           /\ new.asked = job[k].asked /\ new.gen = job[k].gen /\ new.phase = job[k].phase
           /\ job[k].phase \in {"asked", "answered"} => new.crossed
<1>1. job[k] \in Job
  BY CopiesAre
<1>2. PICK c \in BOOLEAN : /\ new = [job[k] EXCEPT !.crossed = c]
                           /\ job[k].phase \in {"asked", "answered"} => c
  <2>1. PICK c : c = (\/ job[k].crossed
                      \/ job[k].phase \in {"asking", "asked", "reading", "answered"}
                      \/ /\ job[k].phase = "rendering"
                         /\ job[k].verdict \in {"expired", "missed"})
    OBVIOUS
  <2>2. job[k].crossed \in BOOLEAN
    BY <1>1, FieldsAre
  <2>3. c \in BOOLEAN
    BY <2>1, <2>2
  <2>4. job[k].phase \in {"asked", "answered"} => c
    <3>1. job[k].phase \in {"asked", "answered"} => job[k].phase \in {"asking", "asked", "reading", "answered"}
      OBVIOUS
    <3>2. QED
      BY <2>1, <3>1, Zenon
  <2>5. new = [job[k] EXCEPT !.crossed = c]
    BY <2>1 DEF Crossed
  <2>6. QED
    BY <2>3, <2>4, <2>5
<1>3. QED
  BY <1>1, <1>2 DEF Job

LEMMA AllCrossed ==
    ASSUME IInv, job' = [j \in Instances |-> Crossed(j)]
    PROVE  job' \in [Instances -> Job] /\ \A k \in Instances : Passed(k)
<1>1. ASSUME NEW k \in Instances PROVE job'[k] \in Job /\ Passed(k)
  <2>1. PICK new : new = Crossed(k)
    OBVIOUS
  <2>2. job'[k] = new
    BY <2>1
  <2>3. QED
    BY <2>1, <2>2, CrossedIs DEF Passed
<1>2. QED
  BY <1>1

LEMMA RegeneratedCross ==
    ASSUME IInv, NEW i \in Instances, job[i].phase = "dropping", Regenerated(i)
    PROVE  job' \in [Instances -> Job] /\ \A k \in Instances : Passed(k)
<1>1. PICK new : /\ job' = [[j \in Instances |-> Crossed(j)] EXCEPT ![i] = new]
                 /\ new = [job[i] EXCEPT !.phase = "mapping", !.attempt = 0]
  BY DEF Regenerated
<1>2. job[i] \in Job /\ 0 \in 0 .. Retries
  BY CopiesAre, Bounds
<1>3. /\ new \in Job /\ new.copy = job[i].copy /\ new.verdict = job[i].verdict
      /\ new.asked = job[i].asked /\ new.gen = job[i].gen /\ new.phase = "mapping"
  BY <1>1, <1>2 DEF Job
<1>4. job'[i] \in Job /\ Passed(i)
  BY <1>1, <1>3 DEF Passed
<1>5. ASSUME NEW k \in Instances \ {i} PROVE job'[k] \in Job /\ Passed(k)
  <2>1. PICK other : other = Crossed(k)
    OBVIOUS
  <2>2. job'[k] = other
    BY <1>1, <2>1
  <2>3. QED
    BY <2>1, <2>2, CrossedIs DEF Passed
<1>6. DOMAIN job' = Instances /\ job' = [k \in Instances |-> job'[k]]
  BY <1>1
<1>7. QED
  BY <1>4, <1>5, <1>6

LEMMA RegeneratedHolds ==
    ASSUME IInv, NEW i \in Instances, DropRegenerated(i) \/ GiveUpRegenerated(i)
    PROVE  IInv'
<1>1. /\ job[i].phase = "dropping" /\ edge' = {} /\ Regenerated(i) /\ UNCHANGED reval
      /\ UNCHANGED <<setup, unmapped, renders, revs, soft, recorded, heard, store, rows, memory, waiting>>
  BY DEF DropRegenerated, GiveUpRegenerated, Invalidated, LeftAtEdge, settings, tagVars, stored
<1>2. job' \in [Instances -> Job] /\ \A k \in Instances : Passed(k)
  BY <1>1, RegeneratedCross
<1>3. CrossStep
  <2>1. unmapped \in BOOLEAN
    BY DEF IInv, Typed
  <2>2. QED
    BY <1>1, <1>2, <2>1 DEF CrossStep
<1>4. Revalidations'
  BY <1>1 DEF IInv, Revalidations
<1>5. QED
  BY <1>3, <1>4, CrossHolds

LEMMA NoneBegunIs == NoRevalidation \in Revalidation /\ NoRevalidation.phase = "idle"
  BY Bounds DEF NoRevalidation, Revalidation

\* A revalidation that ends: its invalidation was created or given up, or there is
\* nothing it could be of.
LEMMA EndsHold ==
    ASSUME IInv, NEW i \in Instances, DropRevalidated(i) \/ GiveUpRevalidated(i) \/ MissRow(i)
    PROVE  IInv'
<1>1. /\ job' = [j \in Instances |-> Crossed(j)]
      /\ reval' = [reval EXCEPT ![i] = NoRevalidation]
      /\ UNCHANGED <<setup, renders, revs, soft, recorded, heard, store, rows, memory, waiting>>
  BY DEF DropRevalidated, GiveUpRevalidated, MissRow, settings, tagVars, stored
<1>2. job' \in [Instances -> Job] /\ \A k \in Instances : Passed(k)
  BY <1>1, AllCrossed
<1>3. Revalidations'
  BY <1>1, NoneBegunIs DEF IInv, Revalidations
<1>4. /\ edge' \subseteq edge /\ (edge' = {} \/ unmapped' \/ ~setup.cdn)
      /\ unmapped' \in BOOLEAN /\ (unmapped => unmapped')
  <2>1. unmapped \in BOOLEAN
    BY DEF IInv, Typed
  <2>2. CASE ~MissRow(i)
    BY <2>1, <2>2
       DEF DropRevalidated, GiveUpRevalidated, Invalidated, LeftAtEdge, settings
  <2>3. CASE MissRow(i)
    <3>1. /\ unmapped' = (unmapped \/ \E j \in Instances : job[j].phase \in Storing)
          /\ edge' = edge /\ ~rows /\ ~setup.seeded
      BY <2>3 DEF MissRow, NamesPath, Storing
    <3>2. unmapped' \in BOOLEAN /\ (unmapped => unmapped')
      BY <2>1, <3>1
    <3>3. ~unmapped' /\ setup.cdn => Nothing
      BY <3>1 DEF IInv, Mapped
    <3>4. QED
      BY <3>1, <3>2, <3>3 DEF Nothing
  <2>4. QED
    BY <2>2, <2>3
<1>5. CrossStep
  BY <1>1, <1>2, <1>4 DEF CrossStep
<1>6. QED
  BY <1>3, <1>5, CrossHolds--------------------------------------------------------------------------------
(* A revalidation, up to its invalidation. *)

RevalidationStep(i, new) ==
    /\ reval' = [reval EXCEPT ![i] = new] /\ new \in Revalidation
    /\ new.phase # "idle" => new.number \in 1 .. revs'
    /\ reval[i].phase # "idle" => (new.number = reval[i].number /\ new.phase # "idle") \/ ~setup.cdn
    /\ reval[i].phase \in {"querying", "dropping"} => new.phase \in {"querying", "dropping"}
    /\ \A r \in recorded' : r \in recorded \/ ~setup.cdn
                            \/ (r = new.number /\ new.phase \in {"querying", "dropping"})
    /\ revs \in 0 .. revs' /\ Typed'
    /\ \A k \in Instances : heard[k] \subseteq heard'[k]
    /\ UNCHANGED <<setup, unmapped, store, rows, memory, waiting, edge, job>>

LEMMA RevalidationHolds ==
    ASSUME IInv, NEW i \in Instances, NEW new, RevalidationStep(i, new)
    PROVE  IInv'
<1>1. /\ reval' = [reval EXCEPT ![i] = new] /\ new \in Revalidation
      /\ new.phase # "idle" => new.number \in 1 .. revs'
      /\ reval[i].phase # "idle" => (new.number = reval[i].number /\ new.phase # "idle") \/ ~setup.cdn
      /\ reval[i].phase \in {"querying", "dropping"} => new.phase \in {"querying", "dropping"}
      /\ \A r \in recorded' : r \in recorded \/ ~setup.cdn
                              \/ (r = new.number /\ new.phase \in {"querying", "dropping"})
      /\ revs \in 0 .. revs' /\ Typed'
      /\ \A k \in Instances : heard[k] \subseteq heard'[k]
      /\ UNCHANGED <<setup, unmapped, store, rows, memory, waiting, edge, job>>
  BY DEF RevalidationStep
<1>2. /\ reval \in [Instances -> Revalidation] /\ reval'[i] = new
      /\ \A k \in Instances \ {i} : reval'[k] = reval[k]
  BY <1>1 DEF IInv, Revalidations
<1>3. revs \in Nat /\ revs' \in Nat /\ revs <= revs' /\ 1 .. revs \subseteq 1 .. revs'
  BY <1>1, Bounds DEF IInv, Typed
<1>4. Revalidations'
  BY <1>1, <1>2, <1>3 DEF IInv, Revalidations
<1>5. Copies'
  BY <1>1 DEF IInv, Copies
<1>6. ASSUME setup.cdn, NEW r, ToBeDropped(r) \/ r \in recorded' \ recorded
      PROVE  ToBeDropped(r)'
  <2>1. CASE ToBeDropped(r)
    <3>1. PICK k \in Instances : reval[k].phase \in {"querying", "dropping"} /\ reval[k].number = r
      BY <2>1 DEF ToBeDropped
    <3>2. reval'[k].phase \in {"querying", "dropping"} /\ reval'[k].number = r
      BY <1>1, <1>2, <1>6, <3>1
    <3>3. QED
      BY <3>2 DEF ToBeDropped
  <2>2. CASE r \in recorded' \ recorded
    BY <1>1, <1>2, <1>6, <2>2 DEF ToBeDropped
  <2>3. QED
    BY <1>6, <2>1, <2>2
<1>7. ASSUME NEW k \in Instances PROVE JobOK(k, job[k])'
  <2>1. job[k] \in Job /\ JobOK(k, job[k])
    BY DEF IInv, Jobs
  <2>2. HasCopy(job[k])'
    <3>1. job[k].phase = "rendering" => job[k].gen <= revs'
      <4>1. job[k].gen \in Int
        BY <2>1, FieldsAre, Bounds
      <4>2. QED
        BY <1>3, <2>1, <4>1 DEF JobOK, HasCopy
    <3>2. QED
      BY <1>1, <2>1, <3>1 DEF JobOK, HasCopy, Served
  <2>3. ShowsAsked(k, job[k])' /\ StaleIsNoted(k, job[k])'
    BY <1>1, <2>1 DEF JobOK, ShowsAsked, StaleIsNoted, AtEdge
  <2>4. Heeds(job[k])'
    <3>1. SUFFICES ASSUME setup.cdn, ~job[k].crossed, ~job[k].behind, job[k].phase = "asked" \/ Served(job[k]),
                          NEW r \in recorded'
                   PROVE  r \in job[k].asked \/ ToBeDropped(r)'
      BY <1>1 DEF Heeds, Served
    <3>2. r \in recorded => r \in job[k].asked \/ ToBeDropped(r)
      BY <2>1, <3>1 DEF JobOK, Heeds
    <3>3. QED
      BY <1>6, <3>1, <3>2
  <2>5. QED
    BY <1>1, <2>1, <2>2, <2>3, <2>4 DEF JobOK
<1>8. Jobs'
  BY <1>1, <1>7 DEF IInv, Jobs
<1>9. Mapped'
  BY <1>1 DEF IInv, Mapped, Nothing
<1>10. StaleAtEdgeIsAwaited'
  <2>1. SUFFICES ASSUME AtEdge, ~unmapped, NEW shown \in edge, NEW r \in recorded', shown < r
                 PROVE  \E k \in Instances : \/ reval'[k].phase # "idle" /\ shown < reval'[k].number
                                             \/ waiting[k]
                                             \/ job[k].phase = "dropping"
    BY <1>1 DEF StaleAtEdgeIsAwaited, AtEdge
  <2>2. CASE r \in recorded
    <3>1. PICK k \in Instances : \/ reval[k].phase # "idle" /\ shown < reval[k].number
                                 \/ waiting[k]
                                 \/ job[k].phase = "dropping"
      BY <2>1, <2>2 DEF IInv, StaleAtEdgeIsAwaited
    <3>2. reval[k].phase # "idle" => reval'[k].phase # "idle" /\ reval'[k].number = reval[k].number
      BY <1>1, <1>2, <2>1 DEF AtEdge
    <3>3. QED
      BY <3>1, <3>2
  <2>3. CASE r \notin recorded
    BY <1>1, <1>2, <2>1, <2>3 DEF AtEdge
  <2>4. QED
    BY <2>2, <2>3
<1>11. QED
  BY <1>1, <1>4, <1>5, <1>8, <1>9, <1>10 DEF IInv

LEMMA RevalidateHolds ==
    ASSUME IInv, NEW i \in Instances, NEW profile \in BOOLEAN, Revalidate(i, profile)
    PROVE  IInv'
<1>1. PICK r : r = revs + 1
  OBVIOUS
<1>2. /\ reval[i].phase = "idle" /\ revs < MaxRevalidations /\ revs' = r
      /\ soft' = soft \/ soft' = soft \cup {r}
      /\ heard' = [heard EXCEPT ![i] = @ \cup {r}]
      /\ UNCHANGED <<setup, unmapped, renders, recorded, store, rows, memory, waiting, edge, job>>
  BY <1>1 DEF Revalidate, settings, stored
<1>3. PICK new : /\ reval' = [reval EXCEPT ![i] = new]
                 /\ new = [NoRevalidation EXCEPT !.phase = "recording", !.number = r]
  BY <1>1 DEF Revalidate
<1>4. /\ revs \in Nat /\ r \in 0 .. MaxRevalidations /\ r \in 1 .. r /\ revs \in 0 .. r
      /\ 1 .. revs \subseteq 1 .. r
  BY <1>1, <1>2, Bounds DEF IInv, Typed
<1>5. new \in Revalidation /\ new.phase = "recording" /\ new.number = r
  BY <1>3, <1>4, NoneBegunIs DEF Revalidation
<1>6. heard' \in [Instances -> SUBSET (1 .. r)] /\ \A k \in Instances : heard[k] \subseteq heard'[k]
  BY <1>2, <1>4 DEF IInv, Typed
<1>7. Typed'
  <2>1. soft' \subseteq 1 .. r /\ recorded' \subseteq 1 .. r
    BY <1>2, <1>4 DEF IInv, Typed
  <2>2. revs' \in 0 .. MaxRevalidations
    BY <1>2, <1>4
  <2>3. /\ setup' \in Setups /\ unmapped' \in BOOLEAN /\ rows' \in BOOLEAN /\ renders' \in 0 .. MaxRenders
        /\ waiting' \in [Instances -> BOOLEAN] /\ edge' \subseteq 0 .. MaxRevalidations
    BY <1>2 DEF IInv, Typed
  <2>4. QED
    BY <1>2, <1>6, <2>1, <2>2, <2>3 DEF Typed
<1>8. RevalidationStep(i, new)
  BY <1>2, <1>3, <1>4, <1>5, <1>6, <1>7 DEF RevalidationStep
<1>9. QED
  BY <1>8, RevalidationHolds

LEMMA RecordedHolds ==
    ASSUME IInv, NEW i \in Instances, Recorded(i)
    PROVE  IInv'
<1>1. /\ reval[i].phase = "recording"
      /\ UNCHANGED <<setup, unmapped, renders, revs, soft, heard, store, rows, memory, waiting, edge, job>>
  BY DEF Recorded, settings, stored
<1>2. reval[i] \in Revalidation /\ reval[i].number \in 1 .. revs /\ revs \in Nat /\ recorded \subseteq 1 .. revs
  BY <1>1, Bounds DEF IInv, Typed, Revalidations
<1>3. PICK new :
        /\ reval' = [reval EXCEPT ![i] = new]
        /\ \/ /\ new = [reval[i] EXCEPT !.phase = "querying"] /\ setup.cdn
              /\ recorded' = recorded \cup {reval[i].number}
           \/ new = [reval[i] EXCEPT !.phase = "dropping"] /\ setup.cdn /\ recorded' = recorded
           \/ /\ new = NoRevalidation /\ ~setup.cdn
              /\ recorded' = recorded \/ recorded' = recorded \cup {reval[i].number}
  <2>1. CASE setup.cdn
    BY <2>1 DEF Recorded
  <2>2. CASE ~setup.cdn
    BY <2>2 DEF Recorded
  <2>3. QED
    BY <2>1, <2>2
<1>4. CASE setup.cdn
  <2>1. /\ new \in Revalidation /\ new.phase \in {"querying", "dropping"} /\ new.number = reval[i].number
        /\ recorded' = recorded \/ (recorded' = recorded \cup {reval[i].number})
    BY <1>2, <1>3, <1>4 DEF Revalidation
  <2>2. Typed'
    BY <1>1, <1>2, <2>1 DEF IInv, Typed
  <2>3. RevalidationStep(i, new)
    BY <1>1, <1>2, <1>3, <2>1, <2>2 DEF RevalidationStep
  <2>4. QED
    BY <2>3, RevalidationHolds
<1>5. CASE ~setup.cdn
  <2>1. /\ new \in Revalidation /\ new.phase = "idle"
        /\ recorded' = recorded \/ (recorded' = recorded \cup {reval[i].number})
    BY <1>3, <1>5, NoneBegunIs
  <2>2. Typed'
    BY <1>1, <1>2, <2>1 DEF IInv, Typed
  <2>3. revs \in 0 .. revs' /\ reval[i].phase \notin {"querying", "dropping"}
    BY <1>1, <1>2
  <2>4. \A k \in Instances : heard[k] \subseteq heard'[k]
    BY <1>1
  <2>5. RevalidationStep(i, new)
    BY <1>1, <1>3, <1>5, <2>1, <2>2, <2>3, <2>4 DEF RevalidationStep
  <2>6. QED
    BY <2>5, RevalidationHolds
<1>6. QED
  BY <1>4, <1>5

LEMMA GoesOnHolds ==
    ASSUME IInv, NEW i \in Instances, FindPaths(i) \/ RetryRevalidated(i)
    PROVE  IInv'
<1>1. /\ reval[i].phase \in {"querying", "dropping"}
      /\ UNCHANGED <<setup, unmapped, renders, revs, soft, recorded, heard, store, rows, memory,
                     waiting, edge, job>>
  BY DEF FindPaths, RetryRevalidated, settings, tagVars, stored
<1>2. reval[i] \in Revalidation /\ reval[i].number \in 1 .. revs /\ revs \in Nat
  BY <1>1, Bounds DEF IInv, Typed, Revalidations
<1>3. PICK new :
        /\ reval' = [reval EXCEPT ![i] = new]
        /\ \/ new = [reval[i] EXCEPT !.phase = "dropping"]
           \/ /\ new = [reval[i] EXCEPT !.attempt = reval[i].attempt + 1]
              /\ reval[i].attempt < Retries
  BY DEF FindPaths, RetryRevalidated, MayRetry
<1>4. new \in Revalidation /\ new.phase \in {"querying", "dropping"} /\ new.number = reval[i].number
  <2>1. CASE new = [reval[i] EXCEPT !.phase = "dropping"]
    BY <1>2, <2>1 DEF Revalidation
  <2>2. CASE /\ new = [reval[i] EXCEPT !.attempt = reval[i].attempt + 1]
             /\ reval[i].attempt < Retries
    <3>1. reval[i].attempt + 1 \in 0 .. Retries
      BY <1>2, <2>2, Bounds DEF Revalidation
    <3>2. QED
      BY <1>1, <1>2, <2>2, <3>1 DEF Revalidation
  <2>3. QED
    BY <1>3, <2>1, <2>2
<1>5. Typed'
  BY <1>1 DEF IInv, Typed
<1>6. RevalidationStep(i, new)
  BY <1>1, <1>2, <1>3, <1>4, <1>5 DEF RevalidationStep
<1>7. QED
  BY <1>6, RevalidationHolds
--------------------------------------------------------------------------------
(* The theorems. *)

LEMMA StutterHolds ==
    ASSUME IInv, UNCHANGED vars
    PROVE  IInv'
<1>1. UNCHANGED <<setup, unmapped, renders, revs, soft, recorded, heard, store, rows, memory,
                  waiting, edge, job, reval>>
  BY DEF vars, settings, tagVars, stored
<1>2. Typed' /\ Copies' /\ Revalidations'
  BY <1>1 DEF IInv, Typed, Copies, Revalidations
<1>3. Jobs'
  BY <1>1 DEF IInv, Jobs, JobOK, HasCopy, Served, ShowsAsked, Heeds, ToBeDropped, StaleIsNoted, AtEdge
<1>4. Mapped' /\ StaleAtEdgeIsAwaited'
  BY <1>1 DEF IInv, Mapped, Nothing, StaleAtEdgeIsAwaited, AtEdge
<1>5. QED
  BY <1>2, <1>3, <1>4 DEF IInv

LEMMA StepHolds == IInv /\ [Next]_vars => IInv'
<1> SUFFICES ASSUME IInv, [Next]_vars PROVE IInv'
  OBVIOUS
<1>1. ASSUME NEW i \in Instances, GetStep(i) PROVE IInv'
  BY <1>1, AsksHold, MissHolds, DropHolds, ReadHolds, JudgeMemoryHolds, JudgeS3Holds, DeliverHolds,
     RenderEndsHolds, RenderFailsHolds, RenderNothingHolds
     DEF GetStep
<1>2. ASSUME NEW i \in Instances, SetStep(i) PROVE IInv'
  BY <1>2, PutLandsHolds, PutFailsHolds, MappingsHold, RegeneratedHolds, RetryRegeneratedHolds,
     ReadTagsHolds, DeleteHolds
     DEF SetStep
<1>3. ASSUME NEW i \in Instances, RevalidateStep(i) PROVE IInv'
  BY <1>3, RevalidateHolds, RecordedHolds, GoesOnHolds, EndsHold DEF RevalidateStep
<1>4. CASE UNCHANGED vars
  BY <1>4, StutterHolds
<1>5. QED
  BY <1>1, <1>2, <1>3, <1>4 DEF Next

\* In every behaviour, whatever the deployment, the instances and their interleaving, the
\* inductive invariant holds: copies are judged by what they show, an answer that is not
\* crossed or behind has every recorded revalidation asked about or still to be invalidated, and a
\* key that no row names has nothing stored.
THEOREM Invariance == Spec => []IInv
<1>1. Init => IInv
  BY StartHolds
<1>2. IInv /\ [Next]_vars => IInv'
  BY StepHolds
<1>3. QED
  BY <1>1, <1>2, PTL DEF Spec

\* The variables keep their types: an instance never has heard of, or judges by, a
\* revalidation that was not begun, and no retry passes INVALIDATION_RETRIES.
THEOREM TypeCorrect == Spec => []TypeOK
<1>1. IInv => TypeOK
  BY DEF IInv, Typed, Copies, Right, Revalidations, Jobs, TypeOK
<1>2. QED
  BY <1>1, Invariance, PTL

\* S3CacheHandler's and the orchestrator's get answer as fresh only what shows every
\* revalidation the instance had heard of, through memory or S3 and whoever wrote it.
THEOREM FreshShows == Spec => []FreshShowsWhatWasHeard
<1>1. IInv => FreshShowsWhatWasHeard
  BY DEF IInv, Jobs, JobOK, ShowsAsked, FreshShowsWhatWasHeard
<1>2. QED
  BY <1>1, Invariance, PTL

\* CloudFront is not left with a page from before a recorded revalidation without someone
\* who will still invalidate it: the revalidation, or who served the page stale; but for
\* what was judged by a log from before the revalidation, or was on its way meanwhile.
THEOREM StaleIsAwaited == Spec => []StaleAtEdgeIsAwaited
<1>1. IInv => StaleAtEdgeIsAwaited
  BY DEF IInv
<1>2. QED
  BY <1>1, Invariance, PTL
================================================================================
