---------------------------- MODULE UseCacheProofs -----------------------------
(***************************************************************************)
(* That both 'use cache' handlers judge an entry by all the instance was   *)
(* told when they serve it, as far as reads show it again, proved for any  *)
(* number of gets, sets and tags, any `revalidate` and `expire`, whatever  *)
(* the manifest lets go of and whichever reads fail.                       *)
(***************************************************************************)
EXTENDS MCUseCache, TLAPS

\* All that the instance was told of a tag is known, or its read fell short of it.
Sure(t) == known[t] = told[t] \/ t \in short

\* What the manifest was told of a tag it still knows; or the tag's marker was not
\* read since it let go of it, or the read fell short, and completeSince covers all
\* that it was told before.
Remembered(t) ==
    /\ known[t] <= told[t] /\ told[t] <= now
    /\ known[t] = told[t] \/ told[t] <= completeSince
    /\ t \in tracked => Sure(t)

ManifestHolds == \A t \in Tags : Remembered(t)

\* A get that has begun to judge an entry knows the tags that it has no read of to
\* wait for, as far as reads show them, but for those let go of since.
Judges(get) == \A t \in Tags : t \in get.awaits \cup get.letGo \/ Sure(t)

GetsHold == \A g \in Gets :
    /\ gets[g].missed \subseteq gets[g].letGo
    /\ gets[g].phase = "reading" => Judges(gets[g])

IInv == TypeOK /\ ManifestHolds /\ GetsHold

\* The same of the remote handler, which judges once more what S3 has.
RemoteSure(t) == rknown[t] = rtold[t] \/ t \in rshort

RemoteRemembered(t) ==
    /\ rknown[t] <= rtold[t] /\ rtold[t] <= rnow
    /\ rknown[t] = rtold[t] \/ rtold[t] <= rcomplete
    /\ t \in rtracked => RemoteSure(t)

RemoteManifestHolds == \A t \in RemoteTags : RemoteRemembered(t)

RemoteJudges(get) ==
    \A t \in RemoteTags : t \in get.awaits \cup get.letGo \/ RemoteSure(t)

RemoteGetHolds(get) ==
    /\ get.missed \subseteq get.letGo
    /\ get.phase \in {"reading", "rereading"} => RemoteJudges(get)
    /\ get.phase = "fetching" =>
          get.awaits = {} /\ (get.entry # Absent => RemoteJudges(get))

RemoteGetsHold == \A g \in Gets : RemoteGetHolds(rgets[g])

RemoteIInv == Remote!TypeOK /\ RemoteManifestHolds /\ RemoteGetsHold

BothIInv == IInv /\ RemoteIInv

--------------------------------------------------------------------------------
(* The default handler. *)

LEMMA InitHolds == CommonInit => IInv
<1>1. None \notin {"away", "streaming", "putting", "stored", "failed"}
  BY DEF None
<1> SUFFICES ASSUME CommonInit PROVE IInv
  OBVIOUS
<1>2. NoGet \in Get
  BY DEF NoGet, Get, None, Stamp, Absent
<1>3. TypeOK
  BY <1>2 DEF TypeOK, CommonTypeOK, CommonInit, Stamp, Absent, Set, None
<1>4. ManifestHolds
  BY DEF CommonInit, ManifestHolds, Remembered, Sure, Absent
<1>5. GetsHold
  BY DEF CommonInit, GetsHold, NoGet
<1>6. QED
  BY <1>3, <1>4, <1>5 DEF IInv

\* An answer shows what was told later of no tag but those let go of.
LEMMA AnsweredHolds ==
    ASSUME TypeOK, NEW get \in Get, NEW entry \in Stamp,
           get.missed \subseteq get.letGo,
           \A t \in Tags : t \in get.letGo \/ Sure(t) \/ told[t] <= entry
    PROVE  /\ Answered(get, entry) \in Get
           /\ Answered(get, entry).missed \subseteq Answered(get, entry).letGo
           /\ Answered(get, entry).phase = "answered"
<1> DEFINE late == {t \in Tags \ short : told[t] > entry}
           new  == [get EXCEPT !.phase = "answered", !.missed = late]
           dropped == [get EXCEPT !.phase = "answered"]
<1>1. dropped \in Get /\ dropped.missed = get.missed /\ dropped.letGo = get.letGo
      /\ dropped.phase = "answered"
  BY DEF Get
<1>2. new \in Get /\ new.missed = late /\ new.letGo = get.letGo /\ new.phase = "answered"
  BY DEF Get
<1>3. CASE Expired(entry)
  BY <1>1, <1>3 DEF Answered
<1>4. CASE ~Expired(entry)
  <2>1. ASSUME NEW t \in late PROVE t \in get.letGo
    <3>1. ~(known[t] > entry)
      BY <1>4 DEF Expired, Expires
    <3>2. told[t] \in Int /\ known[t] \in Int /\ entry \in Int
      BY DEF TypeOK, CommonTypeOK, Stamp, Absent
    <3>3. t \notin short /\ told[t] > entry
      OBVIOUS
    <3>4. QED
      BY <3>1, <3>2, <3>3 DEF Sure
  <2>2. Answered(get, entry) = new
    BY <1>4 DEF Answered
  <2> HIDE DEF new, late
  <2>3. QED
    BY <1>2, <2>1, <2>2
<1>5. QED
  BY <1>3, <1>4
\* A step of one get leaves the others as they were.
LEMMA OneGet ==
    ASSUME IInv, NEW g \in Gets, NEW get \in Get, gets' = [gets EXCEPT ![g] = get],
           get.missed \subseteq get.letGo, get.phase = "reading" => Judges(get),
           UNCHANGED <<told, known, short>>
    PROVE  gets' \in [Gets -> Get] /\ GetsHold'
<1>1. gets \in [Gets -> Get]
  BY DEF IInv, TypeOK, CommonTypeOK
<1>2. gets' \in [Gets -> Get]
  BY <1>1
<1>3. ASSUME NEW h \in Gets
      PROVE  /\ gets'[h].missed \subseteq gets'[h].letGo
             /\ gets'[h].phase = "reading" => Judges(gets'[h])
  BY <1>1, <1>3 DEF IInv, GetsHold
<1>4. GetsHold'
  BY <1>3 DEF GetsHold, Judges, Sure
<1>5. QED
  BY <1>2, <1>4

LEMMA NoGetIs ==
    /\ NoGet \in Get /\ NoGet.missed = {} /\ NoGet.letGo = {} /\ NoGet.awaits = {}
    /\ [NoGet EXCEPT !.phase = "answered"] \in Get
    /\ [NoGet EXCEPT !.phase = "answered"].missed = {}
    /\ [NoGet EXCEPT !.phase = "answered"].phase = "answered"
    /\ \A s \in Sets :
          LET get == [NoGet EXCEPT !.phase = "pending", !.behind = s]
          IN  get \in Get /\ get.missed = {} /\ get.phase = "pending"
    /\ \A e \in Stamp, ts \in SUBSET Tags :
          LET get == [NoGet EXCEPT !.phase = "reading", !.entry = e, !.awaits = ts]
          IN  get \in Get /\ get.missed = {} /\ get.awaits = ts /\ get.letGo = {}
  BY DEF NoGet, Get, None, Stamp, Absent

\* What a set's end does to the sets.
LEMMA SetEnds ==
    ASSUME CommonTypeOK, NEW s \in Sets, NEW phase \in {"stored", "failed"},
           Ends(s, phase), Done(s)
    PROVE  /\ sets' \in [Sets -> Set] /\ registered' \in Sets \cup {None}
           /\ registered' # None => sets'[registered'].phase = "streaming"
<1>1. sets \in [Sets -> Set] /\ registered \in Sets \cup {None}
      /\ (registered # None => sets[registered].phase = "streaming")
  BY DEF CommonTypeOK
<1>2. sets' \in [Sets -> Set]
  BY <1>1 DEF Ends, Set, Stamp
<1>3. registered' # None => registered' = registered /\ registered # s
  BY DEF Done
<1>4. registered' \in Sets \cup {None}
  BY <1>1 DEF Done
<1>5. QED
  BY <1>1, <1>2, <1>3, <1>4 DEF Ends

\* A marker of a tag is merged into what is known: what was sure stays so, and what
\* is not sure is still to be read.
LEMMA OneTag ==
    ASSUME IInv, NEW t \in Tags, NEW at \in {Absent} \cup 0 .. now, Learn(t, at),
           UNCHANGED <<now, completeSince>>,
           tracked' \in SUBSET Tags, short' \in SUBSET tracked',
           \A u \in Tags \ {t} :
               (u \in tracked' <=> u \in tracked) /\ (u \in short' <=> u \in short),
           Sure(t)' \/ (t \notin tracked' /\ ~Sure(t))
    PROVE  /\ told' \in [Tags -> Stamp] /\ known' \in [Tags -> Stamp]
           /\ ManifestHolds'
           /\ \A u \in Tags : Sure(u) => Sure(u)'
<1>1. /\ told \in [Tags -> Stamp] /\ known \in [Tags -> Stamp] /\ now \in Nat
      /\ at \in Stamp /\ at <= now
  BY DEF IInv, TypeOK, CommonTypeOK, Stamp, Absent
<1>2. told[t] \in Stamp /\ known[t] \in Stamp
  BY <1>1
<1>3. Later(told[t], at) \in Stamp /\ Later(known[t], at) \in Stamp
  BY <1>1, <1>2 DEF Later
<1>4. told' \in [Tags -> Stamp] /\ known' \in [Tags -> Stamp]
  BY <1>1, <1>3 DEF Learn
<1>5. /\ told'[t] = Later(told[t], at) /\ known'[t] = Later(known[t], at)
      /\ \A u \in Tags \ {t} : told'[u] = told[u] /\ known'[u] = known[u]
  BY <1>1 DEF Learn
<1>6. Remembered(t)'
  <2>1. Remembered(t)
    BY DEF IInv, ManifestHolds
  <2>2. known'[t] <= told'[t] /\ told'[t] <= now'
    BY <1>1, <1>2, <1>5, <2>1 DEF Remembered, Later, Stamp, Absent
  <2>3. known'[t] = told'[t] \/ told'[t] <= completeSince'
    BY <1>1, <1>2, <1>5, <2>1 DEF Remembered, Later, Stamp, Absent
  <2>4. QED
    BY <2>2, <2>3 DEF Remembered
<1>7. ASSUME NEW u \in Tags \ {t} PROVE Remembered(u)' /\ (Sure(u) => Sure(u)')
  <2>1. Remembered(u)
    BY DEF IInv, ManifestHolds
  <2>2. Sure(u) <=> Sure(u)'
    BY <1>5 DEF Sure
  <2>3. u \in tracked' <=> u \in tracked
    OBVIOUS
  <2>4. QED
    BY <1>5, <2>1, <2>2, <2>3 DEF Remembered
<1>8. QED
  BY <1>4, <1>6, <1>7 DEF ManifestHolds

\* How each of the ways to learn of a tag leaves what is sure of it.
LEMMA LearnValues ==
    ASSUME IInv, NEW t \in Tags, NEW at \in {Absent} \cup 0 .. now, Learn(t, at)
    PROVE  /\ told'[t] = Later(told[t], at) /\ known'[t] = Later(known[t], at)
           /\ told[t] \in Int /\ known[t] \in Int /\ at \in Int /\ now \in Nat
           /\ tracked \in SUBSET Tags /\ short \in SUBSET tracked
           /\ Remembered(t)
  BY DEF IInv, TypeOK, CommonTypeOK, Learn, Stamp, Absent, ManifestHolds

\* What the manifest lets go of is let go of by every get that waits.
LEMMA LetGoHolds ==
    ASSUME IInv, NEW ts \in SUBSET Tags, LetGo(ts), completeSince' \in Nat,
           ts = Tags \/ completeSince' >= completeSince,
           \A t \in ts : told[t] <= completeSince'
    PROVE  IInv'
<1>0. TypeOK /\ ManifestHolds /\ GetsHold
  BY DEF IInv
<1>1. /\ now \in Nat /\ told \in [Tags -> Stamp] /\ known \in [Tags -> Stamp]
      /\ gets \in [Gets -> Get] /\ completeSince \in Nat
  BY <1>0 DEF TypeOK, CommonTypeOK
<1>2. known' \in [Tags -> Stamp]
  BY <1>1 DEF LetGo, Stamp
<1>3. ASSUME NEW g \in Gets
      PROVE  /\ gets'[g] \in Get
             /\ gets'[g].missed \subseteq gets'[g].letGo
             /\ gets'[g].phase = "reading" => Judges(gets[g])'
  <2> DEFINE get == gets[g]
             new == [get EXCEPT !.letGo = @ \cup ts]
  <2>1. get \in Get /\ get.missed \subseteq get.letGo /\ (get.phase = "reading" => Judges(get))
    BY <1>0, <1>1 DEF GetsHold
  <2>2. /\ new \in Get /\ new.missed = get.missed /\ new.letGo = get.letGo \cup ts
        /\ new.awaits = get.awaits /\ new.phase = get.phase
    BY <2>1 DEF Get
  <2>3. gets'[g] = IF get.phase \in Waiting \cup {"fetching"} THEN new ELSE get
    BY DEF LetGo
  <2> HIDE DEF new, get
  <2>4. CASE get.phase \in Waiting \cup {"fetching"}
    <3>1. gets'[g] = new
      BY <2>3, <2>4
    <3>2. ASSUME get.phase = "reading", NEW t \in Tags
          PROVE  t \in new.awaits \cup new.letGo \/ Sure(t)'
      BY <2>1, <2>2, <3>2 DEF LetGo, Judges, Sure
    <3>3. QED
      BY <2>1, <2>2, <3>1, <3>2 DEF Judges
  <2>5. CASE get.phase \notin Waiting \cup {"fetching"}
    BY <2>1, <2>3, <2>5 DEF Waiting
  <2>6. QED
    BY <2>4, <2>5
<1>4. gets' \in [Gets -> Get]
  BY <1>3 DEF LetGo
<1>5. GetsHold'
  BY <1>3 DEF GetsHold, Judges, Sure
<1>6. ASSUME NEW t \in Tags PROVE Remembered(t)'
  <2>1. Remembered(t) /\ told[t] \in Int /\ known[t] \in Int /\ (t \in Tags \ ts => t \notin ts)
    BY <1>0, <1>1 DEF ManifestHolds, Stamp, Absent
  <2>2. CASE t \in ts
    <3>1. told'[t] = told[t] /\ known'[t] = Absent /\ t \notin tracked' /\ now' = now
      BY <2>2 DEF LetGo
    <3>2. Absent <= told[t] /\ told[t] <= completeSince'
      BY <1>1, <2>2 DEF Stamp, Absent
    <3>3. QED
      BY <2>1, <3>1, <3>2 DEF Remembered
  <2>3. CASE t \notin ts
    <3>1. /\ told'[t] = told[t] /\ known'[t] = known[t] /\ now' = now
          /\ t \in tracked' <=> t \in tracked
          /\ t \in short' <=> t \in short
          /\ completeSince' >= completeSince
      BY <2>3 DEF LetGo
    <3>2. Sure(t)' <=> Sure(t)
      BY <3>1 DEF Sure
    <3>3. QED
      BY <1>1, <2>1, <3>1, <3>2 DEF Remembered
  <2>4. QED
    BY <2>2, <2>3
<1>7. TypeOK'
  BY <1>0, <1>1, <1>2, <1>4 DEF TypeOK, CommonTypeOK, LetGo, storeVars
<1>8. QED
  BY <1>5, <1>6, <1>7 DEF IInv, ManifestHolds
\* Nothing of the manifest or of the gets.
LEMMA Elsewhere ==
    ASSUME IInv, TypeOK', UNCHANGED <<told, known, tracked, short, completeSince, gets>>,
           now' >= now
    PROVE  IInv'
<1>1. /\ told \in [Tags -> Stamp] /\ known \in [Tags -> Stamp]
      /\ now \in Nat /\ now' \in Nat
  BY DEF IInv, TypeOK, CommonTypeOK
<1>2. ASSUME NEW t \in Tags PROVE Remembered(t)'
  <2>1. told[t] \in Int /\ known[t] \in Int /\ Remembered(t)
    BY <1>1 DEF IInv, ManifestHolds, Stamp, Absent
  <2>2. Sure(t)' <=> Sure(t)
    BY DEF Sure
  <2>3. QED
    BY <1>1, <2>1, <2>2 DEF Remembered
<1>3. GetsHold'
  BY DEF IInv, GetsHold, Judges, Sure
<1>4. QED
  BY <1>2, <1>3 DEF IInv, ManifestHolds

\* Reads begin at most, and one get goes on.
LEMMA GetGoesOn ==
    ASSUME IInv, NEW g \in Gets, NEW get \in Get, gets' = [gets EXCEPT ![g] = get],
           get.missed \subseteq get.letGo, get.phase = "reading" => Judges(get),
           UNCHANGED <<now, told, known, tracked, short, completeSince, registered, sets>>,
           reading' \in SUBSET Tags, memory' \in Stamp
    PROVE  IInv'
<1>1. gets' \in [Gets -> Get] /\ GetsHold'
  BY OneGet
<1>2. TypeOK'
  BY <1>1 DEF IInv, TypeOK, CommonTypeOK
<1>3. ManifestHolds'
  BY DEF IInv, ManifestHolds, Remembered, Sure
<1>4. QED
  BY <1>1, <1>2, <1>3 DEF IInv

LEMMA ReadHolds ==
    ASSUME IInv, NEW t \in Tags, AnswerRead(t)
    PROVE  IInv'
<1>1. TypeOK /\ GetsHold /\ gets \in [Gets -> Get]
  BY DEF IInv, TypeOK, CommonTypeOK
<1>2. PICK at \in {Absent} \cup 0 .. now :
          /\ Learn(t, at)
          /\ short' = IF Later(known[t], at) < told[t] THEN short \cup {t} ELSE short \ {t}
  BY DEF AnswerRead
<1>9. tracked' = tracked \cup {t} /\ UNCHANGED <<now, completeSince>>
  BY DEF AnswerRead
<1>10. Sure(t)'
  BY <1>2, LearnValues DEF Sure, Remembered, Later
<1>3. /\ told' \in [Tags -> Stamp] /\ known' \in [Tags -> Stamp] /\ ManifestHolds'
      /\ \A u \in Tags : Sure(u) \/ u = t => Sure(u)'
  <2>1. tracked' \in SUBSET Tags /\ short' \in SUBSET tracked'
    BY <1>2, <1>9, LearnValues
  <2>2. \A u \in Tags \ {t} :
               (u \in tracked' <=> u \in tracked) /\ (u \in short' <=> u \in short)
    BY <1>2, <1>9
  <2>3. QED
    BY <1>2, <1>9, <1>10, <2>1, <2>2, OneTag
<1>4. ASSUME NEW g \in Gets
      PROVE  /\ gets'[g] \in Get
             /\ gets'[g].missed \subseteq gets'[g].letGo
             /\ gets'[g].phase = "reading" => Judges(gets[g])'
  <2> DEFINE get == gets[g]
             new == [get EXCEPT !.awaits = @ \ {t}]
  <2>1. get \in Get /\ get.missed \subseteq get.letGo /\ (get.phase = "reading" => Judges(get))
    BY <1>1 DEF GetsHold
  <2>2. /\ new \in Get /\ new.missed = get.missed /\ new.letGo = get.letGo
        /\ new.awaits = get.awaits \ {t} /\ new.phase = get.phase
    BY <2>1 DEF Get
  <2>3. gets'[g] = new
    BY DEF AnswerRead
  <2> HIDE DEF new, get
  <2>4. ASSUME get.phase = "reading", NEW u \in Tags
        PROVE  u \in new.awaits \cup new.letGo \/ Sure(u)'
    BY <1>3, <2>1, <2>2, <2>4 DEF Judges
  <2>5. QED
    BY <2>1, <2>2, <2>3, <2>4 DEF Judges
<1>5. gets' \in [Gets -> Get]
  BY <1>4 DEF AnswerRead
<1>6. GetsHold'
  BY <1>4 DEF GetsHold, Judges, Sure
<1>7. TypeOK'
  BY <1>1, <1>3, <1>5 DEF TypeOK, CommonTypeOK, AnswerRead, storeVars
<1>8. QED
  BY <1>3, <1>6, <1>7 DEF IInv

LEMMA HearHolds ==
    ASSUME IInv, NEW t \in Tags, Hear(t) \/ RevalidateHere(t)
    PROVE  IInv'
<1>1. now \in Nat /\ known[t] \in Stamp
  BY DEF IInv, TypeOK, CommonTypeOK
<1>2. PICK at \in 0 .. now :
          /\ Learn(t, at) /\ UNCHANGED <<now, completeSince, reading, memory, registered, sets,
              gets>>
          /\ \/ /\ at > known[t] /\ tracked' = tracked
                /\ short' = IF at >= told[t] THEN short \ {t} ELSE short
             \/ /\ at = now /\ tracked' = tracked \cup {t} /\ short' = short \ {t}
  <2>1. CASE Hear(t)
    <3>1. PICK at \in (known[t] + 1) .. now :
              /\ Learn(t, at)
              /\ short' = IF at >= told[t] THEN short \ {t} ELSE short
      BY <2>1 DEF Hear
    <3>2. at \in 0 .. now /\ at > known[t]
      BY <1>1 DEF Stamp, Absent
    <3>3. QED
      BY <2>1, <3>1, <3>2 DEF Hear, storeVars
  <2>2. CASE RevalidateHere(t)
    BY <1>1, <2>2 DEF RevalidateHere, storeVars
  <2>3. QED
    BY <2>1, <2>2
<1>3. Sure(t)' \/ (t \notin tracked' /\ ~Sure(t))
  BY <1>2, LearnValues DEF Sure, Remembered, Later
<1>4. /\ told' \in [Tags -> Stamp] /\ known' \in [Tags -> Stamp] /\ ManifestHolds'
      /\ \A u \in Tags : Sure(u) => Sure(u)'
  <2>1. tracked' \in SUBSET Tags /\ short' \in SUBSET tracked'
    <3>1. tracked \in SUBSET Tags /\ short \in SUBSET tracked
      BY DEF IInv, TypeOK, CommonTypeOK
    <3>2. QED
      BY <1>2, <3>1
  <2>2. \A u \in Tags \ {t} :
               (u \in tracked' <=> u \in tracked) /\ (u \in short' <=> u \in short)
    BY <1>2
  <2>3. QED
    BY <1>2, <1>3, <2>1, <2>2, OneTag
<1>5. TypeOK'
  <2>1. tracked' \in SUBSET Tags /\ short' \in SUBSET tracked'
    <3>1. tracked \in SUBSET Tags /\ short \in SUBSET tracked
      BY DEF IInv, TypeOK, CommonTypeOK
    <3>2. QED
      BY <1>2, <3>1
  <2>2. QED
    BY <1>2, <1>4, <2>1 DEF IInv, TypeOK, CommonTypeOK
<1>6. GetsHold'
  <2>1. UNCHANGED gets
    BY <1>2
  <2>2. QED
    BY <1>4, <2>1 DEF IInv, GetsHold, Judges
<1>7. QED
  BY <1>4, <1>5, <1>6 DEF IInv

LEMMA CommonStepHolds ==
    ASSUME IInv, CommonNext
    PROVE  IInv'
<1>0. TypeOK /\ CommonTypeOK
  BY DEF IInv, TypeOK
<1>1. CASE Tick
  <2>1. TypeOK' /\ now' >= now
    BY <1>0, <1>1 DEF TypeOK, CommonTypeOK, Tick, manifestVars, markerVars, storeVars
  <2>2. QED
    BY <1>1, <2>1, Elsewhere DEF Tick, manifestVars, markerVars
<1>2. CASE Forget
  <2>1. ASSUME NEW t \in Tags PROVE told[t] <= now /\ told[t] \in Int
    BY <1>0 DEF IInv, ManifestHolds, Remembered, TypeOK, CommonTypeOK, Stamp, Absent
  <2>2. now \in Nat /\ completeSince \in Nat /\ completeSince' = now
    BY <1>0, <1>2 DEF CommonTypeOK, Forget
  <2>3. QED
    BY <1>2, <2>1, <2>2, LetGoHolds DEF Forget
<1>3. CASE DropEntry
  <2>1. TypeOK'
    BY <1>0, <1>3 DEF TypeOK, CommonTypeOK, DropEntry, manifestVars, markerVars, Stamp
  <2>2. QED
    BY <1>0, <1>3, <2>1, Elsewhere DEF DropEntry, manifestVars, markerVars, CommonTypeOK
<1>4. CASE \E t \in Tags : Hear(t) \/ RevalidateHere(t) \/ AnswerRead(t)
  BY <1>4, HearHolds, ReadHolds
<1>5. ASSUME NEW t \in Tags, Evict(t) PROVE IInv'
  <2>1. /\ completeSince \in Nat /\ known[t] \in Nat \cup {Absent} /\ told[t] \in Int
        /\ completeSince' = Later(completeSince, known[t])
    BY <1>0, <1>5 DEF CommonTypeOK, Evict, Stamp, Absent
  <2>2. completeSince' \in Nat /\ completeSince' >= completeSince /\ completeSince' >= known[t]
    BY <2>1 DEF Later, Absent
  <2>3. Remembered(t)
    BY DEF IInv, ManifestHolds
  <2>4. told[t] <= completeSince'
    BY <2>1, <2>2, <2>3 DEF Remembered, Absent
  <2>5. QED
    BY <1>5, <2>2, <2>4, LetGoHolds DEF Evict
<1>6. ASSUME NEW s \in Sets, Begin(s) PROVE IInv'
  <2>1. sets' \in [Sets -> Set] /\ sets'[s].phase = "streaming" /\ registered' = s
    BY <1>0, <1>6 DEF CommonTypeOK, Begin, Set, Stamp
  <2>2. TypeOK'
    BY <1>0, <1>6, <2>1 DEF TypeOK, CommonTypeOK, Begin, manifestVars, markerVars
  <2>3. QED
    BY <1>0, <1>6, <2>2, Elsewhere DEF Begin, manifestVars, markerVars, CommonTypeOK
<1>7. ASSUME NEW g \in Gets, WaitFor(g) PROVE IInv'
  <2> DEFINE get == [NoGet EXCEPT !.phase = "pending", !.behind = registered]
  <2>1. registered \in Sets
    BY <1>0, <1>7 DEF CommonTypeOK, WaitFor
  <2>2. get \in Get /\ get.missed = {} /\ get.phase = "pending"
    BY <2>1, NoGetIs
  <2>3. gets' = [gets EXCEPT ![g] = get]
    BY <1>7 DEF WaitFor
  <2> HIDE DEF get
  <2>4. QED
    BY <1>0, <1>7, <2>2, <2>3, GetGoesOn DEF WaitFor, manifestVars, markerVars, storeVars,
        CommonTypeOK
<1>8. QED
  BY <1>1, <1>2, <1>3, <1>4, <1>5, <1>6, <1>7 DEF CommonNext
\* What the manifest remembers is enough to judge an entry by that no read is needed for.
LEMMA KnownWhenNotNeeded ==
    ASSUME IInv, NEW entry \in Stamp, ~Needed(entry) \/ Unread(Tags) = {}, NEW t \in Tags
    PROVE  Sure(t) \/ told[t] <= entry
<1>1. Remembered(t) /\ told[t] \in Int /\ completeSince \in Nat /\ entry \in Int
  BY DEF IInv, ManifestHolds, TypeOK, CommonTypeOK, Stamp, Absent
<1>2. CASE ~Needed(entry)
  BY <1>1, <1>2 DEF Remembered, Needed, Sure
<1>3. CASE Unread(Tags) = {}
  BY <1>1, <1>3 DEF Remembered, Unread
<1>4. QED
  BY <1>2, <1>3

LEMMA DefaultGetHolds ==
    ASSUME IInv, NEW g \in Gets, GetMiss(g) \/ GetNow(g) \/ GetFirstReads(g) \/ Answer(g)
    PROVE  IInv'
<1>0. /\ TypeOK /\ GetsHold /\ memory \in Stamp /\ Absent \in Stamp
      /\ reading \in SUBSET Tags /\ reading \cup Unread(Tags) \in SUBSET Tags
      /\ gets \in [Gets -> Get] /\ Unread(Tags) \in SUBSET Tags
  BY DEF IInv, TypeOK, CommonTypeOK, Stamp, Unread
<1>1. CASE GetMiss(g)
  <2> DEFINE get == [NoGet EXCEPT !.phase = "answered"]
  <2>1. get \in Get /\ get.missed = {} /\ get.phase = "answered"
    BY NoGetIs
  <2>2. gets' = [gets EXCEPT ![g] = get] /\ memory' = Absent
        /\ UNCHANGED <<now, manifestVars, registered, sets>>
    BY <1>1 DEF GetMiss
  <2> HIDE DEF get
  <2>3. QED
    BY <1>0, <2>1, <2>2, GetGoesOn DEF manifestVars, markerVars
<1>2. CASE GetNow(g)
  <2> DEFINE get == Answered(NoGet, memory)
  <2>1. \A t \in Tags : t \in NoGet.letGo \/ Sure(t) \/ told[t] <= memory
    BY <1>0, <1>2, KnownWhenNotNeeded DEF GetNow
  <2>2. NoGet \in Get /\ NoGet.missed \subseteq NoGet.letGo
    BY NoGetIs
  <2> HIDE DEF get
  <2>5. get \in Get /\ get.missed \subseteq get.letGo /\ get.phase = "answered"
    BY <1>0, <2>1, <2>2, AnsweredHolds DEF get
  <2>3. gets' = [gets EXCEPT ![g] = get] /\ memory' \in Stamp /\ reading' \in SUBSET Tags
        /\ UNCHANGED <<now, told, known, tracked, short, completeSince, registered, sets>>
    BY <1>0, <1>2 DEF GetNow, Ensure, markerVars, get
  <2>4. QED
    BY <2>3, <2>5, GetGoesOn
<1>3. CASE GetFirstReads(g)
  <2> DEFINE get == [NoGet EXCEPT !.phase = "reading", !.entry = memory,
                                  !.awaits = Unread(Tags)]
  <2>1. get \in Get /\ get.missed = {} /\ get.awaits = Unread(Tags)
    BY <1>0, NoGetIs
  <2>2. gets' = [gets EXCEPT ![g] = get] /\ reading' \in SUBSET Tags
        /\ UNCHANGED <<now, told, known, tracked, short, completeSince, registered, sets, memory>>
    BY <1>0, <1>3 DEF GetFirstReads, Ensure, markerVars, storeVars
  <2> HIDE DEF get
  <2>3. Judges(get)
    BY <2>1 DEF Judges, Unread, IInv, ManifestHolds, Remembered, Sure
  <2>4. QED
    BY <1>0, <2>1, <2>2, <2>3, GetGoesOn
<1>4. CASE Answer(g)
  <2> DEFINE entry == gets[g].entry
             get   == Answered(gets[g], entry)
  <2>1. gets[g] \in Get /\ entry \in Stamp
    BY <1>0 DEF Get
  <2>2. gets[g].missed \subseteq gets[g].letGo
        /\ \A t \in Tags : t \in gets[g].letGo \/ Sure(t) \/ told[t] <= entry
    BY <1>0, <1>4 DEF GetsHold, Answer, Judges
  <2>3. gets' = [gets EXCEPT ![g] = get] /\ memory' \in Stamp
        /\ UNCHANGED <<now, manifestVars, registered, sets>>
    BY <1>0, <1>4 DEF Answer
  <2> HIDE DEF entry
  <2>4. get \in Get /\ get.missed \subseteq get.letGo /\ get.phase = "answered"
    BY <1>0, <2>1, <2>2, AnsweredHolds
  <2> HIDE DEF get
  <2>5. QED
    BY <1>0, <2>3, <2>4, GetGoesOn DEF manifestVars, markerVars
<1>5. QED
  BY <1>1, <1>2, <1>3, <1>4

LEMMA DefaultSetHolds ==
    ASSUME IInv, NEW s \in Sets, Store(s) \/ Fail(s)
    PROVE  IInv'
<1>0. CommonTypeOK
  BY DEF IInv, TypeOK
<1>1. PICK phase \in {"stored", "failed"} : Ends(s, phase) /\ Done(s)
  BY DEF Store, Fail
<1>2. /\ sets' \in [Sets -> Set] /\ registered' \in Sets \cup {None}
      /\ registered' # None => sets'[registered'].phase = "streaming"
  BY <1>0, <1>1, SetEnds
<1>3. sets[s].entry \in Stamp
  BY <1>0 DEF CommonTypeOK, Set
<1>4. reading' \subseteq Tags /\ memory' \in Stamp
      /\ UNCHANGED <<now, told, known, tracked, short, completeSince, gets>>
  BY <1>0, <1>3 DEF CommonTypeOK, Store, Fail, Ensure, Unread, manifestVars, markerVars
<1>5. TypeOK'
  BY <1>0, <1>2, <1>4 DEF TypeOK, CommonTypeOK
<1>6. QED
  BY <1>0, <1>4, <1>5, Elsewhere DEF CommonTypeOK

LEMMA StepHolds == IInv /\ [Next]_vars => IInv'
<1> SUFFICES ASSUME IInv, [Next]_vars PROVE IInv'
  OBVIOUS
<1>1. CASE Next
  BY <1>1, CommonStepHolds, DefaultGetHolds, DefaultSetHolds DEF Next
<1>2. CASE UNCHANGED vars
  <2>1. TypeOK'
    BY <1>2 DEF IInv, TypeOK, CommonTypeOK, vars, manifestVars, markerVars, storeVars
  <2>2. QED
    BY <1>2, <2>1, Elsewhere DEF IInv, TypeOK, CommonTypeOK, vars, manifestVars, markerVars
<1>3. QED
  BY <1>1, <1>2

THEOREM DefaultInvariance == Spec => []IInv
<1>1. QED
  BY InitHolds, StepHolds, PTL DEF Spec

\* The default handler alone: what it serves was judged by all the instance was told,
\* but for tags whose read fell short and tags let go of while it waited.
THEOREM DefaultServesJudged == Spec => []ServedIsJudged
<1>1. IInv => ServedIsJudged
  BY DEF IInv, GetsHold, ServedIsJudged
<1>2. QED
  BY <1>1, DefaultInvariance, PTL
--------------------------------------------------------------------------------
(* The remote handler: its manifest is the other one's, its gets wait for S3 too. *)

LEMMA RemoteInitHolds == Remote!Init => RemoteIInv
<1>1. Remote!None \notin {"away", "streaming", "putting", "stored", "failed"}
  BY DEF Remote!None
<1> SUFFICES ASSUME Remote!Init PROVE RemoteIInv
  OBVIOUS
<1>2. Remote!NoGet \in Remote!Get
  BY DEF Remote!NoGet, Remote!Get, Remote!None, Remote!Stamp, Remote!Absent
<1>3. Remote!TypeOK
  BY <1>2
     DEF Remote!TypeOK, Remote!CommonTypeOK, Remote!Init, Remote!CommonInit, Remote!Stamp,
         Remote!Absent, Remote!Set, Remote!None
<1>4. RemoteManifestHolds
  BY DEF Remote!Init, Remote!CommonInit, RemoteManifestHolds, RemoteRemembered, RemoteSure,
      Remote!Absent
<1>5. RemoteGetsHold
  BY DEF Remote!Init, Remote!CommonInit, RemoteGetsHold, RemoteGetHolds, Remote!NoGet
<1>6. QED
  BY <1>3, <1>4, <1>5 DEF RemoteIInv

\* An answer shows what was told later of no tag but those let go of.
LEMMA RemoteAnsweredHolds ==
    ASSUME Remote!TypeOK, NEW get \in Remote!Get, NEW entry \in Remote!Stamp,
           get.missed \subseteq get.letGo,
           \A t \in RemoteTags : t \in get.letGo \/ RemoteSure(t) \/ rtold[t] <= entry
    PROVE  /\ Remote!Answered(get, entry) \in Remote!Get
           /\ Remote!Answered(get, entry).missed \subseteq Remote!Answered(get, entry).letGo
           /\ Remote!Answered(get, entry).phase = "answered"
<1> DEFINE late == {t \in RemoteTags \ rshort : rtold[t] > entry}
           new  == [get EXCEPT !.phase = "answered", !.missed = late]
           dropped == [get EXCEPT !.phase = "answered"]
<1>1. dropped \in Remote!Get /\ dropped.missed = get.missed /\ dropped.letGo = get.letGo
      /\ dropped.phase = "answered"
  BY DEF Remote!Get
<1>2. new \in Remote!Get /\ new.missed = late /\ new.letGo = get.letGo /\ new.phase = "answered"
  BY DEF Remote!Get
<1>3. CASE Remote!Expired(entry)
  BY <1>1, <1>3 DEF Remote!Answered
<1>4. CASE ~Remote!Expired(entry)
  <2>1. ASSUME NEW t \in late PROVE t \in get.letGo
    <3>1. ~(rknown[t] > entry)
      BY <1>4 DEF Remote!Expired, Remote!Expires
    <3>2. rtold[t] \in Int /\ rknown[t] \in Int /\ entry \in Int
      BY DEF Remote!TypeOK, Remote!CommonTypeOK, Remote!Stamp, Remote!Absent
    <3>3. t \notin rshort /\ rtold[t] > entry
      OBVIOUS
    <3>4. QED
      BY <3>1, <3>2, <3>3 DEF RemoteSure
  <2>2. Remote!Answered(get, entry) = new
    BY <1>4 DEF Remote!Answered
  <2> HIDE DEF new, late
  <2>3. QED
    BY <1>2, <2>1, <2>2
<1>5. QED
  BY <1>3, <1>4

\* A step of one get leaves the others as they were.
LEMMA RemoteOneGet ==
    ASSUME RemoteIInv, NEW g \in Gets, NEW get \in Remote!Get,
           rgets' = [rgets EXCEPT ![g] = get],
           RemoteGetHolds(get),
           UNCHANGED <<rtold, rknown, rshort>>
    PROVE  rgets' \in [Gets -> Remote!Get] /\ RemoteGetsHold'
<1>1. rgets \in [Gets -> Remote!Get]
  BY DEF RemoteIInv, Remote!TypeOK, Remote!CommonTypeOK
<1>2. rgets' \in [Gets -> Remote!Get]
  BY <1>1
<1>3. ASSUME NEW h \in Gets
      PROVE  RemoteGetHolds(rgets'[h])
  BY <1>1, <1>3 DEF RemoteIInv, RemoteGetsHold
<1>4. RemoteGetsHold'
  BY <1>3 DEF RemoteGetsHold, RemoteGetHolds, RemoteJudges, RemoteSure
<1>5. QED
  BY <1>2, <1>4

LEMMA RemoteNoGetIs ==
    /\ Remote!NoGet \in Remote!Get /\ Remote!NoGet.missed = {}
    /\ Remote!NoGet.letGo = {} /\ Remote!NoGet.awaits = {}
    /\ [Remote!NoGet EXCEPT !.phase = "answered"] \in Remote!Get
    /\ [Remote!NoGet EXCEPT !.phase = "answered"].missed = {}
    /\ [Remote!NoGet EXCEPT !.phase = "answered"].phase = "answered"
    /\ \A s \in RemoteSets :
          LET get == [Remote!NoGet EXCEPT !.phase = "pending", !.behind = s]
          IN  get \in Remote!Get /\ get.missed = {} /\ get.phase = "pending"
    /\ \A e \in Remote!Stamp, ts \in SUBSET RemoteTags :
          LET get == [Remote!NoGet EXCEPT !.phase = "reading", !.entry = e, !.awaits = ts]
          IN  get \in Remote!Get /\ get.missed = {} /\ get.awaits = ts /\ get.letGo = {}
  BY DEF Remote!NoGet, Remote!Get, Remote!None, Remote!Stamp, Remote!Absent

\* What a set's end does to the sets.
LEMMA RemoteSetEnds ==
    ASSUME Remote!CommonTypeOK, NEW s \in RemoteSets, NEW phase \in {"stored", "failed"},
           Remote!Ends(s, phase), Remote!Done(s)
    PROVE  /\ rsets' \in [RemoteSets -> Remote!Set]
           /\ rregistered' \in RemoteSets \cup {Remote!None}
           /\ rregistered' # Remote!None => rsets'[rregistered'].phase = "streaming"
<1>1. rsets \in [RemoteSets -> Remote!Set] /\ rregistered \in RemoteSets \cup {Remote!None}
      /\ (rregistered # Remote!None => rsets[rregistered].phase = "streaming")
  BY DEF Remote!CommonTypeOK
<1>2. rsets' \in [RemoteSets -> Remote!Set]
  BY <1>1 DEF Remote!Ends, Remote!Set, Remote!Stamp
<1>3. rregistered' # Remote!None => rregistered' = rregistered /\ rregistered # s
  BY DEF Remote!Done
<1>4. rregistered' \in RemoteSets \cup {Remote!None}
  BY <1>1 DEF Remote!Done
<1>5. QED
  BY <1>1, <1>2, <1>3, <1>4 DEF Remote!Ends

\* A marker of a tag is merged into what is rknown: what was sure stays so, and what
\* is not sure is still to be read.
LEMMA RemoteOneTag ==
    ASSUME RemoteIInv, NEW t \in RemoteTags, NEW at \in {Remote!Absent} \cup 0 .. rnow,
        Remote!Learn(t, at),
           UNCHANGED <<rnow, rcomplete>>,
           rtracked' \in SUBSET RemoteTags, rshort' \in SUBSET rtracked',
           \A u \in RemoteTags \ {t} :
               (u \in rtracked' <=> u \in rtracked) /\ (u \in rshort' <=> u \in rshort),
           RemoteSure(t)' \/ (t \notin rtracked' /\ ~RemoteSure(t))
    PROVE  /\ rtold' \in [RemoteTags -> Remote!Stamp] /\ rknown' \in [RemoteTags -> Remote!Stamp]
           /\ RemoteManifestHolds'
           /\ \A u \in RemoteTags : RemoteSure(u) => RemoteSure(u)'
<1>1. /\ rtold \in [RemoteTags -> Remote!Stamp] /\ rknown \in [RemoteTags -> Remote!Stamp]
         /\ rnow \in Nat
      /\ at \in Remote!Stamp /\ at <= rnow
  BY DEF RemoteIInv, Remote!TypeOK, Remote!CommonTypeOK, Remote!Stamp, Remote!Absent
<1>2. rtold[t] \in Remote!Stamp /\ rknown[t] \in Remote!Stamp
  BY <1>1
<1>3. Remote!Later(rtold[t], at) \in Remote!Stamp /\ Remote!Later(rknown[t], at) \in Remote!Stamp
  BY <1>1, <1>2 DEF Remote!Later
<1>4. rtold' \in [RemoteTags -> Remote!Stamp] /\ rknown' \in [RemoteTags -> Remote!Stamp]
  BY <1>1, <1>3 DEF Remote!Learn
<1>5. /\ rtold'[t] = Remote!Later(rtold[t], at) /\ rknown'[t] = Remote!Later(rknown[t], at)
      /\ \A u \in RemoteTags \ {t} : rtold'[u] = rtold[u] /\ rknown'[u] = rknown[u]
  BY <1>1 DEF Remote!Learn
<1>6. RemoteRemembered(t)'
  <2>1. RemoteRemembered(t)
    BY DEF RemoteIInv, RemoteManifestHolds
  <2>2. rknown'[t] <= rtold'[t] /\ rtold'[t] <= rnow'
    BY <1>1, <1>2, <1>5, <2>1 DEF RemoteRemembered, Remote!Later, Remote!Stamp, Remote!Absent
  <2>3. rknown'[t] = rtold'[t] \/ rtold'[t] <= rcomplete'
    BY <1>1, <1>2, <1>5, <2>1 DEF RemoteRemembered, Remote!Later, Remote!Stamp, Remote!Absent
  <2>4. QED
    BY <2>2, <2>3 DEF RemoteRemembered
<1>7. ASSUME NEW u \in RemoteTags \ {t} PROVE RemoteRemembered(u)'
      /\ (RemoteSure(u) => RemoteSure(u)')
  <2>1. RemoteRemembered(u)
    BY DEF RemoteIInv, RemoteManifestHolds
  <2>2. RemoteSure(u) <=> RemoteSure(u)'
    BY <1>5 DEF RemoteSure
  <2>3. u \in rtracked' <=> u \in rtracked
    OBVIOUS
  <2>4. QED
    BY <1>5, <2>1, <2>2, <2>3 DEF RemoteRemembered
<1>8. QED
  BY <1>4, <1>6, <1>7 DEF RemoteManifestHolds

\* How each of the ways to learn of a tag leaves what is sure of it.
LEMMA RemoteLearnValues ==
    ASSUME RemoteIInv, NEW t \in RemoteTags, NEW at \in {Remote!Absent} \cup 0 .. rnow,
        Remote!Learn(t, at)
    PROVE  /\ rtold'[t] = Remote!Later(rtold[t], at) /\ rknown'[t] = Remote!Later(rknown[t], at)
           /\ rtold[t] \in Int /\ rknown[t] \in Int /\ at \in Int /\ rnow \in Nat
           /\ rtracked \in SUBSET RemoteTags /\ rshort \in SUBSET rtracked
           /\ RemoteRemembered(t)
  BY DEF RemoteIInv, Remote!TypeOK, Remote!CommonTypeOK, Remote!Learn, Remote!Stamp,
      Remote!Absent, RemoteManifestHolds

\* What the manifest lets go of is let go of by every get that waits.
LEMMA RemoteLetGoHolds ==
    ASSUME RemoteIInv, NEW ts \in SUBSET RemoteTags, Remote!LetGo(ts), UNCHANGED object,
           rcomplete' \in Nat,
           ts = RemoteTags \/ rcomplete' >= rcomplete,
           \A t \in ts : rtold[t] <= rcomplete'
    PROVE  RemoteIInv'
<1>0. Remote!TypeOK /\ RemoteManifestHolds /\ RemoteGetsHold
  BY DEF RemoteIInv
<1>1. /\ rnow \in Nat /\ rtold \in [RemoteTags -> Remote!Stamp]
      /\ rknown \in [RemoteTags -> Remote!Stamp]
      /\ rgets \in [Gets -> Remote!Get] /\ rcomplete \in Nat
  BY <1>0 DEF Remote!TypeOK, Remote!CommonTypeOK
<1>2. rknown' \in [RemoteTags -> Remote!Stamp]
  BY <1>1 DEF Remote!LetGo, Remote!Stamp
<1>3. ASSUME NEW g \in Gets
      PROVE  /\ rgets'[g] \in Remote!Get
             /\ RemoteGetHolds(rgets[g])'
  <2> DEFINE get == rgets[g]
             new == [get EXCEPT !.letGo = @ \cup ts]
  <2>1. get \in Remote!Get /\ RemoteGetHolds(get)
    BY <1>0, <1>1 DEF RemoteGetsHold
  <2>2. /\ new \in Remote!Get /\ new.missed = get.missed /\ new.letGo = get.letGo \cup ts
        /\ new.awaits = get.awaits /\ new.phase = get.phase /\ new.entry = get.entry
    BY <2>1 DEF Remote!Get
  <2>3. rgets'[g] = IF get.phase \in Remote!Waiting \cup {"fetching"} THEN new ELSE get
    BY DEF Remote!LetGo
  <2> HIDE DEF new, get
  <2>4. CASE get.phase \in Remote!Waiting \cup {"fetching"}
    <3>1. rgets'[g] = new
      BY <2>3, <2>4
    <3>2. ASSUME RemoteJudges(get), NEW t \in RemoteTags
          PROVE  t \in new.awaits \cup new.letGo \/ RemoteSure(t)'
      BY <2>2, <3>2 DEF Remote!LetGo, RemoteJudges, RemoteSure
    <3>3. QED
      BY <2>1, <2>2, <3>1, <3>2 DEF RemoteGetHolds, RemoteJudges
  <2>5. CASE get.phase \notin Remote!Waiting \cup {"fetching"}
    BY <2>1, <2>3, <2>5 DEF Remote!Waiting, RemoteGetHolds
  <2>6. QED
    BY <2>4, <2>5
<1>4. rgets' \in [Gets -> Remote!Get]
  BY <1>3 DEF Remote!LetGo
<1>5. RemoteGetsHold'
  BY <1>3 DEF RemoteGetsHold, RemoteGetHolds, RemoteJudges, RemoteSure
<1>6. ASSUME NEW t \in RemoteTags PROVE RemoteRemembered(t)'
  <2>1. RemoteRemembered(t) /\ rtold[t] \in Int /\ rknown[t] \in Int
        /\ (t \in RemoteTags \ ts => t \notin ts)
    BY <1>0, <1>1 DEF RemoteManifestHolds, Remote!Stamp, Remote!Absent
  <2>2. CASE t \in ts
    <3>1. rtold'[t] = rtold[t] /\ rknown'[t] = Remote!Absent /\ t \notin rtracked' /\ rnow' = rnow
      BY <2>2 DEF Remote!LetGo
    <3>2. Remote!Absent <= rtold[t] /\ rtold[t] <= rcomplete'
      BY <1>1, <2>2 DEF Remote!Stamp, Remote!Absent
    <3>3. QED
      BY <2>1, <3>1, <3>2 DEF RemoteRemembered
  <2>3. CASE t \notin ts
    <3>1. /\ rtold'[t] = rtold[t] /\ rknown'[t] = rknown[t] /\ rnow' = rnow
          /\ t \in rtracked' <=> t \in rtracked
          /\ t \in rshort' <=> t \in rshort
          /\ rcomplete' >= rcomplete
      BY <2>3 DEF Remote!LetGo
    <3>2. RemoteSure(t)' <=> RemoteSure(t)
      BY <3>1 DEF RemoteSure
    <3>3. QED
      BY <1>1, <2>1, <3>1, <3>2 DEF RemoteRemembered
  <2>4. QED
    BY <2>2, <2>3
<1>7. Remote!TypeOK'
  BY <1>0, <1>1, <1>2, <1>4
     DEF Remote!TypeOK, Remote!CommonTypeOK, Remote!LetGo, Remote!storeVars
<1>8. QED
  BY <1>5, <1>6, <1>7 DEF RemoteIInv, RemoteManifestHolds

\* Nothing of the manifest or of the gets.
LEMMA RemoteElsewhere ==
    ASSUME RemoteIInv, Remote!TypeOK', UNCHANGED <<rtold, rknown, rtracked, rshort, rcomplete,
        rgets>>,
           rnow' >= rnow
    PROVE  RemoteIInv'
<1>1. /\ rtold \in [RemoteTags -> Remote!Stamp] /\ rknown \in [RemoteTags -> Remote!Stamp]
      /\ rnow \in Nat /\ rnow' \in Nat
  BY DEF RemoteIInv, Remote!TypeOK, Remote!CommonTypeOK
<1>2. ASSUME NEW t \in RemoteTags PROVE RemoteRemembered(t)'
  <2>1. rtold[t] \in Int /\ rknown[t] \in Int /\ RemoteRemembered(t)
    BY <1>1 DEF RemoteIInv, RemoteManifestHolds, Remote!Stamp, Remote!Absent
  <2>2. RemoteSure(t)' <=> RemoteSure(t)
    BY DEF RemoteSure
  <2>3. QED
    BY <1>1, <2>1, <2>2 DEF RemoteRemembered
<1>3. RemoteGetsHold'
  BY DEF RemoteIInv, RemoteGetsHold, RemoteGetHolds, RemoteJudges, RemoteSure
<1>4. QED
  BY <1>2, <1>3 DEF RemoteIInv, RemoteManifestHolds

\* Reads begin at most, and one get goes on.
LEMMA RemoteGetGoesOn ==
    ASSUME RemoteIInv, NEW g \in Gets, NEW get \in Remote!Get,
           rgets' = [rgets EXCEPT ![g] = get],
           RemoteGetHolds(get),
           UNCHANGED <<rnow, rtold, rknown, rtracked, rshort, rcomplete, rregistered, rsets>>,
           rreading' \in SUBSET RemoteTags, UNCHANGED object, rmemory' \in Remote!Stamp
    PROVE  RemoteIInv'
<1>1. rgets' \in [Gets -> Remote!Get] /\ RemoteGetsHold'
  BY RemoteOneGet
<1>2. Remote!TypeOK'
  BY <1>1 DEF RemoteIInv, Remote!TypeOK, Remote!CommonTypeOK
<1>3. RemoteManifestHolds'
  BY DEF RemoteIInv, RemoteManifestHolds, RemoteRemembered, RemoteSure
<1>4. QED
  BY <1>1, <1>2, <1>3 DEF RemoteIInv

LEMMA RemoteReadHolds ==
    ASSUME RemoteIInv, NEW t \in RemoteTags, UNCHANGED object, Remote!AnswerRead(t)
    PROVE  RemoteIInv'
<1>1. Remote!TypeOK /\ RemoteGetsHold /\ rgets \in [Gets -> Remote!Get]
  BY DEF RemoteIInv, Remote!TypeOK, Remote!CommonTypeOK
<1>2. PICK at \in {Remote!Absent} \cup 0 .. rnow :
          /\ Remote!Learn(t, at)
          /\ rshort' = IF Remote!Later(rknown[t], at) < rtold[t] THEN rshort \cup {t}
              ELSE rshort \ {t}
  BY DEF Remote!AnswerRead
<1>9. rtracked' = rtracked \cup {t} /\ UNCHANGED <<rnow, rcomplete>>
  BY DEF Remote!AnswerRead
<1>10. RemoteSure(t)'
  BY <1>2, RemoteLearnValues DEF RemoteSure, RemoteRemembered, Remote!Later
<1>3. /\ rtold' \in [RemoteTags -> Remote!Stamp] /\ rknown' \in [RemoteTags -> Remote!Stamp]
         /\ RemoteManifestHolds'
      /\ \A u \in RemoteTags : RemoteSure(u) \/ u = t => RemoteSure(u)'
  <2>1. rtracked' \in SUBSET RemoteTags /\ rshort' \in SUBSET rtracked'
    BY <1>2, <1>9, RemoteLearnValues
  <2>2. \A u \in RemoteTags \ {t} :
               (u \in rtracked' <=> u \in rtracked) /\ (u \in rshort' <=> u \in rshort)
    BY <1>2, <1>9
  <2>3. QED
    BY <1>2, <1>9, <1>10, <2>1, <2>2, RemoteOneTag
<1>4. ASSUME NEW g \in Gets
      PROVE  /\ rgets'[g] \in Remote!Get
             /\ RemoteGetHolds(rgets[g])'
  <2> DEFINE get == rgets[g]
             new == [get EXCEPT !.awaits = @ \ {t}]
  <2>1. get \in Remote!Get /\ RemoteGetHolds(get)
    BY <1>1 DEF RemoteGetsHold
  <2>2. /\ new \in Remote!Get /\ new.missed = get.missed /\ new.letGo = get.letGo
        /\ new.awaits = get.awaits \ {t} /\ new.phase = get.phase /\ new.entry = get.entry
    BY <2>1 DEF Remote!Get
  <2>3. rgets'[g] = new
    BY DEF Remote!AnswerRead
  <2> HIDE DEF new, get
  <2>4. ASSUME RemoteJudges(get), NEW u \in RemoteTags
        PROVE  u \in new.awaits \cup new.letGo \/ RemoteSure(u)'
    BY <1>3, <2>2, <2>4 DEF RemoteJudges
  <2>5. QED
    BY <2>1, <2>2, <2>3, <2>4 DEF RemoteGetHolds, RemoteJudges
<1>5. rgets' \in [Gets -> Remote!Get]
  BY <1>4 DEF Remote!AnswerRead
<1>6. RemoteGetsHold'
  BY <1>4 DEF RemoteGetsHold, RemoteGetHolds, RemoteJudges, RemoteSure
<1>7. Remote!TypeOK'
  BY <1>1, <1>3, <1>5
     DEF Remote!TypeOK, Remote!CommonTypeOK, Remote!AnswerRead, Remote!storeVars
<1>8. QED
  BY <1>3, <1>6, <1>7 DEF RemoteIInv

LEMMA RemoteHearHolds ==
    ASSUME RemoteIInv, NEW t \in RemoteTags, UNCHANGED object,
           Remote!Hear(t) \/ Remote!RevalidateHere(t)
    PROVE  RemoteIInv'
<1>1. rnow \in Nat /\ rknown[t] \in Remote!Stamp
  BY DEF RemoteIInv, Remote!TypeOK, Remote!CommonTypeOK
<1>2. PICK at \in 0 .. rnow :
          /\ Remote!Learn(t, at) /\ UNCHANGED <<rnow, rcomplete, rreading, rmemory, rregistered,
              rsets, rgets, object>>
          /\ \/ /\ at > rknown[t] /\ rtracked' = rtracked
                /\ rshort' = IF at >= rtold[t] THEN rshort \ {t} ELSE rshort
             \/ /\ at = rnow /\ rtracked' = rtracked \cup {t} /\ rshort' = rshort \ {t}
  <2>1. CASE Remote!Hear(t)
    <3>1. PICK at \in (rknown[t] + 1) .. rnow :
              /\ Remote!Learn(t, at)
              /\ rshort' = IF at >= rtold[t] THEN rshort \ {t} ELSE rshort
      BY <2>1 DEF Remote!Hear
    <3>2. at \in 0 .. rnow /\ at > rknown[t]
      BY <1>1 DEF Remote!Stamp, Remote!Absent
    <3>3. QED
      BY <2>1, <3>1, <3>2 DEF Remote!Hear, Remote!storeVars
  <2>2. CASE Remote!RevalidateHere(t)
    BY <1>1, <2>2 DEF Remote!RevalidateHere, Remote!storeVars
  <2>3. QED
    BY <2>1, <2>2
<1>3. RemoteSure(t)' \/ (t \notin rtracked' /\ ~RemoteSure(t))
  BY <1>2, RemoteLearnValues DEF RemoteSure, RemoteRemembered, Remote!Later
<1>4. /\ rtold' \in [RemoteTags -> Remote!Stamp] /\ rknown' \in [RemoteTags -> Remote!Stamp]
         /\ RemoteManifestHolds'
      /\ \A u \in RemoteTags : RemoteSure(u) => RemoteSure(u)'
  <2>1. rtracked' \in SUBSET RemoteTags /\ rshort' \in SUBSET rtracked'
    <3>1. rtracked \in SUBSET RemoteTags /\ rshort \in SUBSET rtracked
      BY DEF RemoteIInv, Remote!TypeOK, Remote!CommonTypeOK
    <3>2. QED
      BY <1>2, <3>1
  <2>2. \A u \in RemoteTags \ {t} :
               (u \in rtracked' <=> u \in rtracked) /\ (u \in rshort' <=> u \in rshort)
    BY <1>2
  <2>3. QED
    BY <1>2, <1>3, <2>1, <2>2, RemoteOneTag
<1>5. Remote!TypeOK'
  <2>1. rtracked' \in SUBSET RemoteTags /\ rshort' \in SUBSET rtracked'
    <3>1. rtracked \in SUBSET RemoteTags /\ rshort \in SUBSET rtracked
      BY DEF RemoteIInv, Remote!TypeOK, Remote!CommonTypeOK
    <3>2. QED
      BY <1>2, <3>1
  <2>2. QED
    BY <1>2, <1>4, <2>1 DEF RemoteIInv, Remote!TypeOK, Remote!CommonTypeOK
<1>6. RemoteGetsHold'
  <2>1. UNCHANGED rgets
    BY <1>2
  <2>2. QED
    BY <1>4, <2>1 DEF RemoteIInv, RemoteGetsHold, RemoteGetHolds, RemoteJudges
<1>7. QED
  BY <1>4, <1>5, <1>6 DEF RemoteIInv

LEMMA RemoteCommonStepHolds ==
    ASSUME RemoteIInv, Remote!CommonNext, UNCHANGED object
    PROVE  RemoteIInv'
<1>0. Remote!TypeOK /\ Remote!CommonTypeOK
  BY DEF RemoteIInv, Remote!TypeOK
<1>1. CASE Remote!Tick
  <2>1. Remote!TypeOK' /\ rnow' >= rnow
    BY <1>0, <1>1
       DEF Remote!TypeOK, Remote!CommonTypeOK, Remote!Tick, Remote!manifestVars,
           Remote!markerVars, Remote!storeVars
  <2>2. QED
    BY <1>1, <2>1, RemoteElsewhere DEF Remote!Tick, Remote!manifestVars, Remote!markerVars
<1>2. CASE Remote!Forget
  <2>1. ASSUME NEW t \in RemoteTags PROVE rtold[t] <= rnow /\ rtold[t] \in Int
    BY <1>0
       DEF RemoteIInv, RemoteManifestHolds, RemoteRemembered, Remote!TypeOK,
           Remote!CommonTypeOK, Remote!Stamp, Remote!Absent
  <2>2. rnow \in Nat /\ rcomplete \in Nat /\ rcomplete' = rnow
    BY <1>0, <1>2 DEF Remote!CommonTypeOK, Remote!Forget
  <2>3. QED
    BY <1>2, <2>1, <2>2, RemoteLetGoHolds DEF Remote!Forget
<1>3. CASE Remote!DropEntry
  <2>1. Remote!TypeOK'
    BY <1>0, <1>3
       DEF Remote!TypeOK, Remote!CommonTypeOK, Remote!DropEntry, Remote!manifestVars,
           Remote!markerVars, Remote!Stamp
  <2>2. QED
    BY <1>0, <1>3, <2>1, RemoteElsewhere
       DEF Remote!DropEntry, Remote!manifestVars, Remote!markerVars, Remote!CommonTypeOK
<1>4. CASE \E t \in RemoteTags : Remote!Hear(t) \/ Remote!RevalidateHere(t) \/ Remote!AnswerRead(t)
  BY <1>4, RemoteHearHolds, RemoteReadHolds
<1>5. ASSUME NEW t \in RemoteTags, Remote!Evict(t) PROVE RemoteIInv'
  <2>1. /\ rcomplete \in Nat /\ rknown[t] \in Nat \cup {Remote!Absent} /\ rtold[t] \in Int
        /\ rcomplete' = Remote!Later(rcomplete, rknown[t])
    BY <1>0, <1>5 DEF Remote!CommonTypeOK, Remote!Evict, Remote!Stamp, Remote!Absent
  <2>2. rcomplete' \in Nat /\ rcomplete' >= rcomplete /\ rcomplete' >= rknown[t]
    BY <2>1 DEF Remote!Later, Remote!Absent
  <2>3. RemoteRemembered(t)
    BY DEF RemoteIInv, RemoteManifestHolds
  <2>4. rtold[t] <= rcomplete'
    BY <2>1, <2>2, <2>3 DEF RemoteRemembered, Remote!Absent
  <2>5. QED
    BY <1>5, <2>2, <2>4, RemoteLetGoHolds DEF Remote!Evict
<1>6. ASSUME NEW s \in RemoteSets, Remote!Begin(s) PROVE RemoteIInv'
  <2>1. rsets' \in [RemoteSets -> Remote!Set] /\ rsets'[s].phase = "streaming" /\ rregistered' = s
    BY <1>0, <1>6 DEF Remote!CommonTypeOK, Remote!Begin, Remote!Set, Remote!Stamp
  <2>2. Remote!TypeOK'
    BY <1>0, <1>6, <2>1
       DEF Remote!TypeOK, Remote!CommonTypeOK, Remote!Begin, Remote!manifestVars, Remote!markerVars
  <2>3. QED
    BY <1>0, <1>6, <2>2, RemoteElsewhere
       DEF Remote!Begin, Remote!manifestVars, Remote!markerVars, Remote!CommonTypeOK
<1>7. ASSUME NEW g \in Gets, Remote!WaitFor(g) PROVE RemoteIInv'
  <2> DEFINE get == [Remote!NoGet EXCEPT !.phase = "pending", !.behind = rregistered]
  <2>1. rregistered \in RemoteSets
    BY <1>0, <1>7 DEF Remote!CommonTypeOK, Remote!WaitFor
  <2>2. get \in Remote!Get /\ get.missed = {} /\ get.phase = "pending"
    BY <2>1, RemoteNoGetIs
  <2>3. rgets' = [rgets EXCEPT ![g] = get]
    BY <1>7 DEF Remote!WaitFor
  <2> HIDE DEF get
  <2>4. QED
    BY <1>0, <1>7, <2>2, <2>3, RemoteGetGoesOn
       DEF Remote!WaitFor, Remote!manifestVars, Remote!markerVars, Remote!storeVars,
           Remote!CommonTypeOK,
           RemoteGetHolds
<1>8. QED
  BY <1>1, <1>2, <1>3, <1>4, <1>5, <1>6, <1>7 DEF Remote!CommonNext


\* What a get's next record is, and that it holds.
RemoteGoesOn(g) == \E get \in Remote!Get :
    rgets' = [rgets EXCEPT ![g] = get] /\ RemoteGetHolds(get) /\ rmemory' \in Remote!Stamp

LEMMA RemoteJudgeHolds ==
    ASSUME RemoteIInv, NEW g \in Gets, NEW get \in Remote!Get, NEW held \in Remote!Stamp,
           get.missed \subseteq get.letGo, get.awaits = {},
           get.entry # Absent => RemoteJudges(get),
           Remote!Judge(g, get, held)
    PROVE  RemoteGoesOn(g)
<1>0. get.entry \in Remote!Stamp /\ Remote!Absent \in Remote!Stamp /\ Absent = Remote!Absent
  BY DEF Remote!Get, Remote!Stamp, Remote!Absent, Absent
<1>1. rmemory' \in Remote!Stamp
  BY <1>0 DEF Remote!Judge
<1> DEFINE dropped == [get EXCEPT !.phase = "answered"]
           new     == Remote!Answered(get, get.entry)
<1>2. dropped \in Remote!Get /\ RemoteGetHolds(dropped)
  BY DEF Remote!Get, RemoteGetHolds
<1>3. rgets' = [rgets EXCEPT ![g] =
                    IF get.entry = Absent \/ Remote!IsPastExpire(get.entry, get.at)
                    THEN dropped ELSE new]
  BY <1>0 DEF Remote!Judge
<1> HIDE DEF dropped, new
<1>4. CASE get.entry = Absent \/ Remote!IsPastExpire(get.entry, get.at)
  BY <1>1, <1>2, <1>3, <1>4 DEF RemoteGoesOn
<1>5. CASE ~(get.entry = Absent \/ Remote!IsPastExpire(get.entry, get.at))
  <2>1. \A t \in RemoteTags :
            t \in get.letGo \/ RemoteSure(t) \/ rtold[t] <= get.entry
    BY <1>5 DEF RemoteJudges
  <2>2. /\ new \in Remote!Get /\ new.missed \subseteq new.letGo /\ new.phase = "answered"
    BY <1>0, <2>1, RemoteAnsweredHolds DEF RemoteIInv, new
  <2>3. RemoteGetHolds(new)
    BY <2>2 DEF RemoteGetHolds
  <2>4. QED
    BY <1>1, <1>3, <1>5, <2>2, <2>3 DEF RemoteGoesOn
<1>6. QED
  BY <1>4, <1>5

LEMMA RemoteCheckHolds ==
    ASSUME RemoteIInv, NEW g \in Gets, NEW get \in Remote!Get,
           get.missed \subseteq get.letGo, get.awaits = {}, RemoteJudges(get),
           Remote!Check(g, get)
    PROVE  RemoteGoesOn(g)
<1>1. rmemory \in Remote!Stamp
  BY DEF RemoteIInv, Remote!TypeOK, Remote!CommonTypeOK
<1>2. CASE Remote!Fetches(get)
  <2> DEFINE new == [get EXCEPT !.phase = "fetching", !.found = Remote!Absent,
                                !.expired = Remote!Expired(get.entry)]
  <2>1. Remote!Expired(get.entry) \in BOOLEAN
    BY DEF Remote!Expired
  <2>2. /\ new \in Remote!Get /\ new.missed = get.missed /\ new.letGo = get.letGo
        /\ new.awaits = get.awaits /\ new.phase = "fetching" /\ new.entry = get.entry
    BY <2>1 DEF Remote!Get, Remote!Stamp, Remote!Absent
  <2>3. rgets' = [rgets EXCEPT ![g] = new] /\ rmemory' = rmemory
    BY <1>2 DEF Remote!Check
  <2> HIDE DEF new
  <2>4. RemoteGetHolds(new)
    BY <2>2 DEF RemoteGetHolds, RemoteJudges
  <2>5. QED
    BY <1>1, <2>2, <2>3, <2>4 DEF RemoteGoesOn
<1>3. CASE ~Remote!Fetches(get)
  BY <1>1, <1>3, RemoteJudgeHolds DEF Remote!Check
<1>4. QED
  BY <1>2, <1>3

LEMMA RemoteCalledIs ==
    ASSUME RemoteIInv, NEW entry \in Remote!Stamp
    PROVE  LET get == Remote!Called(entry)
           IN  /\ get \in Remote!Get /\ get.missed = {} /\ get.letGo = {} /\ get.awaits = {}
               /\ get.entry = entry
<1>1. rnow \in Nat
  BY DEF RemoteIInv, Remote!TypeOK, Remote!CommonTypeOK
<1>2. QED
  BY <1>1 DEF Remote!Called, Remote!NoGet, Remote!Get, Remote!None, Remote!Stamp, Remote!Absent

\* With every tag read, the manifest knows all it was told.
LEMMA RemoteAllRead ==
    ASSUME RemoteIInv, NEW t \in RemoteTags, t \notin Remote!Unread(RemoteTags)
    PROVE  RemoteSure(t)
  BY DEF RemoteIInv, RemoteManifestHolds, RemoteRemembered, RemoteSure, Remote!Unread

LEMMA RemoteGetGoes ==
    ASSUME RemoteIInv, NEW g \in Gets, Remote!GetStep(g) \/ Remote!S3Answers(g)
    PROVE  /\ RemoteGoesOn(g) /\ rreading' \in SUBSET RemoteTags
           /\ UNCHANGED <<rnow, rtold, rknown, rtracked, rshort, rcomplete, rregistered, rsets,
                          object>>
<1>0. /\ rmemory \in Remote!Stamp /\ object \in Remote!Stamp /\ rgets[g] \in Remote!Get
      /\ Remote!Absent \in Remote!Stamp /\ Absent = Remote!Absent
      /\ rreading \in SUBSET RemoteTags /\ Remote!Unread(RemoteTags) \in SUBSET RemoteTags
      /\ RemoteGetHolds(rgets[g])
  BY DEF RemoteIInv, Remote!TypeOK, Remote!CommonTypeOK, Remote!Stamp, Remote!Unread,
         RemoteGetsHold, Remote!Absent, Absent
<1>1. CASE Remote!GetNothing(g)
  <2> DEFINE called == Remote!Called(Remote!Absent)
             get    == [called EXCEPT !.phase = "fetching"]
  <2>1. /\ called \in Remote!Get /\ called.missed = {} /\ called.awaits = {}
        /\ called.entry = Remote!Absent
    BY <1>0, RemoteCalledIs
  <2>2. /\ rgets' = [rgets EXCEPT ![g] = get] /\ rmemory' = rmemory /\ rreading' = rreading
        /\ UNCHANGED <<rnow, rtold, rknown, rtracked, rshort, rcomplete, rregistered, rsets,
                       object>>
    BY <1>1 DEF Remote!GetNothing, Remote!manifestVars, Remote!markerVars, Remote!storeVars
  <2> HIDE DEF called
  <2>3. /\ get \in Remote!Get /\ get.missed = {} /\ get.awaits = {} /\ get.phase = "fetching"
        /\ get.entry = Remote!Absent
    BY <2>1 DEF Remote!Get
  <2> HIDE DEF get
  <2>4. QED
    BY <1>0, <2>2, <2>3 DEF RemoteGoesOn, RemoteGetHolds
<1>2. CASE Remote!GetHeld(g)
  <2> DEFINE called == Remote!Called(rmemory)
             get    == [called EXCEPT !.phase = "reading",
                                      !.awaits = Remote!Unread(RemoteTags)]
  <2>1. called \in Remote!Get /\ called.missed = {} /\ called.letGo = {} /\ called.awaits = {}
    BY <1>0, RemoteCalledIs
  <2>2. /\ rreading' \in SUBSET RemoteTags
        /\ UNCHANGED <<rnow, rtold, rknown, rtracked, rshort, rcomplete, rregistered, rsets,
                       object>>
    BY <1>0, <1>2 DEF Remote!GetHeld, Remote!Ensure, Remote!markerVars
  <2>3. \/ Remote!Unread(RemoteTags) = {} /\ Remote!Check(g, called)
        \/ rgets' = [rgets EXCEPT ![g] = get] /\ rmemory' = rmemory
    BY <1>2 DEF Remote!GetHeld
  <2> HIDE DEF called
  <2>4. get \in Remote!Get /\ get.missed = {} /\ get.awaits = Remote!Unread(RemoteTags)
        /\ get.phase = "reading"
    BY <1>0, <2>1 DEF Remote!Get
  <2> HIDE DEF get
  <2>5. RemoteJudges(get)
    BY <2>4, RemoteAllRead DEF RemoteJudges
  <2>6. CASE Remote!Unread(RemoteTags) = {} /\ Remote!Check(g, called)
    <3>1. RemoteJudges(called)
      BY <2>6, RemoteAllRead DEF RemoteJudges
    <3>2. QED
      BY <2>1, <2>2, <2>6, <3>1, RemoteCheckHolds
  <2>7. CASE rgets' = [rgets EXCEPT ![g] = get] /\ rmemory' = rmemory
    BY <1>0, <2>2, <2>4, <2>5, <2>7 DEF RemoteGoesOn, RemoteGetHolds
  <2>8. QED
    BY <2>3, <2>6, <2>7
<1>3. CASE Remote!HeldRead(g)
  <2>1. rgets[g].awaits = {} /\ Remote!Check(g, rgets[g]) /\ RemoteJudges(rgets[g])
    BY <1>0, <1>3 DEF Remote!HeldRead, RemoteGetHolds
  <2>2. QED
    BY <1>0, <1>3, <2>1, RemoteCheckHolds
       DEF RemoteGetHolds, Remote!HeldRead, Remote!manifestVars, Remote!markerVars
<1>4. CASE Remote!S3Answers(g)
  <2> DEFINE old == rgets[g]
             get == [old EXCEPT !.found = object]
  <2>1. /\ rgets' = [rgets EXCEPT ![g].found = object]
        /\ UNCHANGED <<rnow, rtold, rknown, rtracked, rshort, rreading, rcomplete, rmemory,
                       rregistered,
                       rsets, object>>
        /\ old.phase = "fetching" /\ RemoteGetHolds(old) /\ old \in Remote!Get
    BY <1>0, <1>4 DEF Remote!S3Answers, Remote!manifestVars, Remote!markerVars, Remote!storeVars
  <2>2. rgets' = [rgets EXCEPT ![g] = get]
    BY <2>1
  <2> HIDE DEF old
  <2>3. /\ get \in Remote!Get /\ get.missed = old.missed /\ get.letGo = old.letGo
        /\ get.awaits = old.awaits /\ get.phase = old.phase /\ get.entry = old.entry
    BY <1>0, <2>1 DEF Remote!Get
  <2> HIDE DEF get
  <2>4. RemoteGetHolds(get)
    BY <2>1, <2>3 DEF RemoteGetHolds, RemoteJudges
  <2>5. QED
    BY <1>0, <2>1, <2>2, <2>3, <2>4 DEF RemoteGoesOn
<1>5. CASE Remote!Fetched(g)
  <2> DEFINE get   == rgets[g]
             found == [get EXCEPT !.entry = get.found, !.expired = FALSE]
             next  == [found EXCEPT !.phase = "rereading", !.awaits = Remote!FetchedAwaits]
  <2>1. /\ get \in Remote!Get /\ get.awaits = {} /\ get.missed \subseteq get.letGo
        /\ get.found \in Remote!Stamp /\ (get.entry # Absent => RemoteJudges(get))
    BY <1>0, <1>5 DEF Remote!Fetched, RemoteGetHolds, Remote!Get
  <2>2. UNCHANGED <<rnow, rtold, rknown, rtracked, rshort, rcomplete, rregistered, rsets, object>>
    BY <1>5 DEF Remote!Fetched, Remote!markerVars
  <2>3. \/ Remote!Judge(g, get, rmemory) /\ rreading' = rreading
        \/ Remote!FetchedAwaits = {} /\ Remote!Judge(g, found, get.found)
           /\ Remote!Ensure(RemoteTags)
        \/ rgets' = [rgets EXCEPT ![g] = next] /\ Remote!Ensure(RemoteTags)
           /\ rmemory' = rmemory
    BY <1>5 DEF Remote!Fetched
  <2> HIDE DEF get
  <2>4. /\ found \in Remote!Get /\ found.awaits = {} /\ found.missed \subseteq found.letGo
    BY <2>1 DEF Remote!Get
  <2> HIDE DEF found
  <2>5. Remote!FetchedAwaits = Remote!Unread(RemoteTags)
    BY DEF Remote!FetchedAwaits
  <2>6. /\ next \in Remote!Get /\ next.awaits = Remote!Unread(RemoteTags)
        /\ next.missed \subseteq next.letGo /\ next.phase = "rereading"
    BY <1>0, <2>4, <2>5 DEF Remote!Get
  <2> HIDE DEF next
  <2>7. RemoteJudges(next)
    BY <2>6, RemoteAllRead DEF RemoteJudges
  <2>8. Remote!Ensure(RemoteTags) => rreading' \in SUBSET RemoteTags
    BY <1>0 DEF Remote!Ensure
  <2>9. CASE Remote!Judge(g, get, rmemory) /\ rreading' = rreading
    BY <1>0, <2>1, <2>2, <2>9, RemoteJudgeHolds
  <2>10. CASE Remote!FetchedAwaits = {} /\ Remote!Judge(g, found, get.found)
             /\ Remote!Ensure(RemoteTags)
    <3>1. RemoteJudges(found)
      BY <2>5, <2>10, RemoteAllRead DEF RemoteJudges
    <3>2. QED
      BY <2>1, <2>2, <2>4, <2>8, <2>10, <3>1, RemoteJudgeHolds
  <2>11. CASE rgets' = [rgets EXCEPT ![g] = next] /\ Remote!Ensure(RemoteTags)
             /\ rmemory' = rmemory
    BY <1>0, <2>2, <2>6, <2>7, <2>8, <2>11 DEF RemoteGoesOn, RemoteGetHolds
  <2>12. QED
    BY <2>3, <2>9, <2>10, <2>11
<1>6. CASE Remote!FetchedRead(g)
  <2>1. /\ rgets[g].awaits = {} /\ Remote!Judge(g, rgets[g], rgets[g].entry)
        /\ RemoteJudges(rgets[g]) /\ rgets[g].missed \subseteq rgets[g].letGo
        /\ rgets[g].entry \in Remote!Stamp
        /\ UNCHANGED <<rnow, Remote!manifestVars, rregistered, rsets, object>>
    BY <1>0, <1>6 DEF Remote!FetchedRead, RemoteGetHolds, Remote!Get
  <2>2. QED
    BY <1>0, <2>1, RemoteJudgeHolds DEF Remote!manifestVars, Remote!markerVars
<1>7. QED
  BY <1>1, <1>2, <1>3, <1>4, <1>5, <1>6 DEF Remote!GetStep
LEMMA RemoteSetHolds ==
    ASSUME RemoteIInv, NEW s \in RemoteSets,
           Remote!Store(s) \/ Remote!Fail(s) \/ Remote!PutLands(s) \/ Remote!PutFails(s)
    PROVE  RemoteIInv'
<1>0. Remote!CommonTypeOK /\ object \in Remote!Stamp
  BY DEF RemoteIInv, Remote!TypeOK
<1>1. rsets[s] \in Remote!Set /\ rsets[s].entry \in Remote!Stamp
  BY <1>0 DEF Remote!CommonTypeOK, Remote!Set
<1>2. PICK phase \in {"putting", "stored", "failed"}, entry \in Remote!Stamp :
          rsets' = [rsets EXCEPT ![s] = [phase |-> phase, entry |-> entry]]
  <2>1. CASE Remote!Store(s)
    <3>1. [rsets[s] EXCEPT !.phase = "putting"] = [phase |-> "putting", entry |-> rsets[s].entry]
      BY <1>1 DEF Remote!Set
    <3>2. rsets' = [rsets EXCEPT ![s] = [phase |-> "putting", entry |-> rsets[s].entry]]
      BY <2>1, <3>1 DEF Remote!Store
    <3>3. QED
      BY <1>1, <3>2
  <2>2. CASE ~Remote!Store(s)
    BY <2>2 DEF Remote!Fail, Remote!PutLands, Remote!PutFails, Remote!Ends, Remote!Stamp,
                Remote!Absent
  <2>3. QED
    BY <2>1, <2>2
<1>3. rsets' \in [RemoteSets -> Remote!Set]
  BY <1>0, <1>2 DEF Remote!CommonTypeOK, Remote!Set
<1>4. Remote!Done(s) \/ (rregistered' = rregistered /\ rsets[s].phase = "putting")
  BY DEF Remote!Store, Remote!Fail, Remote!PutLands, Remote!PutFails
<1>5. rregistered' # Remote!None => rregistered' = rregistered /\ rregistered # s
  BY <1>0, <1>1, <1>4 DEF Remote!Done, Remote!CommonTypeOK
<1>6. rregistered' \in RemoteSets \cup {Remote!None}
  BY <1>0, <1>4 DEF Remote!Done, Remote!CommonTypeOK
<1>7. rregistered' # Remote!None => rsets'[rregistered'].phase = "streaming"
  BY <1>0, <1>2, <1>5, <1>6 DEF Remote!CommonTypeOK
<1>8. /\ rmemory' \in Remote!Stamp /\ object' \in Remote!Stamp
      /\ UNCHANGED <<rnow, rtold, rknown, rtracked, rshort, rreading, rcomplete, rgets>>
  BY <1>0, <1>1 DEF Remote!CommonTypeOK, Remote!Store, Remote!Fail, Remote!PutLands,
                    Remote!PutFails, Remote!manifestVars, Remote!markerVars
<1>9. Remote!TypeOK'
  BY <1>0, <1>3, <1>6, <1>7, <1>8 DEF Remote!TypeOK, Remote!CommonTypeOK
<1>10. QED
  BY <1>0, <1>8, <1>9, RemoteElsewhere DEF Remote!CommonTypeOK

LEMMA RemoteStepHolds == RemoteIInv /\ [Remote!Next]_(Remote!vars) => RemoteIInv'
<1> SUFFICES ASSUME RemoteIInv, [Remote!Next]_(Remote!vars) PROVE RemoteIInv'
  OBVIOUS
<1>0. Remote!TypeOK /\ Remote!CommonTypeOK
  BY DEF RemoteIInv, Remote!TypeOK
<1>1. CASE Remote!OtherPut
  <2>1. object' \in Remote!Stamp /\ UNCHANGED <<rnow, Remote!manifestVars, Remote!storeVars, rgets>>
    BY <1>0, <1>1 DEF Remote!OtherPut, Remote!CommonTypeOK, Remote!Stamp
  <2>2. Remote!TypeOK'
    BY <1>0, <2>1 DEF Remote!TypeOK, Remote!CommonTypeOK, Remote!manifestVars, Remote!markerVars,
        Remote!storeVars
  <2>3. QED
    BY <1>0, <2>1, <2>2, RemoteElsewhere DEF Remote!CommonTypeOK, Remote!manifestVars,
        Remote!markerVars
<1>2. ASSUME NEW g \in Gets, Remote!GetStep(g) \/ Remote!S3Answers(g) PROVE RemoteIInv'
  <2>1. /\ RemoteGoesOn(g) /\ rreading' \in SUBSET RemoteTags
        /\ UNCHANGED <<rnow, rtold, rknown, rtracked, rshort, rcomplete, rregistered, rsets,
                       object>>
    BY <1>2, RemoteGetGoes
  <2>2. PICK get \in Remote!Get :
            rgets' = [rgets EXCEPT ![g] = get] /\ RemoteGetHolds(get)
            /\ rmemory' \in Remote!Stamp
    BY <2>1 DEF RemoteGoesOn
  <2>3. QED
    BY <2>1, <2>2, RemoteGetGoesOn
<1>3. CASE UNCHANGED Remote!vars
  <2>1. Remote!TypeOK'
    BY <1>0, <1>3 DEF Remote!TypeOK, Remote!CommonTypeOK, Remote!vars, Remote!manifestVars,
        Remote!markerVars,
                      Remote!storeVars
  <2>2. QED
    BY <1>0, <1>3, <2>1, RemoteElsewhere
       DEF Remote!CommonTypeOK, Remote!vars, Remote!manifestVars, Remote!markerVars
<1>4. QED
  BY <1>1, <1>2, <1>3, RemoteCommonStepHolds, RemoteSetHolds DEF Remote!Next

--------------------------------------------------------------------------------
(* Both. *)

THEOREM Invariance == UseCacheSpec => []BothIInv
<1>1. UseCacheInit => BothIInv
  BY InitHolds, RemoteInitHolds DEF UseCacheInit, BothIInv
<1>2. BothIInv /\ [UseCacheNext]_<<handler, vars, remoteVars>> => BothIInv'
  <2> SUFFICES ASSUME BothIInv, [UseCacheNext]_<<handler, vars, remoteVars>> PROVE BothIInv'
    OBVIOUS
  <2>1. UNCHANGED remoteVars => UNCHANGED Remote!vars
    BY DEF remoteVars, Remote!vars, Remote!manifestVars, Remote!markerVars, Remote!storeVars
  <2>2. [Next]_vars /\ [Remote!Next]_(Remote!vars)
    BY <2>1 DEF UseCacheNext
  <2>3. QED
    BY <2>2, StepHolds, RemoteStepHolds DEF BothIInv
<1>3. QED
  BY <1>1, <1>2, PTL DEF UseCacheSpec

\* Whatever sets, log rows, reads (failed ones too), evictions and forgets come between
\* a get's call and its answer, either handler serves an entry only if it is newer than
\* every revalidation of its tags the instance was told of, but for the tags let go of
\* meanwhile and those of whose marker the last first read showed less.
THEOREM ServedStaysJudged == UseCacheSpec => []JudgedWhenServed
<1>1. BothIInv => JudgedWhenServed
  BY DEF BothIInv, IInv, GetsHold, RemoteIInv, RemoteGetsHold, RemoteGetHolds,
         JudgedWhenServed, ServedIsJudged, Remote!ServedIsJudged
<1>2. QED
  BY <1>1, Invariance, PTL
================================================================================
