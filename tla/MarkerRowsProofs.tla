---------------------------- MODULE MarkerRowsProofs ----------------------------
(***************************************************************************)
(* What merging markers may never do, proved for every set of instances,   *)
(* every drift of their clocks and every bound: a merge keeps what either  *)
(* side knew, so a revalidation an instance heard of stays known to it.    *)
(***************************************************************************)
EXTENDS MarkerRows, TLAPS

USE DEF Stamp, Absent

\* A marker is made of stamps whichever way it is built.
LEMMA MarkerForType ==
    ASSUME NEW t \in Nat, NEW d \in Durations
    PROVE  MarkerFor(t, d) \in Marker
BY DEF MarkerFor, Marker, NoMarker, Durations

LEMMA ApplyMarkerType ==
    ASSUME NEW a \in Marker, NEW b \in Marker
    PROVE  ApplyMarker(a, b) \in Marker
BY DEF ApplyMarker, Overwrite, Marker

LEMMA MergeMarkersType ==
    ASSUME NEW a \in Marker, NEW b \in Marker
    PROVE  MergeMarkers(a, b) \in Marker
BY DEF MergeMarkers, ApplyMarker, Overwrite, Later, Marker

\* mergeMarkers is never behind either side, in either field it compares.
LEMMA MergeNotBehind ==
    ASSUME NEW a \in Marker, NEW b \in Marker
    PROVE  LET m == MergeMarkers(a, b)
           IN  /\ m.revalidatedAt >= a.revalidatedAt /\ m.staleAt >= a.staleAt
               /\ m.revalidatedAt >= b.revalidatedAt /\ m.staleAt >= b.staleAt
BY DEF MergeMarkers, ApplyMarker, Overwrite, Later, Marker

\* Every variable of the row, its writers and its readers keeps its type.
THEOREM TypeCorrect == Spec => []TypeOK
<1>1. Init => TypeOK
  BY DEF Init, TypeOK, Marker, NoMarker, Ids, Write
<1>2. TypeOK /\ [Next]_vars => TypeOK'
  <2> SUFFICES ASSUME TypeOK, [Next]_vars PROVE TypeOK'
    OBVIOUS
  <2> USE DEF TypeOK, Ids
  <2>n. NoMarker \in Marker
    BY DEF NoMarker, Marker
  <2>w. \A w \in Ids : writes[w] \in Write
    OBVIOUS
  <2>m. ASSUME NEW w \in Ids PROVE MarkerOf(w) \in Marker
    <3>1. writes[w].at \in Nat /\ writes[w].durations \in Durations
      BY <2>w, ProfilesAssumption DEF Write
    <3>2. QED
      BY <3>1, MarkerForType DEF MarkerOf
  <2>1. CASE Tick
    BY <2>1 DEF Tick, Write
  <2>2. ASSUME NEW i \in Instances, NEW d \in Profiles, Revalidate(i, d)
        PROVE  TypeOK'
    <3>1. MarkerClock(i) \in Nat
      BY DriftAssumption DEF MarkerClock
    <3>2. MarkerFor(MarkerClock(i), d) \in Marker
      BY <3>1, MarkerForType, ProfilesAssumption
    <3>3. known' \in [Instances -> Marker]
      BY <2>2, <3>2, ApplyMarkerType DEF Revalidate
    <3>4. writes' \in Seq(Write) /\ Len(writes') = Len(writes) + 1
      BY <2>2, <2>n, <3>1 DEF Revalidate, Write, Phases
    <3>5. heard' \in [Instances -> SUBSET Ids']
      BY <2>2, <3>4 DEF Revalidate
    <3>6. QED
      BY <2>2, <3>3, <3>4, <3>5 DEF Revalidate
  <2>3. ASSUME NEW w \in Ids, Land(w)
        PROVE  TypeOK'
    <3>1. row' \in Marker
      BY <2>3, <2>m, ApplyMarkerType DEF Land
    <3>2. [writes[w] EXCEPT !.phase = "landed", !.left = row'] \in Write
      BY <2>w, <3>1 DEF Write, Phases
    <3>3. writes' \in Seq(Write) /\ Len(writes') = Len(writes)
      BY <2>3, <3>2 DEF Land
    <3>4. QED
      BY <2>3, <3>1, <3>3 DEF Land
  <2>4. ASSUME NEW w \in Ids, Answer(w)
        PROVE  TypeOK'
    <3>0. writes[w].by \in Instances /\ writes[w].left \in Marker
      BY <2>w DEF Write
    <3>1. known' \in [Instances -> Marker]
      BY <2>4, <3>0, MergeMarkersType DEF Answer
    <3>2. [writes[w] EXCEPT !.phase = "answered", !.left = NoMarker] \in Write
      BY <2>w, <2>n DEF Write, Phases
    <3>3. writes' \in Seq(Write) /\ Len(writes') = Len(writes)
      BY <2>4, <3>2 DEF Answer
    <3>4. QED
      BY <2>4, <3>1, <3>3 DEF Answer
  <2>5. ASSUME NEW i \in Instances, NEW w \in Ids, MergeLogRow(i, w)
        PROVE  TypeOK'
    BY <2>5, <2>m, MergeMarkersType DEF MergeLogRow
  <2>6. ASSUME NEW i \in Instances, MergeRow(i)
        PROVE  TypeOK'
    BY <2>6, MergeMarkersType DEF MergeRow
  <2>7. CASE UNCHANGED vars
    BY <2>7 DEF vars
  <2>8. QED
    BY <2>1, <2>2, <2>3, <2>4, <2>5, <2>6, <2>7 DEF Next
<1>3. QED
  BY <1>1, <1>2, PTL DEF Spec

\* What TypeOK says of one revalidation.
LEMMA WriteType ==
    ASSUME TypeOK, NEW w \in Ids
    PROVE  /\ writes[w] \in Write
           /\ writes[w].at \in Nat
           /\ writes[w].by \in Instances
           /\ writes[w].durations \in Durations
           /\ writes[w].left \in Marker
<1>1. writes[w] \in Write
  BY DEF TypeOK, Ids
<1>2. QED
  BY <1>1, ProfilesAssumption DEF Write

\* A marker no further back than another records whatever that one does.
LEMMA LaterMarkerRecords ==
    ASSUME TypeOK, NEW a \in Marker, NEW b \in Marker, NEW w \in Ids,
           b.revalidatedAt >= a.revalidatedAt, b.staleAt >= a.staleAt,
           Records(a, w)
    PROVE  Records(b, w)
<1>1. writes[w].at \in Nat
  BY WriteType
<1>2. QED
  BY <1>1 DEF Records, Marker

\* The marker of a revalidation records it.
LEMMA OwnMarkerRecords ==
    ASSUME TypeOK, NEW w \in Ids
    PROVE  Records(MarkerOf(w), w)
<1>1. writes[w].at \in Nat
  BY WriteType
<1>2. QED
  BY <1>1 DEF Records, MarkerOf, MarkerFor, NoMarker

--------------------------------------------------------------------------------
\* What instance `i` holds of a revalidation it heard.
Holds(i, w) ==
    \/ Records(known[i], w)
    \/ \E v \in heard[i] : OwnStampedEarlier(i, v, w) /\ Records(known[i], v)

\* The revalidations run so far keep their stamp, writer and kind.
WritesKept ==
    /\ Ids \subseteq Ids'
    /\ \A w \in Ids : /\ writes'[w].at = writes[w].at
                      /\ writes'[w].by = writes[w].by
                      /\ writes'[w].durations = writes[w].durations

LEMMA StepKeepsWrites == TypeOK /\ [Next]_vars => WritesKept
<1> SUFFICES ASSUME TypeOK, [Next]_vars PROVE WritesKept
  OBVIOUS
<1> USE DEF WritesKept, Ids
<1>1. writes \in Seq(Write)
  BY DEF TypeOK
<1>2. ASSUME NEW i \in Instances, NEW d \in Profiles, Revalidate(i, d)
      PROVE  WritesKept
  BY <1>1, <1>2 DEF Revalidate
<1>3. ASSUME NEW w \in Ids, Land(w) \/ Answer(w)
      PROVE  WritesKept
  <2>1. PICK r : writes' = [writes EXCEPT ![w] = r]
              /\ r.at = writes[w].at /\ r.by = writes[w].by
              /\ r.durations = writes[w].durations
    <3>1. writes[w] \in Write
      BY WriteType
    <3>2. CASE Land(w)
      <4> DEFINE r == [writes[w] EXCEPT !.phase = "landed", !.left = row']
      <4>1. r.at = writes[w].at /\ r.by = writes[w].by /\ r.durations = writes[w].durations
        BY <3>1 DEF Write
      <4>2. writes' = [writes EXCEPT ![w] = r]
        BY <3>2 DEF Land
      <4> HIDE DEF r
      <4>3. QED
        BY <4>1, <4>2
    <3>3. CASE Answer(w)
      <4> DEFINE r == [writes[w] EXCEPT !.phase = "answered", !.left = NoMarker]
      <4>1. r.at = writes[w].at /\ r.by = writes[w].by /\ r.durations = writes[w].durations
        BY <3>1 DEF Write
      <4>2. writes' = [writes EXCEPT ![w] = r]
        BY <3>3 DEF Answer
      <4> HIDE DEF r
      <4>3. QED
        BY <4>1, <4>2
    <3>4. QED
      BY <1>3, <3>2, <3>3
  <2>2. QED
    BY <1>1, <2>1
<1>4. CASE UNCHANGED writes
  BY <1>4
<1>5. QED
  BY <1>2, <1>3, <1>4 DEF Next, vars, Tick, MergeLogRow, MergeRow

\* Where what an instance tracks does not move back, it goes on holding all it
\* heard.
LEMMA NotBehindHolds ==
    ASSUME TypeOK, TypeOK', WritesKept, NEW i \in Instances,
           known'[i].revalidatedAt >= known[i].revalidatedAt,
           known'[i].staleAt >= known[i].staleAt,
           heard[i] \subseteq heard'[i],
           NEW w \in heard[i], Holds(i, w)
    PROVE  Holds(i, w)'
<1>1. known[i] \in Marker /\ known'[i] \in Marker /\ heard[i] \subseteq Ids
  BY DEF TypeOK
<1>2. \A v \in heard[i] : writes[v].at \in Nat
  BY <1>1, WriteType
<1>3. \A v \in heard[i] : Records(known[i], v) => Records(known[i], v)'
  BY <1>1, <1>2 DEF Records, Marker, WritesKept
<1>4. \A v \in heard[i] : OwnStampedEarlier(i, v, w) => OwnStampedEarlier(i, v, w)'
  BY <1>1 DEF OwnStampedEarlier, WritesKept
<1>5. QED
  BY <1>3, <1>4 DEF Holds

\* MergeMarkers as a step of one instance.
LEMMA MergeHolds ==
    ASSUME TypeOK, TypeOK', WritesKept, NEW i \in Instances, NEW m \in Marker,
           known' = [known EXCEPT ![i] = MergeMarkers(@, m)],
           \A j \in Instances : heard[j] \subseteq heard'[j],
           NEW j \in Instances, NEW w \in heard[j], Holds(j, w)
    PROVE  Holds(j, w)'
<1>1. known \in [Instances -> Marker]
  BY DEF TypeOK
<1>2. /\ known'[j].revalidatedAt >= known[j].revalidatedAt
      /\ known'[j].staleAt >= known[j].staleAt
  <2>1. CASE j = i
    BY <1>1, <2>1, MergeNotBehind
  <2>2. CASE j # i
    BY <1>1, <2>2 DEF Marker
  <2>3. QED
    BY <2>1, <2>2
<1>3. QED
  BY <1>2, NotBehindHolds

\* A revalidation an instance heard of is known to it from then on, unless it
\* overwrote it with one of its own stamped by a slower clock.
THEOREM HeardStaysKnown == Spec => []HeardIsKnown
<1>1. Init => HeardIsKnown
  BY DEF Init, HeardIsKnown
<1>2. TypeOK /\ TypeOK' /\ HeardIsKnown /\ [Next]_vars => HeardIsKnown'
  <2> SUFFICES ASSUME TypeOK, TypeOK', HeardIsKnown, [Next]_vars,
                      NEW j \in Instances, NEW w \in heard'[j]
               PROVE  Holds(j, w)'
    BY DEF HeardIsKnown, Holds
  <2>k. WritesKept
    BY StepKeepsWrites
  <2>h. \A i \in Instances : \A v \in heard[i] : Holds(i, v)
    BY DEF HeardIsKnown, Holds
  <2>t. /\ known \in [Instances -> Marker] /\ known' \in [Instances -> Marker]
        /\ heard \in [Instances -> SUBSET Ids] /\ heard' \in [Instances -> SUBSET Ids']
    BY DEF TypeOK
  <2>1. CASE known' = known /\ heard' = heard
    <3>1. /\ known'[j].revalidatedAt >= known[j].revalidatedAt
          /\ known'[j].staleAt >= known[j].staleAt
      BY <2>1, <2>t DEF Marker
    <3>2. QED
      BY <2>1, <2>h, <2>k, <3>1, NotBehindHolds
  <2>2. ASSUME NEW i \in Instances, NEW d \in Profiles, Revalidate(i, d)
        PROVE  Holds(j, w)'
    <3>0. PICK n \in Ids' : n = Len(writes) + 1
      BY <2>2, <2>k DEF Revalidate, Ids, TypeOK
    <3>1. /\ writes'[n].by = i /\ writes'[n].at = MarkerClock(i)
          /\ writes'[n].durations = d
      BY <2>2, <3>0 DEF Revalidate, TypeOK
    <3>2. heard' = [heard EXCEPT ![i] = @ \cup {n}]
      BY <2>2, <3>0 DEF Revalidate, TypeOK
    <3>3. MarkerClock(i) \in Nat /\ d \in Durations
      BY DriftAssumption, ProfilesAssumption DEF MarkerClock, TypeOK
    <3>4. known' = [known EXCEPT ![i] = ApplyMarker(@, MarkerFor(MarkerClock(i), d))]
      BY <2>2 DEF Revalidate
    <3>5. CASE j # i
      <4>1. w \in heard[j] /\ known'[j] = known[j] /\ heard'[j] = heard[j]
        BY <3>2, <3>4, <3>5, <2>t
      <4>2. /\ known'[j].revalidatedAt >= known[j].revalidatedAt
            /\ known'[j].staleAt >= known[j].staleAt
        BY <4>1, <2>t DEF Marker
      <4>3. QED
        BY <2>h, <2>k, <4>1, <4>2, NotBehindHolds
    <3>6. CASE j = i
      <4>1. Records(known[i], n)'
        BY <3>1, <3>3, <3>4, <2>t
        DEF Records, ApplyMarker, Overwrite, MarkerFor, NoMarker, Marker, Durations
      <4>2. n \in heard'[i] /\ heard[i] \subseteq heard'[i]
        BY <3>2, <2>t
      \* What known[i] recorded of the other kind stays, what it recorded of
      \* this kind is the new one's to record or to stamp earlier.
      <4>3. ASSUME NEW v \in heard[i], Records(known[i], v)
            PROVE  \/ Records(known[i], v)'
                   \/ OwnStampedEarlier(i, n, v)'
        <5>1. v \in Ids /\ writes[v].at \in Nat /\ writes[v].durations \in Durations
          BY <2>t, WriteType
        <5>2. writes'[v].at = writes[v].at /\ writes'[v].durations = writes[v].durations
          BY <5>1, <2>k DEF WritesKept
        <5>3. CASE writes[v].durations.profile = d.profile
          <6>1. CASE writes[v].at <= MarkerClock(i)
            BY <3>3, <3>4, <5>1, <5>2, <5>3, <6>1, <2>t
            DEF Records, ApplyMarker, Overwrite, MarkerFor, NoMarker, Marker, Durations
          <6>2. CASE writes[v].at > MarkerClock(i)
            BY <3>1, <5>2, <5>3, <6>2 DEF OwnStampedEarlier
          <6>3. QED
            BY <3>3, <5>1, <6>1, <6>2
        <5>4. CASE writes[v].durations.profile # d.profile
          BY <3>3, <3>4, <4>3, <5>1, <5>2, <5>4, <2>t
          DEF Records, ApplyMarker, Overwrite, MarkerFor, NoMarker, Marker, Durations
        <5>5. QED
          BY <5>3, <5>4
      <4>4. CASE w = n
        BY <3>6, <4>1, <4>4 DEF Holds
      <4>5. CASE w \in heard[i]
        <5>1. CASE Records(known[i], w)
          BY <3>6, <4>1, <4>2, <4>3, <4>5, <5>1 DEF Holds
        <5>2. ASSUME NEW v \in heard[i], OwnStampedEarlier(i, v, w), Records(known[i], v)
              PROVE  Holds(i, w)'
          <6>1. v \in Ids /\ w \in Ids /\ writes[v].at \in Nat /\ writes[w].at \in Nat
            BY <2>t, <4>5, WriteType
          <6>2. OwnStampedEarlier(i, v, w)'
            BY <5>2, <6>1, <2>k DEF OwnStampedEarlier, WritesKept
          <6>3. CASE Records(known[i], v)'
            BY <4>2, <6>2, <6>3 DEF Holds
          <6>4. CASE OwnStampedEarlier(i, n, v)'
            <7>1. OwnStampedEarlier(i, n, w)'
              BY <3>1, <3>3, <6>1, <6>2, <6>4, <2>k DEF OwnStampedEarlier, WritesKept
            <7>2. QED
              BY <4>1, <4>2, <7>1 DEF Holds
          <6>5. QED
            BY <4>3, <5>2, <6>3, <6>4
        <5>3. QED
          BY <2>h, <3>6, <4>5, <5>1, <5>2 DEF Holds
      <4>6. QED
        BY <3>2, <3>6, <4>4, <4>5, <2>t
    <3>7. QED
      BY <3>5, <3>6
  <2>3. ASSUME NEW v \in Ids, Answer(v)
        PROVE  Holds(j, w)'
    <3>1. writes[v].by \in Instances /\ writes[v].left \in Marker
      BY WriteType
    <3>2. known' = [known EXCEPT ![writes[v].by] = MergeMarkers(@, writes[v].left)]
      BY <2>3 DEF Answer
    <3>3. heard' = heard
      BY <2>3 DEF Answer
    <3>4. QED
      BY <2>h, <2>k, <3>1, <3>2, <3>3, MergeHolds
  <2>4. ASSUME NEW i \in Instances, NEW v \in Ids, MergeLogRow(i, v)
        PROVE  Holds(j, w)'
    <3>1. MarkerOf(v) \in Marker
      BY WriteType, MarkerForType DEF MarkerOf
    <3>2. known' = [known EXCEPT ![i] = MergeMarkers(@, MarkerOf(v))]
      BY <2>4 DEF MergeLogRow
    <3>3. \A k \in Instances : heard[k] \subseteq heard'[k]
      BY <2>4, <2>t DEF MergeLogRow
    <3>4. CASE w \in heard[j]
      BY <2>h, <2>k, <3>1, <3>2, <3>3, <3>4, MergeHolds
    <3>5. CASE j = i /\ w = v
      <4>1. Records(MarkerOf(v), v)
        BY OwnMarkerRecords
      <4>2. known[i] \in Marker
        BY <2>t
      <4>3. known'[i] = MergeMarkers(known[i], MarkerOf(v))
        BY <3>2, <2>t
      <4>4. Records(known'[i], v)
        BY <3>1, <4>1, <4>2, <4>3, MergeNotBehind, MergeMarkersType, LaterMarkerRecords
      <4>5. Records(known[i], v)'
        BY <4>4, <2>k DEF Records, WritesKept
      <4>6. QED
        BY <3>5, <4>5 DEF Holds
    <3>6. QED
      BY <2>4, <2>t, <3>4, <3>5 DEF MergeLogRow
  <2>5. ASSUME NEW i \in Instances, MergeRow(i)
        PROVE  Holds(j, w)'
    <3>1. row \in Marker /\ heard' = heard
      BY <2>5 DEF MergeRow, TypeOK
    <3>2. known' = [known EXCEPT ![i] = MergeMarkers(@, row)]
      BY <2>5 DEF MergeRow
    <3>3. QED
      BY <2>h, <2>k, <3>1, <3>2, MergeHolds
  <2>6. QED
    BY <2>1, <2>2, <2>3, <2>4, <2>5 DEF Next, vars, Tick, Land
<1>3. QED
  BY <1>1, <1>2, TypeCorrect, PTL DEF Spec

\* No merge moves what an instance tracks back: only its own revalidations may.
THEOREM MergesNeverMoveBack == Spec => KnownNeverMovesBack
<1> DEFINE Kept(i) == \/ /\ known'[i].revalidatedAt >= known[i].revalidatedAt
                         /\ known'[i].staleAt >= known[i].staleAt
                      \/ \E w \in Ids' \ Ids : writes'[w].by = i
<1>1. TypeOK /\ [Next]_vars => [\A i \in Instances : Kept(i)]_vars
  <2> SUFFICES ASSUME TypeOK, Next, NEW j \in Instances PROVE Kept(j)
    BY DEF vars
  <2>t. known \in [Instances -> Marker] /\ row \in Marker /\ writes \in Seq(Write)
    BY DEF TypeOK
  <2>1. CASE known' = known
    BY <2>1, <2>t DEF Marker
  <2>2. ASSUME NEW i \in Instances, NEW d \in Profiles, Revalidate(i, d)
        PROVE  Kept(j)
    <3>1. CASE j = i
      <4>1. /\ Len(writes) + 1 \in Ids' \ Ids
            /\ writes'[Len(writes) + 1].by = i
        BY <2>2, <2>t DEF Revalidate, Ids
      <4>2. QED
        BY <3>1, <4>1
    <3>2. CASE j # i
      BY <2>2, <2>t, <3>2 DEF Revalidate, Marker
    <3>3. QED
      BY <3>1, <3>2
  <2>3. ASSUME NEW i \in Instances, NEW m \in Marker,
               known' = [known EXCEPT ![i] = MergeMarkers(@, m)]
        PROVE  Kept(j)
    <3>1. CASE j = i
      BY <2>3, <2>t, <3>1, MergeNotBehind
    <3>2. CASE j # i
      BY <2>3, <2>t, <3>2 DEF Marker
    <3>3. QED
      BY <3>1, <3>2
  <2>4. ASSUME NEW v \in Ids, Answer(v)
        PROVE  Kept(j)
    <3>1. writes[v].by \in Instances /\ writes[v].left \in Marker
      BY WriteType
    <3>2. known' = [known EXCEPT ![writes[v].by] = MergeMarkers(@, writes[v].left)]
      BY <2>4 DEF Answer
    <3>3. QED
      BY <2>3, <3>1, <3>2
  <2>5. ASSUME NEW i \in Instances, NEW v \in Ids, MergeLogRow(i, v)
        PROVE  Kept(j)
    <3>1. MarkerOf(v) \in Marker
      BY WriteType, MarkerForType DEF MarkerOf
    <3>2. QED
      BY <2>3, <2>5, <3>1 DEF MergeLogRow
  <2>6. ASSUME NEW i \in Instances, MergeRow(i)
        PROVE  Kept(j)
    BY <2>3, <2>6, <2>t DEF MergeRow
  <2>7. QED
    BY <2>1, <2>2, <2>4, <2>5, <2>6 DEF Next, Tick, Land
<1>2. QED
  BY <1>1, TypeCorrect, PTL DEF Spec, KnownNeverMovesBack
================================================================================
