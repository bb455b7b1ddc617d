------------------------ MODULE TrackedTagMarkersProofs ------------------------
(***************************************************************************)
(* That one instance's tag manifest lets go of nothing it was told but what *)
(* completeSince is past, proved for any tags, revalidations and bounds of  *)
(* its memory, in any order of writes, answers, reads and refreshes.       *)
(***************************************************************************)
EXTENDS TrackedTagMarkers, FiniteSetTheorems, WellFoundedInduction, TLAPS

--------------------------------------------------------------------------------
(* Recursion over a sequence, and the least of some naturals. *)

\* A set of naturals that is not empty has a least.
LEMMA LeastNatural ==
    ASSUME NEW T \in SUBSET Nat, T # {}
    PROVE  \E m \in T : \A n \in T : m <= n
<1>1. PICK m \in T : \A n \in T : ~(<<n, m>> \in OpToRel(<, Nat))
  BY NatLessThanWellFounded, WFMin, Zenon
<1>2. \A n \in T : ~(n < m)
  <2>1. SUFFICES ASSUME NEW n \in T, n < m PROVE FALSE
    OBVIOUS
  <2>2. n \in Nat /\ m \in Nat
    OBVIOUS
  <2>3. <<n, m>> \in OpToRel(<, Nat)
    BY <2>1, <2>2, Zenon DEF OpToRel
  <2>4. QED
    BY <1>1, <2>3
<1>3. QED
  BY <1>2

\* What holds at 0 and goes from one step to the next holds up to the last.
LEMMA StepByStep ==
    ASSUME NEW N \in Nat, NEW S, 0 \in S, \A n \in 1 .. N : n - 1 \in S => n \in S
    PROVE  \A n \in 0 .. N : n \in S
<1> DEFINE Bad == {n \in 0 .. N : n \notin S}
<1>1. Bad = {}
  <2>1. SUFFICES ASSUME Bad # {} PROVE FALSE
    OBVIOUS
  <2>2. PICK m \in Bad : \A n \in Bad : m <= n
    <3>1. Bad \in SUBSET Nat /\ Bad # {}
      BY <2>1
    <3> HIDE DEF Bad
    <3>2. QED
      BY <3>1, LeastNatural
  <2>3. m \in 1 .. N /\ m - 1 \in 0 .. N /\ m - 1 \notin Bad
    BY <2>2
  <2>4. QED
    BY <2>2, <2>3
<1>2. QED
  BY <1>1

\* As many steps, each from `K` to `K`.
Steps(N, K) == [1 .. N -> [K -> K]]

\* `f` starts at `first` and goes on as `step` does.
Follows(f, N, first, step) ==
    f[0] = first /\ \A n \in 1 .. N : f[n] = step[n][f[n - 1]]

\* A function defined step by step, within a set no step leaves, exists.
LEMMA Recursion ==
    ASSUME NEW N \in Nat, NEW K, NEW first \in K, NEW step \in Steps(N, K)
    PROVE  \E f \in [0 .. N -> K] : Follows(f, N, first, step)
<1> DEFINE To(n, f) == [i \in 0 .. n |-> IF i = 0 THEN first ELSE step[i][f[i - 1]]]
           S == {n \in 0 .. N : \E f \in [0 .. n -> K] : f = To(n, f)}
<1>0. step \in [1 .. N -> [K -> K]]
  BY DEF Steps
<1>1. 0 \in S
  <2> DEFINE f == [i \in 0 .. 0 |-> first]
  <2>1. f \in [0 .. 0 -> K]
    OBVIOUS
  <2>2. f = To(0, f)
    OBVIOUS
  <2>3. QED
    <3> HIDE DEF f, To
    <3>1. \E h \in [0 .. 0 -> K] : h = To(0, h)
      BY <2>1, <2>2
    <3>2. QED
      BY <3>1
<1>2. ASSUME NEW n \in 1 .. N, n - 1 \in S PROVE n \in S
  <2>1. PICK f \in [0 .. n - 1 -> K] : f = To(n - 1, f)
    BY <1>2
  <2> DEFINE g == [i \in 0 .. n |-> IF i = n THEN step[n][f[n - 1]] ELSE f[i]]
  <2>2. n \in Nat /\ n - 1 \in Nat /\ n - 1 \in 0 .. n - 1
    OBVIOUS
  <2>3. f[n - 1] \in K
    BY <2>1, <2>2
  <2>4. g \in [0 .. n -> K]
    BY <1>0, <2>1, <2>2, <2>3
  <2>5. ASSUME NEW i \in 0 .. n PROVE g[i] = To(n, g)[i]
    <3>1. CASE i = 0
      BY <3>1, <2>1, <2>2
    <3>2. CASE i = n
      <4>1. g[i - 1] = f[n - 1]
        BY <3>2, <2>2
      <4>2. QED
        BY <3>2, <4>1, <2>2
    <3>3. CASE i \in 1 .. n - 1
      <4>1. f[i] = step[i][f[i - 1]]
        BY <3>3, <2>1, <2>2
      <4>2. g[i] = f[i] /\ g[i - 1] = f[i - 1]
        BY <3>3, <2>2
      <4>3. QED
        BY <3>3, <4>1, <4>2
    <3>4. QED
      BY <3>1, <3>2, <3>3
  <2>6. g = To(n, g)
    BY <2>4, <2>5
  <2>7. QED
    <3> HIDE DEF g, To
    <3>1. \E h \in [0 .. n -> K] : h = To(n, h)
      BY <2>4, <2>6
    <3>2. QED
      BY <3>1, <2>2
<1>3. \A n \in 0 .. N : n \in S
  BY <1>1, <1>2, StepByStep
<1>4. N \in 0 .. N /\ N \in S
  BY <1>3
<1>5. PICK f \in [0 .. N -> K] : f = To(N, f)
  BY <1>4
<1>6. f[0] = first
  <2>1. 0 \in 0 .. N
    OBVIOUS
  <2>2. To(N, f)[0] = first
    BY <2>1
  <2>3. QED
    <3> HIDE DEF To
    <3>1. QED
      BY <1>5, <2>2
<1>7. ASSUME NEW n \in 1 .. N PROVE f[n] = step[n][f[n - 1]]
  <2>1. n \in 0 .. N /\ n # 0
    OBVIOUS
  <2>2. To(N, f)[n] = step[n][f[n - 1]]
    BY <2>1
  <2>3. QED
    <3> HIDE DEF To
    <3>1. QED
      BY <1>5, <2>2
<1>8. QED
  BY <1>6, <1>7 DEF Follows
--------------------------------------------------------------------------------
(* The spans that will move completeSince. *)

\* Spans lie apart, each from its first to its last, and there is a last one.
Spans(S) ==
    /\ S \subseteq Nat \X Nat /\ IsFiniteSet(S)
    /\ \A s \in S : s[1] <= s[2]
    /\ \A s, u \in S : s = u \/ s[2] < u[1] \/ u[2] < s[1]
    /\ \E b \in Nat : \A s \in S : s[2] <= b

\* One of the spans is over `time`.
Within(time, S) == \E s \in S : s[1] <= time /\ time <= s[2]

\* A span is a pair of times, from its first to its last.
LEMMA SpanType ==
    ASSUME NEW S, Spans(S), NEW s \in S
    PROVE  s[1] \in Nat /\ s[2] \in Nat /\ s = <<s[1], s[2]>> /\ s[1] <= s[2]
BY DEF Spans

\* Of two or more spans, the ones merged are neighbours.
LEMMA MergedAreNeighbours ==
    ASSUME NEW S, Spans(S), NEW x \in S, NEW y \in S, x # y
    PROVE  \E p, q \in S :
              /\ p[1] < q[1] /\ ~\E s \in S : p[1] < s[1] /\ s[1] < q[1]
              /\ MergeClosest(S) = (S \ {p, q}) \cup {<<p[1], q[2]>>}
<1> DEFINE N == {p \in S \X S : /\ p[1][1] < p[2][1]
                                /\ ~\E s \in S : p[1][1] < s[1] /\ s[1] < p[2][1]}
           width(p) == p[2][2] - p[1][1]
           Best(p) == \A q \in N : \/ width(p) < width(q)
                                   \/ width(p) = width(q) /\ p[1][1] <= q[1][1]
<1>1. \A s \in S : s[1] \in Nat /\ s[2] \in Nat /\ s = <<s[1], s[2]>> /\ s[1] <= s[2]
  BY SpanType
<1>2. N # {}
  <2>1. PICK u, v \in S : u[1] < v[1]
    <3>1. x[1] # y[1]
      BY <1>1 DEF Spans
    <3>2. x[1] < y[1] \/ y[1] < x[1]
      BY <1>1, <3>1
    <3>3. QED
      BY <3>2
  <2> DEFINE T == {s[1] : s \in {s \in S : u[1] < s[1]}}
  <2>2. T \in SUBSET Nat /\ T # {}
    BY <1>1, <2>1
  <2>3. PICK m \in T : \A n \in T : m <= n
    <3> HIDE DEF T
    <3>1. QED
      BY <2>2, LeastNatural
  <2>4. PICK w \in S : u[1] < w[1] /\ w[1] = m
    BY <2>3
  <2>5. ASSUME NEW s \in S, u[1] < s[1], s[1] < w[1] PROVE FALSE
    <3>1. s[1] \in T
      BY <2>5
    <3>2. QED
      BY <3>1, <2>3, <2>4, <2>5, <1>1
  <2>6. <<u, w>> \in N
    BY <2>4, <2>5
  <2>7. QED
    BY <2>6
<1>3. \A p \in N : width(p) \in Nat /\ p[1] \in S /\ p[2] \in S /\ p[1][1] \in Nat
  <2> SUFFICES ASSUME NEW p \in N
               PROVE  width(p) \in Nat /\ p[1] \in S /\ p[2] \in S /\ p[1][1] \in Nat
    OBVIOUS
  <2>1. p[1] \in S /\ p[2] \in S /\ p[1][1] < p[2][1]
    OBVIOUS
  <2>2. QED
    BY <2>1, <1>1
<1>4. \E p \in N : Best(p)
  <2> HIDE DEF N, width
  <2> DEFINE W == {width(p) : p \in N}
  <2>1. W \in SUBSET Nat /\ W # {}
    BY <1>2, <1>3
  <2>2. PICK w \in W : \A n \in W : w <= n
    <3> HIDE DEF W
    <3>1. QED
      BY <2>1, LeastNatural
  <2> DEFINE V == {p[1][1] : p \in {p \in N : width(p) = w}}
  <2>3. V \in SUBSET Nat /\ V # {}
    BY <1>3, <2>2
  <2>4. PICK v \in V : \A n \in V : v <= n
    <3> HIDE DEF V
    <3>1. QED
      BY <2>3, LeastNatural
  <2>5. PICK p \in N : width(p) = w /\ p[1][1] = v
    BY <2>4
  <2>6. ASSUME NEW q \in N
        PROVE  width(p) < width(q) \/ (width(p) = width(q) /\ p[1][1] <= q[1][1])
    <3>1. w <= width(q) /\ w \in Nat /\ width(q) \in Nat
      BY <2>1, <2>2, <1>3
    <3>2. CASE width(q) = w
      <4>1. q[1][1] \in V
        BY <3>2
      <4>2. QED
        BY <4>1, <2>4, <2>5, <3>2
    <3>3. CASE width(q) # w
      <4>1. w < width(q)
        BY <3>1, <3>3
      <4>2. width(p) < width(q)
        BY <4>1, <2>5, Zenon
      <4>3. QED
        BY <4>2
    <3>4. QED
      BY <3>2, <3>3
  <2>7. QED
    BY <2>5, <2>6
<1> DEFINE c == CHOOSE p \in N : Best(p)
<1>5. c \in N
  <2> HIDE DEF N, Best
  <2>1. QED
    BY <1>4
<1>6. MergeClosest(S) = (S \ {c[1], c[2]}) \cup {<<c[1][1], c[2][2]>>}
  BY DEF MergeClosest
<1>7. c[1] \in S /\ c[2] \in S /\ c[1][1] < c[2][1]
      /\ ~\E s \in S : c[1][1] < s[1] /\ s[1] < c[2][1]
  <2> HIDE DEF c
  <2>1. QED
    BY <1>5
<1>8. QED
  <2> HIDE DEF c, N
  <2>1. QED
    BY <1>6, <1>7

\* What a new span and a merge leave: spans still, that cover all they covered and `time`.
LEMMA LaterFloorCovers ==
    ASSUME NEW S, Spans(S), Cardinality(S) <= MaxTracked, NEW time \in Nat
    PROVE  /\ Spans(LaterFloor(S, time))
           /\ Cardinality(LaterFloor(S, time)) <= MaxTracked
           /\ Within(time, LaterFloor(S, time))
           /\ \A s \in S : \E l \in LaterFloor(S, time) : l[1] <= s[1] /\ s[2] <= l[2]
<1> DEFINE A == S \cup {<<time, time>>}
<1>0. \A s \in S : s[1] \in Nat /\ s[2] \in Nat /\ s = <<s[1], s[2]>> /\ s[1] <= s[2]
  BY SpanType
<1>1. CASE \E s \in S : s[1] <= time /\ time <= s[2]
  <2>1. LaterFloor(S, time) = S
    BY <1>1 DEF LaterFloor
  <2>2. \A s \in S : \E l \in S : l[1] <= s[1] /\ s[2] <= l[2]
    BY <1>0
  <2>3. QED
    BY <2>1, <2>2, <1>1 DEF Within
<1>2. ASSUME ~\E s \in S : s[1] <= time /\ time <= s[2]
      PROVE  /\ Spans(A) /\ <<time, time>> \notin S
             /\ Cardinality(A) = Cardinality(S) + 1 /\ Cardinality(S) \in Nat
  <2>1. <<time, time>> \notin S
    BY <1>2
  <2>2. IsFiniteSet(A) /\ Cardinality(A) = Cardinality(S) + 1 /\ Cardinality(S) \in Nat
    BY <2>1, FS_AddElement, FS_CardinalityType DEF Spans
  <2>3. A \subseteq Nat \X Nat /\ \A s \in A : s[1] <= s[2]
    BY DEF Spans
  <2>4. \A s, u \in A : s = u \/ s[2] < u[1] \/ u[2] < s[1]
    <3> SUFFICES ASSUME NEW s \in A, NEW u \in A
                 PROVE  s = u \/ s[2] < u[1] \/ u[2] < s[1]
      OBVIOUS
    <3>1. CASE s \in S /\ u \in S
      BY <3>1 DEF Spans
    <3>2. CASE s \in S /\ u = <<time, time>>
      <4>1. ~(s[1] <= time /\ time <= s[2])
        BY <3>2, <1>2
      <4>2. QED
        BY <3>2, <4>1, <1>0
    <3>3. CASE s = <<time, time>> /\ u \in S
      <4>1. ~(u[1] <= time /\ time <= u[2])
        BY <3>3, <1>2
      <4>2. QED
        BY <3>3, <4>1, <1>0
    <3>4. CASE s = <<time, time>> /\ u = <<time, time>>
      BY <3>4
    <3>5. QED
      BY <3>1, <3>2, <3>3, <3>4
  <2>5. PICK b \in Nat : \A s \in S : s[2] <= b
    BY DEF Spans
  <2>6. \E m \in Nat : \A s \in A : s[2] <= m
    <3>1. \A s \in A : s[2] <= b + time
      BY <1>0, <2>5
    <3>2. QED
      BY <3>1
  <2>7. Spans(A)
    <3> HIDE DEF A
    <3>1. QED
      BY <2>2, <2>3, <2>4, <2>6 DEF Spans
  <2>8. QED
    BY <2>1, <2>2, <2>7
<1>3. CASE /\ ~\E s \in S : s[1] <= time /\ time <= s[2]
           /\ Cardinality(A) <= MaxTracked
  <2>1. LaterFloor(S, time) = A
    BY <1>3 DEF LaterFloor
  <2>2. \A s \in S : s \in A /\ s[1] <= s[1] /\ s[2] <= s[2]
    BY <1>0
  <2>3. Within(time, A)
    <3>1. <<time, time>>[1] <= time /\ time <= <<time, time>>[2]
      OBVIOUS
    <3>2. <<time, time>> \in A
      OBVIOUS
    <3> HIDE DEF A
    <3>3. QED
      BY <3>1, <3>2, Zenon DEF Within
  <2>4. Spans(A)
    BY <1>2, <1>3
  <2>5. QED
    <3> HIDE DEF A
    <3>1. QED
      BY <2>1, <2>2, <2>3, <2>4, <1>3
<1>4. CASE /\ ~\E s \in S : s[1] <= time /\ time <= s[2]
           /\ ~(Cardinality(A) <= MaxTracked)
  <2>1. LaterFloor(S, time) = MergeClosest(A)
    BY <1>4 DEF LaterFloor
  <2>2. Spans(A) /\ <<time, time>> \notin S /\ Cardinality(A) = Cardinality(S) + 1
    /\ Cardinality(S) \in Nat
    BY <1>2, <1>4
  <2>3. Cardinality(A) = MaxTracked + 1 /\ S # {}
    <3>1. Cardinality(A) = MaxTracked + 1 /\ Cardinality(S) = MaxTracked
      BY <2>2, <1>4, LimitsAssumption
    <3>2. S # {}
      BY <3>1, FS_EmptySet, LimitsAssumption
    <3>3. QED
      BY <3>1, <3>2
  <2>4. PICK x \in S : TRUE
    BY <2>3
  <2>5. x \in A /\ <<time, time>> \in A /\ x # <<time, time>>
    BY <2>2
  <2> HIDE DEF A
  <2>6. PICK p, q \in A :
            /\ p[1] < q[1] /\ ~\E s \in A : p[1] < s[1] /\ s[1] < q[1]
            /\ MergeClosest(A) = (A \ {p, q}) \cup {<<p[1], q[2]>>}
    BY <2>2, <2>5, MergedAreNeighbours
  <2> DEFINE M == (A \ {p, q}) \cup {<<p[1], q[2]>>}
  <2>7. \A s \in A : s[1] \in Nat /\ s[2] \in Nat /\ s = <<s[1], s[2]>> /\ s[1] <= s[2]
    BY <2>2, SpanType
  <2>8. p # q /\ p[2] < q[1] /\ p[1] <= q[2] /\ p[1] <= p[2] /\ q[1] <= q[2]
    <3>1. p = q \/ p[2] < q[1] \/ q[2] < p[1]
      BY <2>2 DEF Spans
    <3>2. QED
      BY <3>1, <2>6, <2>7
  <2>9. \A s \in M : s[1] \in Nat /\ s[2] \in Nat /\ s = <<s[1], s[2]>> /\ s[1] <= s[2]
    BY <2>7, <2>8
  <2>10. IsFiniteSet(M) /\ Cardinality(M) <= MaxTracked
    <3> DEFINE B == (A \ {p}) \ {q}
    <3>1. IsFiniteSet(A)
      BY <2>2 DEF Spans
    <3>2. IsFiniteSet(A \ {p}) /\ Cardinality(A \ {p}) = MaxTracked
      BY <3>1, <2>3, FS_RemoveElement, LimitsAssumption
    <3>3. IsFiniteSet(B) /\ Cardinality(B) = MaxTracked - 1
      BY <3>2, <2>8, FS_RemoveElement, LimitsAssumption
    <3> DEFINE h == <<p[1], q[2]>>
    <3>4. M = B \cup {h}
      OBVIOUS
    <3>5. IsFiniteSet(M) /\ Cardinality(M) \in {MaxTracked - 1, MaxTracked}
      <4> HIDE DEF B, M, h
      <4>1. IsFiniteSet(B \cup {h})
            /\ Cardinality(B \cup {h}) = IF h \in B THEN Cardinality(B) ELSE Cardinality(B) + 1
        BY <3>3, FS_AddElement
      <4>2. QED
        BY <3>3, <3>4, <4>1, LimitsAssumption
    <3>6. QED
      BY <3>5, LimitsAssumption
  <2>11. \A s, u \in M : s = u \/ s[2] < u[1] \/ u[2] < s[1]
    <3>1. ASSUME NEW s \in A, s # p, s # q
          PROVE  s[2] < p[1] \/ q[2] < s[1]
      <4>1. ~(p[1] < s[1] /\ s[1] < q[1])
        BY <2>6
      <4>2. (s[2] < p[1] \/ p[2] < s[1]) /\ (s[2] < q[1] \/ q[2] < s[1])
        BY <2>2, <3>1 DEF Spans
      <4>3. QED
        BY <4>1, <4>2, <2>7, <2>8
    <3>2. ASSUME NEW s \in A, NEW u \in A
          PROVE  s = u \/ s[2] < u[1] \/ u[2] < s[1]
      BY <2>2 DEF Spans
    <3>3. <<p[1], q[2]>>[1] = p[1] /\ <<p[1], q[2]>>[2] = q[2]
      OBVIOUS
    <3>4. QED
      BY <3>1, <3>2, <3>3
  <2>12. \E b \in Nat : \A s \in M : s[2] <= b
    <3>1. PICK b \in Nat : \A s \in A : s[2] <= b
      BY <2>2 DEF Spans
    <3>2. QED
      BY <3>1
  <2>13. Spans(M)
    <3>1. M \subseteq Nat \X Nat
      BY <2>7
    <3> HIDE DEF M
    <3>2. QED
      BY <3>1, <2>9, <2>10, <2>11, <2>12 DEF Spans
  <2>14. ASSUME NEW s \in A PROVE \E l \in M : l[1] <= s[1] /\ s[2] <= l[2]
    <3> DEFINE h == <<p[1], q[2]>>
    <3>1. h \in M /\ h[1] = p[1] /\ h[2] = q[2]
      OBVIOUS
    <3>2. CASE s \in {p, q}
      <4>1. h[1] <= s[1] /\ s[2] <= h[2]
        BY <3>1, <3>2, <2>7, <2>8
      <4>2. QED
        BY <3>1, <4>1
    <3>3. CASE s \notin {p, q}
      <4>1. s \in M /\ s[1] <= s[1] /\ s[2] <= s[2]
        BY <3>3, <2>7
      <4>2. QED
        BY <4>1
    <3>4. QED
      BY <3>2, <3>3
  <2>15. S \subseteq A
    BY DEF A
  <2>16. Within(time, M)
    <3>1. PICK l \in M : l[1] <= <<time, time>>[1] /\ <<time, time>>[2] <= l[2]
      BY <2>14, <2>5
    <3>2. QED
      BY <3>1 DEF Within
  <2>17. LaterFloor(S, time) = M
    BY <2>1, <2>6
  <2> HIDE DEF M
  <2>18. QED
    BY <2>10, <2>13, <2>14, <2>15, <2>16, <2>17
<1>5. QED
  BY <1>1, <1>3, <1>4
--------------------------------------------------------------------------------
(* Markers. *)

USE DEF Stamp, Absent

\* A marker is made of stamps.
LEMMA MarkerForType ==
    ASSUME NEW t \in Nat, NEW d \in Durations
    PROVE  MarkerFor(t, d) \in Marker
BY DEF MarkerFor, Marker, NoMarker, Durations

\* So is one overwritten with another.
LEMMA ApplyType ==
    ASSUME NEW a \in Marker, NEW b \in Marker
    PROVE  ApplyMarker(a, b) \in Marker
BY DEF ApplyMarker, Overwrite, Marker

\* A merge is the later of both in the fields it compares.
LEMMA MergeIs ==
    ASSUME NEW a \in Marker, NEW b \in Marker
    PROVE  /\ MergeMarkers(a, b) \in Marker
           /\ MergeMarkers(a, b).revalidatedAt = Later(a.revalidatedAt, b.revalidatedAt)
           /\ MergeMarkers(a, b).staleAt = Later(a.staleAt, b.staleAt)
BY DEF MergeMarkers, ApplyMarker, Overwrite, Later, Marker

\* The marker of a tag with no row.
LEMMA NoMarkerIs ==
    /\ NoMarker \in Marker
    /\ NoMarker.revalidatedAt = -1 /\ NoMarker.staleAt = -1 /\ NoMarker.expiredAt = -1
BY DEF NoMarker, Marker

\* Merging it in changes nothing.
LEMMA MergeNone ==
    ASSUME NEW a \in Marker
    PROVE  MergeMarkers(a, NoMarker) = a
BY DEF MergeMarkers, ApplyMarker, Overwrite, Later, Marker, NoMarker

\* A marker is known by no earlier than its stamps that have come.
LEMMA KnownByIs ==
    ASSUME NEW m \in Marker, NEW n \in Nat
    PROVE  /\ KnownBy(m, n) \in Int
           /\ m.revalidatedAt <= KnownBy(m, n) /\ m.staleAt <= KnownBy(m, n)
           /\ m.expiredAt <= n => m.expiredAt <= KnownBy(m, n)
BY DEF KnownBy, Later, Marker

\* A marker is never known by an earlier time as time goes on.
LEMMA KnownByGrows ==
    ASSUME NEW m \in Marker, NEW n \in Nat, NEW o \in Nat, n <= o
    PROVE  KnownBy(m, n) <= KnownBy(m, o)
BY DEF KnownBy, Later, Marker

--------------------------------------------------------------------------------
(* completeSince. *)

FloorIs(k) == k.floor \in Nat /\ Spans(k.later) /\ Cardinality(k.later) <= MaxTracked

\* `time` is before completeSince, or will be when it comes.
LetGo(k, time) == time <= k.floor \/ Within(time, k.later)
Frees(k, m) ==
    m.revalidatedAt <= k.floor /\ m.staleAt <= k.floor /\ LetGo(k, m.expiredAt)

\* What `k` does not vouch for `l` does not either.
Moved(k, l) ==
    /\ k.floor <= l.floor
    /\ \A s \in k.later : \/ s[2] <= l.floor
                          \/ \E u \in l.later : u[1] <= s[1] /\ s[2] <= u[2]

\* completeSince that does not move has let go of no less.
LEMMA MovedStays == ASSUME NEW k, FloorIs(k) PROVE Moved(k, k)
BY SpanType DEF Moved, FloorIs

\* It moves on from where it moved to.
LEMMA MovedOn ==
    ASSUME NEW k, FloorIs(k), NEW l, FloorIs(l), NEW m, FloorIs(m), Moved(k, l), Moved(l, m)
    PROVE  Moved(k, m)
<1>1. \A s \in k.later : s[1] \in Nat /\ s[2] \in Nat
  BY SpanType DEF FloorIs
<1>2. \A s \in l.later : s[1] \in Nat /\ s[2] \in Nat
  BY SpanType DEF FloorIs
<1>3. \A s \in m.later : s[1] \in Nat /\ s[2] \in Nat
  BY SpanType DEF FloorIs
<1>4. k.floor <= m.floor /\ l.floor <= m.floor
  BY DEF Moved, FloorIs
<1>5. ASSUME NEW s \in k.later
      PROVE  s[2] <= m.floor \/ \E u \in m.later : u[1] <= s[1] /\ s[2] <= u[2]
  <2>1. CASE s[2] <= l.floor
    BY <2>1, <1>1, <1>4 DEF FloorIs
  <2>2. ASSUME NEW u \in l.later, u[1] <= s[1], s[2] <= u[2]
        PROVE  s[2] <= m.floor \/ \E v \in m.later : v[1] <= s[1] /\ s[2] <= v[2]
    <3>1. CASE u[2] <= m.floor
      BY <3>1, <2>2, <1>1, <1>2 DEF FloorIs
    <3>2. ASSUME NEW v \in m.later, v[1] <= u[1], u[2] <= v[2]
          PROVE  v[1] <= s[1] /\ s[2] <= v[2]
      BY <3>2, <2>2, <1>1, <1>2, <1>3
    <3>3. u[2] <= m.floor \/ \E v \in m.later : v[1] <= u[1] /\ u[2] <= v[2]
      BY DEF Moved
    <3>4. QED
      BY <3>1, <3>2, <3>3
  <2>3. QED
    BY <2>1, <2>2 DEF Moved
<1>6. QED
  BY <1>4, <1>5 DEF Moved

\* What was let go of stays so.
LEMMA LetGoStays ==
    ASSUME NEW k, FloorIs(k), NEW l, FloorIs(l), Moved(k, l), NEW time \in Stamp, LetGo(k, time)
    PROVE  LetGo(l, time)
<1>1. \A s \in k.later : s[1] \in Nat /\ s[2] \in Nat
  BY SpanType DEF FloorIs
<1>2. \A s \in l.later : s[1] \in Nat /\ s[2] \in Nat
  BY SpanType DEF FloorIs
<1>3. CASE time <= k.floor
  BY <1>3 DEF LetGo, Moved, FloorIs
<1>4. ASSUME NEW s \in k.later, s[1] <= time, time <= s[2]
      PROVE  LetGo(l, time)
  <2>1. CASE s[2] <= l.floor
    BY <2>1, <1>1, <1>4 DEF LetGo, FloorIs
  <2>2. ASSUME NEW u \in l.later, u[1] <= s[1], s[2] <= u[2]
        PROVE  u[1] <= time /\ time <= u[2]
    BY <2>2, <1>1, <1>2, <1>4
  <2>3. QED
    BY <2>1, <2>2 DEF LetGo, Within, Moved
<1>5. QED
  BY <1>3, <1>4 DEF LetGo, Within

\* A marker completeSince is past stays behind it.
LEMMA FreesStays ==
    ASSUME NEW k, FloorIs(k), NEW l, FloorIs(l), Moved(k, l), NEW m \in Marker, Frees(k, m)
    PROVE  Frees(l, m)
<1>1. m.revalidatedAt \in Stamp /\ m.staleAt \in Stamp /\ m.expiredAt \in Stamp
  BY DEF Marker
<1>2. LetGo(l, m.expiredAt)
  BY <1>1, LetGoStays DEF Frees
<1>3. QED
  BY <1>1, <1>2 DEF Frees, Moved, FloorIs

\* It is past the marker of a tag with no row.
LEMMA FreesNone == ASSUME NEW k, FloorIs(k) PROVE Frees(k, NoMarker)
BY NoMarkerIs DEF Frees, LetGo, FloorIs

CompleteAt(k, n) == Max({k.floor} \cup {s[2] : s \in {s \in k.later : s[1] <= n}})

\* completeSince is the floor, or the last of a span that has begun, and past all others.
LEMMA CompleteAtIs ==
    ASSUME NEW k, FloorIs(k), NEW n \in Nat
    PROVE  /\ CompleteAt(k, n) \in Nat /\ k.floor <= CompleteAt(k, n)
           /\ \A s \in k.later : s[1] <= n => s[2] <= CompleteAt(k, n)
           /\ \/ CompleteAt(k, n) = k.floor
              \/ \E s \in k.later : s[1] <= n /\ CompleteAt(k, n) = s[2]
<1> DEFINE S == {k.floor} \cup {s[2] : s \in {s \in k.later : s[1] <= n}}
<1>1. \A s \in k.later : s[1] \in Nat /\ s[2] \in Nat
  BY SpanType DEF FloorIs
<1>2. S \in SUBSET Nat /\ k.floor \in S
  BY <1>1 DEF FloorIs
<1>3. \E m \in Nat : \A x \in S : x <= m
  <2>1. PICK b \in Nat : \A s \in k.later : s[2] <= b
    BY DEF FloorIs, Spans
  <2>2. k.floor + b \in Nat /\ \A x \in S : x <= k.floor + b
    BY <2>1, <1>1 DEF FloorIs
  <2>3. QED
    BY <2>2
<1>4. \E x \in S : \A y \in S : x >= y
  <2> HIDE DEF S
  <2> DEFINE U == {u \in Nat : \A x \in S : x <= u}
  <2>1. U \in SUBSET Nat /\ U # {}
    BY <1>3
  <2>2. PICK u \in U : \A v \in U : u <= v
    <3> HIDE DEF U
    <3>1. QED
      BY <2>1, LeastNatural
  <2>3. u \in S
    <3>1. SUFFICES ASSUME u \notin S PROVE FALSE
      OBVIOUS
    <3>2. \A x \in S : x <= u - 1
      BY <3>1, <1>2, <2>2
    <3>3. u - 1 \in Nat
      <4>1. k.floor \in Nat /\ k.floor <= u - 1 /\ u \in Nat
        BY <3>2, <1>2, <2>2
      <4>2. QED
        BY <4>1
    <3>4. u - 1 \in U
      BY <3>2, <3>3
    <3>5. QED
      BY <3>4, <2>2
  <2>4. QED
    BY <2>3
<1>5. CompleteAt(k, n) \in S /\ \A y \in S : CompleteAt(k, n) >= y
  <2>1. CompleteAt(k, n) = CHOOSE x \in S : \A y \in S : x >= y
    BY DEF CompleteAt, Max
  <2> HIDE DEF S
  <2>2. QED
    BY <2>1, <1>4
<1>6. \A s \in k.later : s[1] <= n => s[2] \in S
  OBVIOUS
<1>7. CompleteAt(k, n) = k.floor
      \/ \E s \in k.later : s[1] <= n /\ CompleteAt(k, n) = s[2]
  BY <1>5
<1>8. QED
  <2> HIDE DEF S
  <2>1. QED
    BY <1>2, <1>5, <1>6, <1>7

\* What `l` does not vouch for grows with time and with what is let go of.
LEMMA CompleteAtGrows ==
    ASSUME NEW k, FloorIs(k), NEW l, FloorIs(l), Moved(k, l),
           NEW n \in Nat, NEW o \in Nat, n <= o
    PROVE  CompleteAt(l, o) >= CompleteAt(k, n)
<1>1. \A s \in k.later : s[1] \in Nat /\ s[2] \in Nat
  BY SpanType DEF FloorIs
<1>2. \A s \in l.later : s[1] \in Nat /\ s[2] \in Nat
  BY SpanType DEF FloorIs
<1>3. CompleteAt(l, o) \in Nat /\ l.floor <= CompleteAt(l, o)
      /\ \A s \in l.later : s[1] <= o => s[2] <= CompleteAt(l, o)
  BY CompleteAtIs
<1>4. CASE CompleteAt(k, n) = k.floor
  BY <1>3, <1>4 DEF Moved, FloorIs
<1>5. ASSUME NEW s \in k.later, s[1] <= n, CompleteAt(k, n) = s[2]
      PROVE  CompleteAt(l, o) >= CompleteAt(k, n)
  <2>1. CASE s[2] <= l.floor
    BY <2>1, <1>1, <1>3, <1>5 DEF FloorIs
  <2>2. ASSUME NEW u \in l.later, u[1] <= s[1], s[2] <= u[2]
        PROVE  CompleteAt(l, o) >= CompleteAt(k, n)
    <3>1. u[1] <= o
      BY <2>2, <1>1, <1>2, <1>5
    <3>2. QED
      BY <3>1, <2>2, <1>1, <1>2, <1>3, <1>5
  <2>3. QED
    BY <2>1, <2>2 DEF Moved
<1>6. QED
  BY <1>4, <1>5, CompleteAtIs

\* What was let go of is before completeSince once it has come.
LEMMA LetGoIsPast ==
    ASSUME NEW k, FloorIs(k), NEW n \in Nat, NEW time \in Stamp, LetGo(k, time), time <= n
    PROVE  time <= CompleteAt(k, n)
<1>1. CompleteAt(k, n) \in Nat /\ k.floor <= CompleteAt(k, n)
      /\ \A s \in k.later : s[1] <= n => s[2] <= CompleteAt(k, n)
  BY CompleteAtIs
<1>2. CASE time <= k.floor
  BY <1>1, <1>2 DEF FloorIs
<1>3. ASSUME NEW s \in k.later, s[1] <= time, time <= s[2]
      PROVE  time <= CompleteAt(k, n)
  <2>1. s[1] \in Nat /\ s[2] \in Nat
    BY SpanType DEF FloorIs
  <2>2. s[1] <= n
    BY <2>1, <1>3
  <2>3. QED
    BY <2>1, <2>2, <1>1, <1>3
<1>4. QED
  BY <1>2, <1>3 DEF LetGo, Within
--------------------------------------------------------------------------------
(* What is known, in its maps. *)

\* No element comes twice.
Distinct(s) == \A i, j \in DOMAIN s : s[i] = s[j] => i = j

\* The maps agree: a tag is in one, and only there.
Shape(k) ==
    /\ k \in Knowledge /\ FloorIs(k)
    /\ Distinct(k.tags) /\ Len(k.tags) <= MaxTracked
    /\ Distinct(k.logged) /\ Len(k.logged) <= MaxTracked
    /\ \A t \in Tags :
          /\ t \in Tracked(k) => t \notin Logged(k)
          /\ t \notin Tracked(k) => k.marker[t] = NoMarker
          /\ t \notin Logged(k) => k.logOnly[t] = NoMarker

Elements(s) == {s[i] : i \in DOMAIN s}

\* A tag taken out of a Map, which holds it once at most.
LEMMA RemoveFirstIs ==
    ASSUME NEW s \in Seq(Tags), Distinct(s), NEW t \in Tags
    PROVE  /\ RemoveFirst(s, t) \in Seq(Tags) /\ Distinct(RemoveFirst(s, t))
           /\ Elements(RemoveFirst(s, t)) = Elements(s) \ {t}
           /\ Len(RemoveFirst(s, t)) = IF t \in Elements(s) THEN Len(s) - 1 ELSE Len(s)
<1>0. Len(s) \in Nat /\ DOMAIN s = 1 .. Len(s)
  OBVIOUS
<1>1. CASE t \notin Elements(s)
  <2>1. RemoveFirst(s, t) = s
    BY <1>1 DEF RemoveFirst, Elements
  <2>2. QED
    BY <2>1, <1>1
<1>2. ASSUME t \in Elements(s)
      PROVE  \E i \in 1 .. Len(s) : s[i] = t /\ RemoveFirst(s, t) = RemoveAt(s, i)
  <2>1. PICK i \in 1 .. Len(s) : s[i] = t
    BY <1>2 DEF Elements
  <2> DEFINE I == {j \in 1 .. Len(s) : s[j] = t}
  <2>2. I = {i}
    BY <2>1 DEF Distinct
  <2>3. Min(I) = i
    BY <2>1, <2>2 DEF Min
  <2>4. RemoveFirst(s, t) = RemoveAt(s, Min(I))
    BY <2>1, <2>2 DEF RemoveFirst, SelectInSeq
  <2>5. QED
    BY <2>1, <2>3, <2>4
<1>3. ASSUME NEW i \in 1 .. Len(s), s[i] = t, RemoveFirst(s, t) = RemoveAt(s, i)
      PROVE  /\ RemoveFirst(s, t) \in Seq(Tags) /\ Distinct(RemoveFirst(s, t))
             /\ Elements(RemoveFirst(s, t)) = Elements(s) \ {t}
             /\ Len(RemoveFirst(s, t)) = IF t \in Elements(s) THEN Len(s) - 1 ELSE Len(s)
  <2> DEFINE r == RemoveAt(s, i)
  <2>1. /\ r \in Seq(Tags) /\ Len(r) = Len(s) - 1
        /\ \A j \in 1 .. Len(s) - 1 : r[j] = IF j < i THEN s[j] ELSE s[j + 1]
    <3>1. SubSeq(s, 1, i - 1) \in Seq(Tags) /\ Len(SubSeq(s, 1, i - 1)) = i - 1
          /\ \A j \in 1 .. i - 1 : SubSeq(s, 1, i - 1)[j] = s[j]
      OBVIOUS
    <3>2. SubSeq(s, i + 1, Len(s)) \in Seq(Tags)
          /\ Len(SubSeq(s, i + 1, Len(s))) = Len(s) - i
          /\ \A j \in 1 .. Len(s) - i : SubSeq(s, i + 1, Len(s))[j] = s[i + j]
      OBVIOUS
    <3> DEFINE u == SubSeq(s, 1, i - 1)
               v == SubSeq(s, i + 1, Len(s))
    <3>3. r = u \o v
      BY DEF RemoveAt
    <3> HIDE DEF u, v, r
    <3>4. r \in Seq(Tags) /\ Len(r) = Len(s) - 1
      <4>1. u \in Seq(Tags) /\ Len(u) = i - 1 /\ v \in Seq(Tags) /\ Len(v) = Len(s) - i
        BY <3>1, <3>2 DEF u, v
      <4>2. u \o v \in Seq(Tags) /\ Len(u \o v) = Len(u) + Len(v)
        BY <4>1
      <4>3. Len(u) + Len(v) = Len(s) - 1
        BY <4>1, <1>0
      <4>4. QED
        BY <3>3, <4>2, <4>3
    <3>5. \A j \in 1 .. Len(s) - 1 : r[j] = IF j < i THEN s[j] ELSE s[j + 1]
      <4> SUFFICES ASSUME NEW j \in 1 .. Len(s) - 1
                   PROVE  r[j] = IF j < i THEN s[j] ELSE s[j + 1]
        OBVIOUS
      <4>1. u \in Seq(Tags) /\ Len(u) = i - 1 /\ v \in Seq(Tags) /\ Len(v) = Len(s) - i
        BY <3>1, <3>2 DEF u, v
      <4>2. r[j] = IF j <= Len(u) THEN u[j] ELSE v[j - Len(u)]
        BY <3>3, <4>1
      <4>3. CASE j < i
        BY <4>1, <4>2, <4>3, <3>1 DEF u
      <4>4. CASE ~(j < i)
        <5>1. j - (i - 1) \in 1 .. Len(s) - i
          BY <4>4
        <5>2. v[j - (i - 1)] = s[i + (j - (i - 1))]
          BY <5>1, <3>2 DEF v
        <5>3. i + (j - (i - 1)) = j + 1
          OBVIOUS
        <5>4. QED
          BY <4>1, <4>2, <4>4, <5>2, <5>3
      <4>5. QED
        BY <4>3, <4>4
    <3>6. QED
      BY <3>4, <3>5
  <2> HIDE DEF r
  <2>2. DOMAIN r = 1 .. Len(s) - 1
    BY <2>1
  <2>3. Distinct(r)
    BY <2>1, <2>2, <1>0 DEF Distinct
  <2>4. \A x : x \in Elements(r) <=> x \in Elements(s) \ {t}
    <3>1. ASSUME NEW j \in 1 .. Len(s) - 1 PROVE r[j] \in Elements(s) \ {t}
      <4>1. \A n \in 1 .. Len(s) : n # i => s[n] # t
        BY <1>3 DEF Distinct
      <4>2. QED
        BY <4>1, <2>1 DEF Elements
    <3>2. ASSUME NEW j \in 1 .. Len(s), s[j] # t PROVE s[j] \in Elements(r)
      <4>1. j # i
        BY <3>2, <1>3
      <4>2. CASE j < i
        <5>1. j \in 1 .. Len(s) - 1 /\ r[j] = s[j]
          BY <4>2, <2>1
        <5>2. QED
          BY <5>1, <2>2 DEF Elements
      <4>3. CASE j > i
        <5>1. j - 1 \in 1 .. Len(s) - 1 /\ r[j - 1] = s[j]
          BY <4>3, <2>1
        <5>2. QED
          BY <5>1, <2>2 DEF Elements
      <4>4. QED
        BY <4>1, <4>2, <4>3
    <3>3. QED
      BY <3>1, <3>2, <2>2, <1>0 DEF Elements
  <2>5. t \in Elements(s)
    BY <1>3 DEF Elements
  <2>6. RemoveFirst(s, t) = r
    BY <1>3 DEF r
  <2>7. QED
    BY <2>1, <2>3, <2>4, <2>5, <2>6
<1>4. QED
  BY <1>1, <1>2, <1>3

\* `t` moved to the end, or put there.
LEMMA MovedToEnd ==
    ASSUME NEW s \in Seq(Tags), Distinct(s), NEW t \in Tags
    PROVE  LET r == Append(RemoveFirst(s, t), t)
           IN  /\ r \in Seq(Tags) /\ Distinct(r) /\ Elements(r) = Elements(s) \cup {t}
               /\ Len(r) <= Len(s) + 1 /\ Len(r) \in Nat \ {0}
<1> DEFINE q == RemoveFirst(s, t)
           r == Append(q, t)
<1>1. q \in Seq(Tags) /\ Distinct(q) /\ Elements(q) = Elements(s) \ {t} /\ Len(q) <= Len(s)
  <2>1. /\ q \in Seq(Tags) /\ Distinct(q) /\ Elements(q) = Elements(s) \ {t}
        /\ Len(q) = IF t \in Elements(s) THEN Len(s) - 1 ELSE Len(s)
    BY RemoveFirstIs
  <2>2. Len(s) \in Nat
    OBVIOUS
  <2> HIDE DEF q
  <2>3. QED
    BY <2>1, <2>2
<1> HIDE DEF q
<1>2. /\ r \in Seq(Tags) /\ Len(r) = Len(q) + 1 /\ r[Len(q) + 1] = t
      /\ \A i \in 1 .. Len(q) : r[i] = q[i]
  BY <1>1
<1>3. Len(q) \in Nat /\ DOMAIN q = 1 .. Len(q) /\ DOMAIN r = 1 .. Len(q) + 1
  BY <1>1, <1>2
<1> HIDE DEF r
<1>4. \A i \in 1 .. Len(q) : q[i] # t
  BY <1>1, <1>3 DEF Elements
<1>5. Distinct(r)
  <2> SUFFICES ASSUME NEW i \in 1 .. Len(q) + 1, NEW j \in 1 .. Len(q) + 1, r[i] = r[j]
               PROVE  i = j
    BY <1>3 DEF Distinct
  <2>1. CASE i \in 1 .. Len(q) /\ j \in 1 .. Len(q)
    BY <2>1, <1>1, <1>2, <1>3 DEF Distinct
  <2>2. CASE i = Len(q) + 1 \/ j = Len(q) + 1
    BY <2>2, <1>2, <1>3, <1>4
  <2>3. QED
    BY <2>1, <2>2, <1>3
<1>6. \A x : x \in Elements(r) <=> x \in Elements(s) \cup {t}
  <2>1. ASSUME NEW i \in 1 .. Len(q) + 1 PROVE r[i] \in Elements(s) \cup {t}
    <3>1. CASE i \in 1 .. Len(q)
      <4>1. r[i] = q[i] /\ q[i] \in Elements(q)
        BY <3>1, <1>2, <1>3 DEF Elements
      <4>2. QED
        BY <4>1, <1>1
    <3>2. CASE i = Len(q) + 1
      BY <3>2, <1>2
    <3>3. QED
      BY <3>1, <3>2, <1>3
  <2>2. ASSUME NEW i \in 1 .. Len(q) PROVE q[i] \in Elements(r)
    <3>1. i \in 1 .. Len(q) + 1 /\ q[i] = r[i]
      BY <1>2, <1>3
    <3>2. QED
      BY <3>1, <1>3 DEF Elements
  <2>3. t \in Elements(r)
    <3>1. Len(q) + 1 \in 1 .. Len(q) + 1 /\ t = r[Len(q) + 1]
      BY <1>2, <1>3
    <3>2. QED
      BY <3>1, <1>3 DEF Elements
  <2>4. \A x \in Elements(s) \ {t} : x \in Elements(r)
    <3>1. \A x \in Elements(q) : \E i \in 1 .. Len(q) : x = q[i]
      BY <1>3 DEF Elements
    <3>2. QED
      BY <3>1, <2>2, <1>1
  <2>5. \A x \in Elements(r) : x \in Elements(s) \cup {t}
    <3>1. \A x \in Elements(r) : \E i \in 1 .. Len(q) + 1 : x = r[i]
      BY <1>3 DEF Elements
    <3>2. QED
      BY <3>1, <2>1
  <2>6. QED
    BY <2>3, <2>4, <2>5
<1>7. Len(r) <= Len(s) + 1 /\ Len(r) \in Nat \ {0}
  BY <1>1, <1>2, <1>3
<1>8. QED
  BY <1>2, <1>5, <1>6, <1>7 DEF r, q

\* The least recently used, dropped.
LEMMA DropFirst ==
    ASSUME NEW s \in Seq(Tags), Distinct(s), Len(s) # 0
    PROVE  /\ Head(s) \in Elements(s) /\ Tail(s) \in Seq(Tags) /\ Distinct(Tail(s))
           /\ Elements(Tail(s)) = Elements(s) \ {Head(s)} /\ Len(Tail(s)) = Len(s) - 1
           /\ Len(s) > 1 => Head(s) # s[Len(s)]
<1>1. /\ Len(s) \in Nat /\ DOMAIN s = 1 .. Len(s) /\ Head(s) = s[1] /\ 1 \in DOMAIN s
      /\ Tail(s) \in Seq(Tags) /\ Len(Tail(s)) = Len(s) - 1
      /\ \A i \in 1 .. Len(s) - 1 : Tail(s)[i] = s[i + 1]
  OBVIOUS
<1> DEFINE q == Tail(s)
<1>2. DOMAIN q = 1 .. Len(s) - 1 /\ \A i \in 1 .. Len(s) - 1 : q[i] = s[i + 1]
  BY <1>1
<1> HIDE DEF q
<1>3. Distinct(q)
  BY <1>1, <1>2 DEF Distinct
<1>4. \A x : x \in Elements(q) <=> x \in Elements(s) \ {s[1]}
  <2>1. ASSUME NEW i \in 1 .. Len(s) - 1 PROVE q[i] \in Elements(s) \ {s[1]}
    <3>1. i + 1 \in 1 .. Len(s) /\ i + 1 # 1 /\ q[i] = s[i + 1]
      BY <1>1, <1>2
    <3>2. QED
      BY <3>1, <1>1 DEF Elements, Distinct
  <2>2. ASSUME NEW i \in 1 .. Len(s), s[i] # s[1] PROVE s[i] \in Elements(q)
    <3>1. i - 1 \in 1 .. Len(s) - 1
      BY <2>2, <1>1
    <3>2. q[i - 1] = s[i]
      BY <3>1, <1>1, <1>2
    <3>3. QED
      BY <3>1, <3>2, <1>2 DEF Elements
  <2>3. QED
    BY <2>1, <2>2, <1>1, <1>2 DEF Elements
<1>5. Head(s) \in Elements(s)
  BY <1>1 DEF Elements
<1>6. Len(s) > 1 => Head(s) # s[Len(s)]
  BY <1>1 DEF Distinct
<1>7. QED
  BY <1>1, <1>3, <1>4, <1>5, <1>6 DEF q
--------------------------------------------------------------------------------
(* What is known, and what each operation makes of it. *)

\* The types of what is known.
LEMMA KnowledgeIs ==
    ASSUME NEW k \in Knowledge
    PROVE  /\ k.tags \in Seq(Tags) /\ k.logged \in Seq(Tags)
           /\ k.marker \in [Tags -> Marker] /\ k.logOnly \in [Tags -> Marker]
           /\ k.pending \in [Tags -> Marker]
           /\ k.unread \subseteq Tags /\ k.applied \subseteq Revalidations
           /\ k.floor \in Int /\ k.later \in SUBSET (Int \X Int)
           /\ Len(k.tags) \in Nat /\ Len(k.logged) \in Nat
           /\ Tracked(k) = Elements(k.tags) /\ Logged(k) = Elements(k.logged)
BY DEF Knowledge, Tracked, Logged, Elements

\* All but completeSince is as it was.
MapsAsWere(k, l) ==
    /\ l.tags = k.tags /\ l.marker = k.marker /\ l.unread = k.unread
    /\ l.logged = k.logged /\ l.logOnly = k.logOnly
    /\ l.pending = k.pending /\ l.applied = k.applied

\* RaiseFloor moves completeSince past the marker and nothing else.
LEMMA RaiseFloorIs ==
    ASSUME now \in Nat, NEW k \in Knowledge, FloorIs(k), NEW m \in Marker
    PROVE  /\ RaiseFloor(k, m) \in Knowledge /\ FloorIs(RaiseFloor(k, m))
           /\ MapsAsWere(k, RaiseFloor(k, m))
           /\ Moved(k, RaiseFloor(k, m)) /\ Frees(RaiseFloor(k, m), m)
<1> DEFINE floor == Later(k.floor, KnownBy(m, now))
           later == IF m.expiredAt > Later(now, floor)
                    THEN LaterFloor(k.later, m.expiredAt) ELSE k.later
           r == RaiseFloor(k, m)
<1>1. m.revalidatedAt \in Stamp /\ m.staleAt \in Stamp /\ m.expiredAt \in Stamp
  BY DEF Marker
<1>2. /\ KnownBy(m, now) \in Int
      /\ m.revalidatedAt <= KnownBy(m, now) /\ m.staleAt <= KnownBy(m, now)
      /\ m.expiredAt <= now => m.expiredAt <= KnownBy(m, now)
  BY KnownByIs
<1>3. /\ floor \in Nat /\ k.floor <= floor /\ KnownBy(m, now) <= floor
      /\ now <= Later(now, floor) /\ floor <= Later(now, floor)
      /\ Later(now, floor) \in {now, floor}
  BY <1>2 DEF Later, FloorIs
<1> HIDE DEF floor
<1>4. /\ Spans(later) /\ Cardinality(later) <= MaxTracked
      /\ \A s \in k.later : \E u \in later : u[1] <= s[1] /\ s[2] <= u[2]
      /\ m.expiredAt <= floor \/ Within(m.expiredAt, later)
  <2>1. CASE m.expiredAt > Later(now, floor)
    <3>1. m.expiredAt \in Nat
      BY <2>1, <1>1, <1>3
    <3>2. later = LaterFloor(k.later, m.expiredAt)
      BY <2>1
    <3>3. QED
      BY <3>1, <3>2, LaterFloorCovers DEF FloorIs
  <2>2. CASE ~(m.expiredAt > Later(now, floor))
    <3>1. later = k.later
      BY <2>2
    <3>2. m.expiredAt <= floor
      BY <2>2, <1>1, <1>2, <1>3
    <3>3. \A s \in k.later : s[1] <= s[1] /\ s[2] <= s[2]
      BY SpanType DEF FloorIs
    <3>4. QED
      BY <3>1, <3>2, <3>3 DEF FloorIs
  <2>3. QED
    BY <2>1, <2>2
<1>5. r = [k EXCEPT !.floor = floor, !.later = later]
  BY DEF RaiseFloor, floor
<1> HIDE DEF later, r
<1>6. later \in SUBSET (Int \X Int)
  BY <1>4 DEF Spans
<1>7. r \in Knowledge /\ r.floor = floor /\ r.later = later /\ MapsAsWere(k, r)
  <2>1. r.floor = floor /\ r.later = later
    BY <1>5 DEF Knowledge
  <2>n. floor \in Int
    BY <1>3
  <2>r. r \in Knowledge
    BY <2>n, <1>5, <1>6 DEF Knowledge
  <2>2. MapsAsWere(k, r)
    BY <1>5 DEF Knowledge, MapsAsWere
  <2>3. QED
    BY <2>1, <2>2, <2>r
<1>8. FloorIs(r) /\ Moved(k, r)
  BY <1>3, <1>4, <1>7 DEF FloorIs, Moved
<1>9. Frees(r, m)
  <2>1. m.revalidatedAt <= floor /\ m.staleAt <= floor
    BY <1>1, <1>2, <1>3
  <2>2. QED
    BY <2>1, <1>4, <1>7 DEF Frees, LetGo
<1>10. QED
  BY <1>7, <1>8, <1>9 DEF r

\* What is neither a map nor completeSince leaves the shape alone.
LEMMA ShapeStays ==
    ASSUME NEW k, Shape(k), NEW l \in Knowledge,
           l.tags = k.tags, l.marker = k.marker, l.logged = k.logged, l.logOnly = k.logOnly,
           l.floor = k.floor, l.later = k.later
    PROVE  Shape(l) /\ FloorIs(l) /\ Moved(k, l)
<1>1. FloorIs(l)
  BY DEF FloorIs, Shape
<1>2. Tracked(l) = Tracked(k) /\ Logged(l) = Logged(k)
  BY DEF Tracked, Logged
<1>3. Moved(k, l)
  <2>1. Moved(k, k)
    BY MovedStays DEF Shape
  <2>2. QED
    BY <2>1 DEF Moved
<1>4. QED
  BY <1>1, <1>2, <1>3 DEF Shape

\* A tag remembered is known as `m`; any other as it was, or completeSince is past it.
Remembered(k, l, t, m) ==
    /\ Shape(l) /\ Moved(k, l)
    /\ l.logged = k.logged /\ l.logOnly = k.logOnly
    /\ l.pending = k.pending /\ l.applied = k.applied
    /\ l.marker[t] = m
    /\ \A u \in Tags \ {t} : \/ l.marker[u] = k.marker[u]
                             \/ l.marker[u] = NoMarker /\ Frees(l, k.marker[u])

\* remember keeps the tag, and lets go of one other at most.
LEMMA RememberIs ==
    ASSUME now \in Nat, NEW k, Shape(k), NEW t \in Tags, t \notin Logged(k), NEW m \in Marker
    PROVE  Remembered(k, Remember(k, t, m), t, m)
<1> DEFINE tags == Append(RemoveFirst(k.tags, t), t)
           evicted == Head(tags)
           kept == [k EXCEPT !.tags = tags, !.marker = [@ EXCEPT ![t] = m]]
           freed == RaiseFloor(kept, kept.marker[evicted])
           l == Remember(k, t, m)
<1>1. k \in Knowledge /\ FloorIs(k) /\ Distinct(k.tags) /\ Len(k.tags) <= MaxTracked
  BY DEF Shape
<1>2. /\ k.tags \in Seq(Tags) /\ k.marker \in [Tags -> Marker] /\ Len(k.tags) \in Nat
      /\ Tracked(k) = Elements(k.tags)
  BY <1>1, KnowledgeIs
<1>3. /\ tags \in Seq(Tags) /\ Distinct(tags) /\ Elements(tags) = Tracked(k) \cup {t}
      /\ Len(tags) <= Len(k.tags) + 1 /\ Len(tags) \in Nat \ {0} /\ tags[Len(tags)] = t
  <2>1. /\ tags \in Seq(Tags) /\ Distinct(tags) /\ Elements(tags) = Elements(k.tags) \cup {t}
        /\ Len(tags) <= Len(k.tags) + 1 /\ Len(tags) \in Nat \ {0}
    BY <1>1, <1>2, MovedToEnd
  <2>2. tags[Len(tags)] = t
    <3>1. RemoveFirst(k.tags, t) \in Seq(Tags)
      BY <1>1, <1>2, RemoveFirstIs
    <3>2. QED
      BY <3>1
  <2>3. QED
    BY <2>1, <2>2, <1>2
<1>4. l = IF Len(tags) <= MaxTracked THEN kept
          ELSE [freed EXCEPT !.tags   = Tail(tags),
                             !.marker = [@ EXCEPT ![evicted] = NoMarker],
                             !.unread = @ \ {evicted}]
  BY DEF Remember
<1> HIDE DEF tags, l
<1>5. /\ kept \in Knowledge /\ kept.tags = tags /\ kept.marker = [k.marker EXCEPT ![t] = m]
      /\ kept.logged = k.logged /\ kept.logOnly = k.logOnly /\ kept.pending = k.pending
      /\ kept.applied = k.applied /\ kept.floor = k.floor /\ kept.later = k.later
  BY <1>1, <1>2, <1>3 DEF Knowledge
<1>6. FloorIs(kept) /\ Moved(k, kept)
  <2>1. Moved(k, k)
    BY <1>1, MovedStays
  <2>2. QED
    BY <2>1, <1>1, <1>5 DEF FloorIs, Moved
<1> HIDE DEF kept
<1>7. ASSUME Len(tags) <= MaxTracked PROVE Remembered(k, l, t, m)
  <2>1. l = kept
    BY <1>4, <1>7
  <2>2. Tracked(kept) = Tracked(k) \cup {t} /\ Logged(kept) = Logged(k)
    BY <1>1, <1>3, <1>5, KnowledgeIs
  <2>3. Shape(kept)
    <3>1. \A u \in Tags : /\ u \in Tracked(kept) => u \notin Logged(kept)
                          /\ u \notin Tracked(kept) => kept.marker[u] = NoMarker
                          /\ u \notin Logged(kept) => kept.logOnly[u] = NoMarker
      BY <1>2, <1>5, <2>2 DEF Shape
    <3>2. Distinct(kept.logged) /\ Len(kept.logged) <= MaxTracked
      BY <1>5 DEF Shape
    <3>3. QED
      BY <1>3, <1>5, <1>6, <1>7, <3>1, <3>2 DEF Shape
  <2>4. QED
    BY <2>1, <2>3, <1>2, <1>5, <1>6 DEF Remembered
<1>8. ASSUME ~(Len(tags) <= MaxTracked) PROVE Remembered(k, l, t, m)
  <2>1. /\ Len(tags) > 1 /\ Len(tags) = MaxTracked + 1 /\ Len(tags) # 0
    BY <1>1, <1>2, <1>3, <1>8, LimitsAssumption
  <2>2. /\ evicted \in Elements(tags) /\ Tail(tags) \in Seq(Tags) /\ Distinct(Tail(tags))
        /\ Elements(Tail(tags)) = Elements(tags) \ {evicted} /\ Len(Tail(tags)) = MaxTracked
        /\ evicted # t
    <3>1. /\ evicted \in Elements(tags) /\ Tail(tags) \in Seq(Tags) /\ Distinct(Tail(tags))
          /\ Elements(Tail(tags)) = Elements(tags) \ {evicted}
          /\ Len(Tail(tags)) = Len(tags) - 1
          /\ Len(tags) > 1 => evicted # tags[Len(tags)]
      BY <1>3, <2>1, DropFirst
    <3>2. QED
      BY <3>1, <1>3, <2>1, LimitsAssumption
  <2> HIDE DEF evicted
  <2>3. evicted \in Tracked(k) /\ evicted \in Tags /\ evicted \notin Logged(k)
        /\ kept.marker[evicted] = k.marker[evicted] /\ k.marker[evicted] \in Marker
    <3>1. evicted \in Tracked(k)
      BY <1>3, <2>2
    <3>2. evicted \in Tags
      BY <3>1, <1>2 DEF Tracked
    <3>3. QED
      BY <3>1, <3>2, <1>2, <1>5, <2>2 DEF Shape
  <2>4. /\ freed \in Knowledge /\ FloorIs(freed) /\ MapsAsWere(kept, freed)
        /\ Moved(kept, freed) /\ Frees(freed, k.marker[evicted])
    BY <1>5, <1>6, <2>3, RaiseFloorIs
  <2> HIDE DEF freed
  <2>5. l = [freed EXCEPT !.tags   = Tail(tags),
                          !.marker = [@ EXCEPT ![evicted] = NoMarker],
                          !.unread = @ \ {evicted}]
    BY <1>4, <1>8
  <2>6. /\ freed.marker = [k.marker EXCEPT ![t] = m]
        /\ freed.logged = k.logged /\ freed.logOnly = k.logOnly
        /\ freed.pending = k.pending /\ freed.applied = k.applied
    BY <2>4, <1>5 DEF MapsAsWere
  <2>7. /\ l \in Knowledge /\ l.tags = Tail(tags)
        /\ l.marker = [freed.marker EXCEPT ![evicted] = NoMarker]
        /\ l.logged = k.logged /\ l.logOnly = k.logOnly /\ l.pending = k.pending
        /\ l.applied = k.applied /\ l.floor = freed.floor /\ l.later = freed.later
    BY <2>2, <2>4, <2>5, <2>6, NoMarkerIs DEF Knowledge
  <2>8. FloorIs(l) /\ Moved(k, l) /\ Frees(l, k.marker[evicted])
    <3>1. Moved(k, freed)
      BY <1>1, <1>6, <2>4, MovedOn
    <3>2. QED
      BY <3>1, <2>4, <2>7 DEF FloorIs, Moved, Frees, LetGo
  <2>9. Tracked(l) = (Tracked(k) \cup {t}) \ {evicted} /\ Logged(l) = Logged(k)
    BY <1>1, <1>3, <2>2, <2>7, KnowledgeIs
  <2>10. /\ l.marker[t] = m /\ l.marker[evicted] = NoMarker
         /\ \A u \in Tags \ {t, evicted} : l.marker[u] = k.marker[u]
    BY <1>2, <2>2, <2>3, <2>6, <2>7
  <2>11. Shape(l)
    <3>1. \A u \in Tags : /\ u \in Tracked(l) => u \notin Logged(l)
                          /\ u \notin Tracked(l) => l.marker[u] = NoMarker
                          /\ u \notin Logged(l) => l.logOnly[u] = NoMarker
      BY <2>7, <2>9, <2>10 DEF Shape
    <3>2. Distinct(l.tags) /\ Len(l.tags) <= MaxTracked
          /\ Distinct(l.logged) /\ Len(l.logged) <= MaxTracked
      BY <2>2, <2>7, LimitsAssumption DEF Shape
    <3>3. QED
      BY <2>7, <2>8, <3>1, <3>2, Zenon DEF Shape
  <2>12. QED
    BY <2>7, <2>8, <2>10, <2>11 DEF Remembered
<1>9. QED
  BY <1>7, <1>8 DEF l

\* A tag deleted from logOnly.
LEMMA UnlogIs ==
    ASSUME NEW k, Shape(k), NEW t \in Tags
    PROVE  LET l == Unlog(k, t)
           IN  /\ Shape(l) /\ Moved(k, l) /\ Logged(l) = Logged(k) \ {t}
               /\ Len(l.logged) = IF t \in Logged(k) THEN Len(k.logged) - 1 ELSE Len(k.logged)
               /\ l.tags = k.tags /\ l.marker = k.marker /\ l.unread = k.unread
               /\ l.pending = k.pending /\ l.applied = k.applied
               /\ l.floor = k.floor /\ l.later = k.later
               /\ l.logOnly = [k.logOnly EXCEPT ![t] = NoMarker]
<1> DEFINE logged == RemoveFirst(k.logged, t)
           l == Unlog(k, t)
<1>1. k \in Knowledge /\ FloorIs(k) /\ Distinct(k.logged) /\ Len(k.logged) <= MaxTracked
  BY DEF Shape
<1>2. /\ k.logged \in Seq(Tags) /\ k.logOnly \in [Tags -> Marker] /\ Len(k.logged) \in Nat
      /\ Logged(k) = Elements(k.logged)
  BY <1>1, KnowledgeIs
<1>3. /\ logged \in Seq(Tags) /\ Distinct(logged) /\ Elements(logged) = Logged(k) \ {t}
      /\ Len(logged) = IF t \in Logged(k) THEN Len(k.logged) - 1 ELSE Len(k.logged)
  BY <1>1, <1>2, RemoveFirstIs
<1>4. l = [k EXCEPT !.logged = logged, !.logOnly = [@ EXCEPT ![t] = NoMarker]]
  BY DEF Unlog
<1> HIDE DEF logged, l
<1>5. /\ l \in Knowledge /\ l.logged = logged
      /\ l.tags = k.tags /\ l.marker = k.marker /\ l.unread = k.unread
      /\ l.pending = k.pending /\ l.applied = k.applied
      /\ l.floor = k.floor /\ l.later = k.later
      /\ l.logOnly = [k.logOnly EXCEPT ![t] = NoMarker]
  <2>1. [k.logOnly EXCEPT ![t] = NoMarker] \in [Tags -> Marker]
    BY <1>2, NoMarkerIs
  <2>2. l \in Knowledge
    BY <1>1, <1>3, <1>4, <2>1 DEF Knowledge
  <2>3. QED
    BY <1>1, <1>4, <2>2 DEF Knowledge
<1>6. Logged(l) = Logged(k) \ {t} /\ Tracked(l) = Tracked(k)
  BY <1>1, <1>3, <1>5, KnowledgeIs
<1>7. FloorIs(l) /\ Moved(k, l)
  <2>1. Moved(k, k)
    BY <1>1, MovedStays
  <2>2. QED
    BY <2>1, <1>1, <1>5 DEF FloorIs, Moved
<1>8. Shape(l)
  <2>1. \A u \in Tags : /\ u \in Tracked(l) => u \notin Logged(l)
                        /\ u \notin Tracked(l) => l.marker[u] = NoMarker
                        /\ u \notin Logged(l) => l.logOnly[u] = NoMarker
    BY <1>2, <1>5, <1>6 DEF Shape
  <2>2. Len(l.logged) <= MaxTracked
    BY <1>1, <1>2, <1>3, <1>5, LimitsAssumption
  <2>3. QED
    BY <2>1, <2>2, <1>3, <1>5, <1>7 DEF Shape
<1>9. QED
  BY <1>3, <1>5, <1>6, <1>7, <1>8 DEF l

\* A marker is still there, or completeSince is past it.
Kept(l, before, after) == after = before \/ (after = NoMarker /\ Frees(l, before))

\* What is kept, or let go of, over two steps.
LEMMA KeptOn ==
    ASSUME NEW k, FloorIs(k), NEW l, FloorIs(l), Moved(k, l),
           NEW a \in Marker, NEW b, NEW c, Kept(k, a, b), Kept(l, b, c)
    PROVE  Kept(l, a, c)
BY FreesStays DEF Kept

\* set: what was in the log's word is in the marker.
LEMMA SetIs ==
    ASSUME now \in Nat, NEW k, Shape(k), NEW t \in Tags, NEW m \in Marker
    PROVE  LET l == Set(k, t, m)
           IN  /\ Shape(l) /\ Moved(k, l) /\ Logged(l) = Logged(k) \ {t}
               /\ l.logOnly = [k.logOnly EXCEPT ![t] = NoMarker]
               /\ l.pending = k.pending /\ l.applied = k.applied
               /\ l.marker[t] = MergeMarkers(m, k.logOnly[t])
               /\ \A u \in Tags \ {t} : Kept(l, k.marker[u], l.marker[u])
<1> DEFINE j == Unlog(k, t)
           l == Set(k, t, m)
<1>1. /\ Shape(j) /\ Moved(k, j) /\ Logged(j) = Logged(k) \ {t}
      /\ j.marker = k.marker /\ j.pending = k.pending /\ j.applied = k.applied
      /\ j.logOnly = [k.logOnly EXCEPT ![t] = NoMarker]
  BY UnlogIs
<1>2. k.logOnly[t] \in Marker
  BY KnowledgeIs DEF Shape
<1>3. MergeMarkers(m, k.logOnly[t]) \in Marker
  BY <1>2, MergeIs
<1>4. l = Remember(j, t, MergeMarkers(m, k.logOnly[t]))
  BY DEF Set
<1> HIDE DEF j, l
<1>5. Remembered(j, l, t, MergeMarkers(m, k.logOnly[t]))
  BY <1>1, <1>3, <1>4, RememberIs
<1>6. Shape(l) /\ Moved(j, l)
  BY <1>5 DEF Remembered
<1>7. Moved(k, l)
  BY <1>1, <1>6, MovedOn DEF Shape
<1>8. Logged(l) = Logged(j)
  BY <1>5 DEF Remembered, Logged
<1>9. QED
  BY <1>1, <1>5, <1>6, <1>7, <1>8 DEF Remembered, Kept, l

\* rememberLogged keeps the log's word, or completeSince is past what it dropped.
Relogged(k, l, t, m, oldest) ==
    /\ Shape(l) /\ Moved(k, l)
    /\ l.tags = k.tags /\ l.marker = k.marker
    /\ l.pending = k.pending /\ l.applied = k.applied
    /\ Kept(l, m, l.logOnly[t])
    /\ \A u \in Tags \ {t} : Kept(l, k.logOnly[u], l.logOnly[u])
    /\ \A u \in Logged(l) : \/ u = t /\ l.logOnly[u] = m /\ KnownBy(m, now) > oldest
                            \/ u \in Logged(k) /\ l.logOnly[u] = k.logOnly[u]

\* Whether the row is kept, not needed, or drops the oldest.
LEMMA RememberLoggedIs ==
    ASSUME now \in Nat, NEW k, Shape(k), NEW t \in Tags, t \notin Tracked(k),
           NEW m \in Marker, NEW oldest \in Int
    PROVE  Relogged(k, RememberLogged(k, t, m, oldest), t, m, oldest)
<1> DEFINE j == Unlog(k, t)
           logged == Append(j.logged, t)
           kept == [j EXCEPT !.logged = logged, !.logOnly = [@ EXCEPT ![t] = m]]
           dropped == Head(logged)
           l == RememberLogged(k, t, m, oldest)
<1>1. /\ Shape(j) /\ Moved(k, j) /\ Logged(j) = Logged(k) \ {t}
      /\ j.tags = k.tags /\ j.marker = k.marker /\ j.pending = k.pending
      /\ j.applied = k.applied /\ j.floor = k.floor /\ j.later = k.later
      /\ j.logOnly = [k.logOnly EXCEPT ![t] = NoMarker]
  BY UnlogIs
<1>2. /\ k \in Knowledge /\ FloorIs(k) /\ Tracked(k) \subseteq Tags
      /\ k.logOnly \in [Tags -> Marker] /\ k.logged \in Seq(Tags) /\ Len(k.logged) \in Nat
      /\ Len(k.logged) <= MaxTracked /\ Distinct(k.logged)
  BY KnowledgeIs DEF Shape, Elements
<1>3. KnownBy(m, now) \in Int
  BY KnownByIs
<1>4. l = CASE KnownBy(m, now) <= oldest -> RaiseFloor(j, m)
            [] KnownBy(m, now) > oldest /\ Len(logged) <= MaxTracked -> kept
            [] OTHER -> RaiseFloor(Unlog(kept, dropped), kept.logOnly[dropped])
  BY DEF RememberLogged
<1>5. /\ logged \in Seq(Tags) /\ Distinct(logged) /\ Elements(logged) = Logged(k) \cup {t}
      /\ Len(logged) <= Len(k.logged) + 1 /\ Len(logged) \in Nat \ {0} /\ logged[Len(logged)] = t
  <2>1. j.logged = RemoveFirst(k.logged, t)
    BY <1>2 DEF Unlog, Knowledge
  <2>2. /\ logged \in Seq(Tags) /\ Distinct(logged) /\ Elements(logged) = Elements(k.logged) \cup {t}
        /\ Len(logged) <= Len(k.logged) + 1 /\ Len(logged) \in Nat \ {0}
    BY <1>2, <2>1, MovedToEnd
  <2>3. j.logged \in Seq(Tags)
    BY <1>2, <2>1, RemoveFirstIs
  <2>4. logged[Len(logged)] = t
    BY <2>3
  <2>5. QED
    BY <1>2, <2>2, <2>4, KnowledgeIs
<1> HIDE DEF j, logged, l
<1>6. j \in Knowledge /\ FloorIs(j) /\ j.logOnly \in [Tags -> Marker]
  BY <1>1, KnowledgeIs DEF Shape
<1>7. ASSUME KnownBy(m, now) <= oldest
      PROVE  Relogged(k, l, t, m, oldest)
  <2>1. l = RaiseFloor(j, m)
    BY <1>3, <1>4, <1>7
  <2>2. /\ l \in Knowledge /\ FloorIs(l) /\ MapsAsWere(j, l) /\ Moved(j, l) /\ Frees(l, m)
    BY <2>1, <1>6, RaiseFloorIs
  <2>3. Moved(k, l)
    BY <1>1, <1>2, <1>6, <2>2, MovedOn
  <2>4. Shape(l) /\ Logged(l) = Logged(j)
    BY <1>1, <2>2 DEF Shape, MapsAsWere, Tracked, Logged
  <2>5. l.logOnly[t] = NoMarker /\ \A u \in Tags \ {t} : l.logOnly[u] = k.logOnly[u]
    BY <1>1, <1>2, <2>2 DEF MapsAsWere
  <2>6. \A u \in Logged(l) : u \in Logged(k) /\ l.logOnly[u] = k.logOnly[u]
    <3>1. Logged(k) \subseteq Tags
      BY <1>2 DEF Logged
    <3>2. QED
      BY <1>1, <2>4, <2>5, <3>1
  <2>7. QED
    BY <1>1, <2>2, <2>3, <2>4, <2>5, <2>6 DEF Relogged, Kept, MapsAsWere
<1>8. /\ kept \in Knowledge /\ kept.logged = logged /\ kept.tags = k.tags
      /\ kept.marker = k.marker /\ kept.pending = k.pending /\ kept.applied = k.applied
      /\ kept.floor = k.floor /\ kept.later = k.later
      /\ kept.logOnly = [k.logOnly EXCEPT ![t] = m]
  <2>1. [j.logOnly EXCEPT ![t] = m] = [k.logOnly EXCEPT ![t] = m]
    BY <1>1, <1>2
  <2>2. [k.logOnly EXCEPT ![t] = m] \in [Tags -> Marker]
    BY <1>2
  <2>3. kept = [j EXCEPT !.logged = logged, !.logOnly = [k.logOnly EXCEPT ![t] = m]]
    BY <2>1
  <2> HIDE DEF kept
  <2>4. QED
    BY <1>1, <1>5, <1>6, <2>2, <2>3 DEF Knowledge
<1> HIDE DEF kept
<1>9. /\ Logged(kept) = Logged(k) \cup {t} /\ Tracked(kept) = Tracked(k)
      /\ FloorIs(kept) /\ Moved(k, kept)
  <2>1. Moved(k, k)
    BY <1>2, MovedStays
  <2>2. FloorIs(kept) /\ Moved(k, kept)
    BY <2>1, <1>2, <1>8 DEF FloorIs, Moved
  <2>3. QED
    BY <2>2, <1>2, <1>5, <1>8, KnowledgeIs
<1>10. \A u \in Tags : /\ u \in Tracked(kept) => u \notin Logged(kept)
                       /\ u \notin Tracked(kept) => kept.marker[u] = NoMarker
                       /\ u \notin Logged(kept) => kept.logOnly[u] = NoMarker
  BY <1>2, <1>8, <1>9 DEF Shape
<1>11. ASSUME KnownBy(m, now) > oldest, Len(logged) <= MaxTracked
       PROVE  Relogged(k, l, t, m, oldest)
  <2>1. l = kept
    BY <1>3, <1>4, <1>11
  <2>2. Distinct(k.tags) /\ Len(k.tags) <= MaxTracked
    BY DEF Shape
  <2>3. Shape(kept)
    BY <2>2, <1>5, <1>8, <1>9, <1>10, <1>11 DEF Shape
  <2>4. kept.logOnly[t] = m /\ \A u \in Tags \ {t} : kept.logOnly[u] = k.logOnly[u]
    BY <1>2, <1>8
  <2>5. Logged(k) \subseteq Tags
    BY <1>2 DEF Logged
  <2>6. QED
    BY <2>1, <2>3, <2>4, <2>5, <1>8, <1>9, <1>11 DEF Relogged, Kept
<1>12. ASSUME KnownBy(m, now) > oldest, ~(Len(logged) <= MaxTracked)
       PROVE  Relogged(k, l, t, m, oldest)
  <2> DEFINE i == Unlog(kept, dropped)
  <2>1. l = RaiseFloor(i, kept.logOnly[dropped])
    BY <1>3, <1>4, <1>12
  <2>2. Len(logged) = MaxTracked + 1 /\ Len(logged) > 1 /\ Len(logged) # 0
    BY <1>2, <1>5, <1>12, LimitsAssumption
  <2>3. dropped \in Logged(k) \cup {t} /\ dropped # t
    BY <1>5, <2>2, DropFirst
  <2> HIDE DEF dropped
  <2>4. dropped \in Logged(k) /\ dropped \in Tags /\ kept.logOnly[dropped] = k.logOnly[dropped]
        /\ k.logOnly[dropped] \in Marker
    <3>1. dropped \in Logged(k) /\ dropped \in Tags
      BY <1>2, <2>3 DEF Logged
    <3>2. QED
      BY <3>1, <1>2, <1>8, <2>3
  <2> DEFINE rest == RemoveFirst(logged, dropped)
  <2>5. /\ rest \in Seq(Tags) /\ Distinct(rest)
        /\ Elements(rest) = (Logged(k) \cup {t}) \ {dropped} /\ Len(rest) = MaxTracked
    <3>1. /\ rest \in Seq(Tags) /\ Distinct(rest) /\ Elements(rest) = Elements(logged) \ {dropped}
          /\ Len(rest) = IF dropped \in Elements(logged) THEN Len(logged) - 1 ELSE Len(logged)
      BY <1>5, <2>4, RemoveFirstIs
    <3> HIDE DEF rest
    <3>2. QED
      BY <3>1, <1>5, <2>2, <2>4, LimitsAssumption
  <2>6. i = [kept EXCEPT !.logged = rest, !.logOnly = [@ EXCEPT ![dropped] = NoMarker]]
    BY <1>8 DEF Unlog, Knowledge
  <2> HIDE DEF i, rest
  <2>7. /\ i \in Knowledge /\ i.logged = rest /\ i.tags = k.tags
        /\ i.marker = k.marker /\ i.pending = k.pending /\ i.applied = k.applied
        /\ i.floor = k.floor /\ i.later = k.later
        /\ i.logOnly = [kept.logOnly EXCEPT ![dropped] = NoMarker]
    <3>1. [kept.logOnly EXCEPT ![dropped] = NoMarker] \in [Tags -> Marker]
      BY <1>2, <1>8, NoMarkerIs
    <3>2. QED
      BY <3>1, <1>8, <2>5, <2>6 DEF Knowledge
  <2>8. FloorIs(i) /\ Moved(k, i)
    BY <1>8, <1>9, <2>7 DEF FloorIs, Moved
  <2>9. Logged(i) = (Logged(k) \cup {t}) \ {dropped} /\ Tracked(i) = Tracked(k)
    BY <1>2, <2>5, <2>7, KnowledgeIs
  <2>10. /\ i.logOnly[t] = m /\ i.logOnly[dropped] = NoMarker
         /\ \A u \in Tags \ {t, dropped} : i.logOnly[u] = k.logOnly[u]
    BY <1>2, <1>8, <2>3, <2>4, <2>7
  <2>11. Shape(i)
    <3>1. \A u \in Tags : /\ u \in Tracked(i) => u \notin Logged(i)
                          /\ u \notin Tracked(i) => i.marker[u] = NoMarker
                          /\ u \notin Logged(i) => i.logOnly[u] = NoMarker
      BY <2>7, <2>9, <2>10 DEF Shape
    <3>2. /\ Distinct(i.tags) /\ Len(i.tags) <= MaxTracked
          /\ Distinct(i.logged) /\ Len(i.logged) <= MaxTracked
      BY <2>5, <2>7, LimitsAssumption DEF Shape
    <3>3. QED
      BY <2>7, <2>8, <3>1, <3>2 DEF Shape
  <2>12. /\ l \in Knowledge /\ FloorIs(l) /\ MapsAsWere(i, l) /\ Moved(i, l)
         /\ Frees(l, k.logOnly[dropped])
    BY <2>1, <2>4, <2>7, <2>8, RaiseFloorIs
  <2>13. Moved(k, l)
    BY <1>2, <2>8, <2>12, MovedOn
  <2>14. Shape(l) /\ Logged(l) = Logged(i)
    BY <2>11, <2>12 DEF Shape, MapsAsWere, Tracked, Logged
  <2>15. Logged(k) \subseteq Tags
    BY <1>2 DEF Logged
  <2>16. \A u \in Logged(l) : \/ u = t /\ l.logOnly[u] = m /\ KnownBy(m, now) > oldest
                              \/ u \in Logged(k) /\ l.logOnly[u] = k.logOnly[u]
    BY <1>12, <2>9, <2>10, <2>12, <2>14, <2>15 DEF MapsAsWere
  <2>17. QED
    BY <2>7, <2>10, <2>12, <2>13, <2>14, <2>16 DEF Relogged, Kept, MapsAsWere
<1>13. QED
  BY <1>3, <1>7, <1>11, <1>12 DEF l

\* pruneLogged looks at one tag: the log's word on it stays, or completeSince is past it.
Pruned(k, l) ==
    /\ Shape(l) /\ Moved(k, l)
    /\ l.tags = k.tags /\ l.marker = k.marker
    /\ l.pending = k.pending /\ l.applied = k.applied
    /\ \A u \in Tags : Kept(l, k.logOnly[u], l.logOnly[u])
    /\ \A u \in Logged(l) : u \in Logged(k) /\ l.logOnly[u] = k.logOnly[u]

\* One tag of pruneLogged.
LEMMA PruneOneIs ==
    ASSUME now \in Nat, NEW k, Shape(k), NEW t \in Tags, NEW oldest \in Int
    PROVE  LET l == PruneOne(k, t, oldest)
           IN  Pruned(k, l) /\ (t \in Logged(l) => KnownBy(l.logOnly[t], now) > oldest)
<1> DEFINE j == Unlog(k, t)
           l == PruneOne(k, t, oldest)
<1>1. /\ k \in Knowledge /\ FloorIs(k) /\ k.logOnly \in [Tags -> Marker] /\ Logged(k) \subseteq Tags
  BY KnowledgeIs DEF Shape, Logged
<1>2. KnownBy(k.logOnly[t], now) \in Int
  BY <1>1, KnownByIs
<1>3. CASE KnownBy(k.logOnly[t], now) <= oldest
  <2>1. /\ Shape(j) /\ Moved(k, j) /\ Logged(j) = Logged(k) \ {t}
        /\ j.tags = k.tags /\ j.marker = k.marker
        /\ j.pending = k.pending /\ j.applied = k.applied
        /\ j.logOnly = [k.logOnly EXCEPT ![t] = NoMarker]
    BY UnlogIs
  <2>2. l = RaiseFloor(j, k.logOnly[t])
    BY <1>3 DEF PruneOne
  <2> HIDE DEF j, l
  <2>3. /\ l \in Knowledge /\ FloorIs(l) /\ MapsAsWere(j, l) /\ Moved(j, l)
        /\ Frees(l, k.logOnly[t])
    BY <1>1, <2>1, <2>2, RaiseFloorIs DEF Shape
  <2>4. Moved(k, l)
    BY <1>1, <2>1, <2>3, MovedOn DEF Shape
  <2>5. Shape(l) /\ Logged(l) = Logged(j)
    BY <2>1, <2>3 DEF Shape, MapsAsWere, Tracked, Logged
  <2>6. l.logOnly[t] = NoMarker /\ \A u \in Tags \ {t} : l.logOnly[u] = k.logOnly[u]
    BY <1>1, <2>1, <2>3 DEF MapsAsWere
  <2>7. \A u \in Logged(l) : u # t /\ u \in Logged(k) /\ l.logOnly[u] = k.logOnly[u]
    BY <1>1, <2>1, <2>5, <2>6
  <2>8. QED
    BY <2>1, <2>3, <2>4, <2>5, <2>6, <2>7 DEF Pruned, Kept, MapsAsWere, l
<1>4. CASE ~(KnownBy(k.logOnly[t], now) <= oldest)
  <2>1. l = k
    BY <1>4 DEF PruneOne
  <2>2. Moved(k, k)
    BY <1>1, MovedStays
  <2>3. QED
    BY <1>2, <1>4, <2>1, <2>2 DEF Pruned, Kept
<1>5. QED
  BY <1>3, <1>4

\* And one after the other.
LEMMA PrunedOn ==
    ASSUME NEW k, Shape(k), NEW l, Pruned(k, l), NEW m, Pruned(l, m)
    PROVE  Pruned(k, m)
<1>1. FloorIs(k) /\ FloorIs(l) /\ FloorIs(m) /\ Moved(k, m)
  BY MovedOn DEF Shape, Pruned
<1>2. ASSUME NEW u \in Tags PROVE Kept(m, k.logOnly[u], m.logOnly[u])
  <2>1. k.logOnly[u] \in Marker
    BY KnowledgeIs DEF Shape
  <2>2. Kept(l, k.logOnly[u], l.logOnly[u]) /\ Kept(m, l.logOnly[u], m.logOnly[u]) /\ Moved(l, m)
    BY DEF Pruned
  <2>3. QED
    BY <1>1, <2>1, <2>2, KeptOn
<1>3. QED
  BY <1>1, <1>2 DEF Pruned

\* What pruneLogged leaves is not known by `oldest`.
LEMMA PruneLoggedIs ==
    ASSUME now \in Nat, NEW k, Shape(k), NEW oldest \in Int
    PROVE  LET l == PruneLogged(k, oldest)
           IN  Pruned(k, l) /\ \A u \in Logged(l) : KnownBy(l.logOnly[u], now) > oldest
<1> DEFINE N == Len(k.logged)
           K == {x \in Knowledge : Shape(x)}
           step == [n \in 1 .. N |-> [x \in K |-> PruneOne(x, k.logged[n], oldest)]]
<1>1. /\ k \in K /\ N \in Nat /\ k.logged \in Seq(Tags)
      /\ \A n \in 1 .. N : k.logged[n] \in Tags
      /\ \A u \in Logged(k) : \E n \in 1 .. N : u = k.logged[n]
  BY KnowledgeIs DEF Shape, Logged
<1>2. ASSUME NEW n \in 1 .. N, NEW x \in K
      PROVE  /\ PruneOne(x, k.logged[n], oldest) \in K
             /\ Pruned(x, PruneOne(x, k.logged[n], oldest))
             /\ LET l == PruneOne(x, k.logged[n], oldest)
                IN  k.logged[n] \in Logged(l) => KnownBy(l.logOnly[k.logged[n]], now) > oldest
  <2>1. Shape(x)
    OBVIOUS
  <2> DEFINE l == PruneOne(x, k.logged[n], oldest)
  <2>2. Pruned(x, l)
        /\ (k.logged[n] \in Logged(l) => KnownBy(l.logOnly[k.logged[n]], now) > oldest)
    BY <1>1, <2>1, PruneOneIs
  <2>3. l \in K
    BY <2>2 DEF Pruned, Shape
  <2>4. QED
    BY <2>2, <2>3
<1> HIDE DEF K, N
<1>3. step \in Steps(N, K)
  BY <1>2 DEF Steps
<1>4. PICK f \in [0 .. N -> K] : f[0] = k /\ \A n \in 1 .. N : f[n] = step[n][f[n - 1]]
  <2> HIDE DEF step
  <2>1. PICK f \in [0 .. N -> K] : Follows(f, N, k, step)
    BY <1>1, <1>3, Recursion
  <2>2. QED
    BY <2>1 DEF Follows
<1>5. \A n \in 1 .. N : f[n - 1] \in K /\ f[n] = PruneOne(f[n - 1], k.logged[n], oldest)
  <2> SUFFICES ASSUME NEW n \in 1 .. N
               PROVE  f[n - 1] \in K /\ f[n] = PruneOne(f[n - 1], k.logged[n], oldest)
    OBVIOUS
  <2>1. n \in 0 .. N /\ n # 0 /\ n - 1 \in 0 .. N
    BY <1>1
  <2>2. f[n] = step[n][f[n - 1]] /\ f[n - 1] \in K
    BY <1>4, <2>1
  <2>3. QED
    BY <2>2
<1> DEFINE P(h) == h = [n \in 0 .. Len(k.logged) |->
                           IF n = 0 THEN k ELSE PruneOne(h[n - 1], k.logged[n], oldest)]
<1>6. P(f)
  <2>1. ASSUME NEW n \in 0 .. N PROVE f[n] = IF n = 0 THEN k ELSE PruneOne(f[n - 1], k.logged[n], oldest)
    <3>1. n = 0 \/ n \in 1 .. N
      BY <1>1
    <3>2. QED
      BY <3>1, <1>4, <1>5
  <2> HIDE DEF step
  <2>2. f = [n \in 0 .. N |-> f[n]]
    BY <1>4
  <2>3. f = [n \in 0 .. N |-> IF n = 0 THEN k ELSE PruneOne(f[n - 1], k.logged[n], oldest)]
    BY <2>1, <2>2, Zenon
  <2>4. QED
    BY <2>3, Zenon DEF N
<1>7. PICK h : P(h) /\ PruneLogged(k, oldest) = h[N]
  <2>1. PruneLogged(k, oldest) = (CHOOSE h : P(h))[N]
    BY Zenon DEF PruneLogged, N
  <2> HIDE DEF P
  <2>2. P(CHOOSE h : P(h))
    BY <1>6
  <2>3. QED
    BY <2>1, <2>2
<1>8. h[0] = k /\ \A n \in 1 .. N : n - 1 \in 0 .. N /\ h[n] = PruneOne(h[n - 1], k.logged[n], oldest)
  <2>1. ASSUME NEW n \in 0 .. N PROVE h[n] = IF n = 0 THEN k ELSE PruneOne(h[n - 1], k.logged[n], oldest)
    <3>1. n \in 0 .. Len(k.logged)
      BY DEF N
    <3>2. QED
      BY <3>1, <1>7
  <2>2. 0 \in 0 .. N /\ \A n \in 1 .. N : n \in 0 .. N /\ n # 0 /\ n - 1 \in 0 .. N
    BY <1>1
  <2> HIDE DEF P
  <2>3. QED
    BY <2>1, <2>2
<1> HIDE DEF P, step
<1> DEFINE Done(n, x) ==
               /\ Pruned(k, x)
               /\ \A i \in 1 .. n :
                     k.logged[i] \in Logged(x) => KnownBy(x.logOnly[k.logged[i]], now) > oldest
           S == {n \in 0 .. N : h[n] \in K /\ Done(n, h[n])}
<1>9. 0 \in S
  <2>1. Pruned(k, k)
    BY MovedStays DEF Pruned, Kept, Shape
  <2>2. QED
    BY <2>1, <1>1, <1>8
<1>10. ASSUME NEW n \in 1 .. N, n - 1 \in S PROVE n \in S
  <2> DEFINE x == h[n - 1]
             y == h[n]
  <2>1. x \in K /\ Done(n - 1, x) /\ n \in 0 .. N /\ n \in Nat
    BY <1>1, <1>10
  <2>2. /\ Pruned(x, y) /\ y \in K
        /\ k.logged[n] \in Logged(y) => KnownBy(y.logOnly[k.logged[n]], now) > oldest
    BY <1>2, <1>8, <2>1
  <2> HIDE DEF x, y
  <2>3. Pruned(k, y)
    BY <2>1, <2>2, PrunedOn
  <2>4. ASSUME NEW i \in 1 .. n, k.logged[i] \in Logged(y)
        PROVE  KnownBy(y.logOnly[k.logged[i]], now) > oldest
    <3>1. CASE i = n
      BY <3>1, <2>2, <2>4
    <3>2. CASE i # n
      <4>1. i \in 1 .. n - 1
        BY <3>2, <2>1
      <4>2. k.logged[i] \in Logged(x) /\ y.logOnly[k.logged[i]] = x.logOnly[k.logged[i]]
        BY <2>2, <2>4 DEF Pruned
      <4>3. QED
        BY <4>1, <4>2, <2>1
    <3>3. QED
      BY <3>1, <3>2
  <2>5. Done(n, y)
    BY <2>3, <2>4
  <2>6. QED
    BY <2>1, <2>2, <2>5 DEF y
<1>11. N \in S
  <2> HIDE DEF S
  <2>1. \A n \in 0 .. N : n \in S
    BY <1>1, <1>9, <1>10, StepByStep
  <2>2. QED
    BY <2>1, <1>1
<1>12. Done(N, h[N])
  BY <1>11
<1>13. ASSUME NEW u \in Logged(h[N]) PROVE KnownBy(h[N].logOnly[u], now) > oldest
  <2>1. u \in Logged(k)
    BY <1>12 DEF Pruned
  <2>2. PICK n \in 1 .. N : u = k.logged[n]
    BY <1>1, <2>1
  <2>3. QED
    BY <1>12, <2>2
<1>14. QED
  <2>1. Pruned(k, h[N])
    BY <1>12
  <2>2. QED
    BY <1>7, <1>13, <2>1

\* RaiseFloors moves completeSince past each of the markers, and nothing else.
LEMMA RaiseFloorsIs ==
    ASSUME now \in Nat, NEW k \in Knowledge, FloorIs(k), NEW tags \in Seq(Tags),
           NEW markers \in [Tags -> Marker]
    PROVE  LET l == RaiseFloors(k, tags, markers)
           IN  /\ l \in Knowledge /\ FloorIs(l) /\ MapsAsWere(k, l) /\ Moved(k, l)
               /\ \A u \in Elements(tags) : Frees(l, markers[u])
<1> DEFINE N == Len(tags)
           K == {x \in Knowledge : FloorIs(x)}
           step == [n \in 1 .. N |-> [x \in K |-> RaiseFloor(x, markers[tags[n]])]]
<1>1. /\ k \in K /\ N \in Nat
      /\ \A n \in 1 .. N : tags[n] \in Tags /\ markers[tags[n]] \in Marker
      /\ \A u \in Elements(tags) : \E n \in 1 .. N : u = tags[n]
  BY DEF Elements
<1>2. ASSUME NEW n \in 1 .. N, NEW x \in K
      PROVE  LET y == RaiseFloor(x, markers[tags[n]])
             IN  /\ y \in K /\ MapsAsWere(x, y) /\ Moved(x, y) /\ Frees(y, markers[tags[n]])
  BY <1>1, RaiseFloorIs
<1> HIDE DEF K, N
<1>3. step \in Steps(N, K)
  BY <1>2 DEF Steps
<1>4. PICK f \in [0 .. N -> K] : f[0] = k /\ \A n \in 1 .. N : f[n] = step[n][f[n - 1]]
  <2> HIDE DEF step
  <2>1. PICK f \in [0 .. N -> K] : Follows(f, N, k, step)
    BY <1>1, <1>3, Recursion
  <2>2. QED
    BY <2>1 DEF Follows
<1>5. \A n \in 1 .. N : /\ n - 1 \in 0 .. N /\ n \in 0 .. N /\ f[n - 1] \in K /\ f[n] \in K
                        /\ f[n] = RaiseFloor(f[n - 1], markers[tags[n]])
  <2> SUFFICES ASSUME NEW n \in 1 .. N
               PROVE  /\ n - 1 \in 0 .. N /\ n \in 0 .. N /\ f[n - 1] \in K /\ f[n] \in K
                      /\ f[n] = RaiseFloor(f[n - 1], markers[tags[n]])
    OBVIOUS
  <2>1. n \in 0 .. N /\ n # 0 /\ n - 1 \in 0 .. N
    BY <1>1
  <2>2. f[n] = step[n][f[n - 1]] /\ f[n - 1] \in K /\ f[n] \in K
    BY <1>4, <2>1
  <2>3. QED
    BY <2>1, <2>2
<1> DEFINE P(h) == h = [n \in 0 .. Len(tags) |->
                           IF n = 0 THEN k ELSE RaiseFloor(h[n - 1], markers[tags[n]])]
<1>6. P(f)
  <2>1. ASSUME NEW n \in 0 .. N PROVE f[n] = IF n = 0 THEN k ELSE RaiseFloor(f[n - 1], markers[tags[n]])
    <3>1. n = 0 \/ n \in 1 .. N
      BY <1>1
    <3>2. QED
      BY <3>1, <1>4, <1>5
  <2> HIDE DEF step
  <2>2. f = [n \in 0 .. N |-> f[n]]
    BY <1>4
  <2>3. f = [n \in 0 .. N |-> IF n = 0 THEN k ELSE RaiseFloor(f[n - 1], markers[tags[n]])]
    BY <2>1, <2>2, Zenon
  <2>4. QED
    BY <2>3, Zenon DEF N
<1>7. PICK h : P(h) /\ RaiseFloors(k, tags, markers) = h[N]
  <2>1. RaiseFloors(k, tags, markers) = (CHOOSE h : P(h))[N]
    BY Zenon DEF RaiseFloors, N
  <2> HIDE DEF P
  <2>2. P(CHOOSE h : P(h))
    BY <1>6
  <2>3. QED
    BY <2>1, <2>2
<1>8. h[0] = k /\ \A n \in 1 .. N : n - 1 \in 0 .. N /\ h[n] = RaiseFloor(h[n - 1], markers[tags[n]])
  <2>1. ASSUME NEW n \in 0 .. N PROVE h[n] = IF n = 0 THEN k ELSE RaiseFloor(h[n - 1], markers[tags[n]])
    <3>1. n \in 0 .. Len(tags)
      BY DEF N
    <3>2. QED
      BY <3>1, <1>7
  <2>2. 0 \in 0 .. N /\ \A n \in 1 .. N : n \in 0 .. N /\ n # 0 /\ n - 1 \in 0 .. N
    BY <1>1
  <2> HIDE DEF P
  <2>3. QED
    BY <2>1, <2>2
<1> HIDE DEF P, step
<1> DEFINE Done(n, x) ==
               MapsAsWere(k, x) /\ Moved(k, x) /\ \A i \in 1 .. n : Frees(x, markers[tags[i]])
           S == {n \in 0 .. N : h[n] \in K /\ Done(n, h[n])}
<1>9. 0 \in S
  <2>1. MapsAsWere(k, k) /\ Moved(k, k)
    BY MovedStays DEF MapsAsWere
  <2>2. QED
    BY <2>1, <1>1, <1>8
<1>10. ASSUME NEW n \in 1 .. N, n - 1 \in S PROVE n \in S
  <2> DEFINE x == h[n - 1]
             y == h[n]
  <2>1. /\ x \in K /\ y \in K /\ Done(n - 1, x) /\ n \in 0 .. N /\ n \in Nat
        /\ FloorIs(x) /\ FloorIs(y)
    BY <1>1, <1>2, <1>8, <1>10 DEF K
  <2>2. MapsAsWere(x, y) /\ Moved(x, y) /\ Frees(y, markers[tags[n]])
    BY <1>2, <1>8, <2>1
  <2> HIDE DEF x, y
  <2>3. MapsAsWere(k, y) /\ Moved(k, y)
    <3>1. MapsAsWere(k, y)
      BY <2>1, <2>2 DEF MapsAsWere
    <3>2. QED
      BY <3>1, <2>1, <2>2, MovedOn
  <2>4. ASSUME NEW i \in 1 .. n PROVE Frees(y, markers[tags[i]])
    <3>1. CASE i = n
      BY <3>1, <2>2
    <3>2. CASE i # n
      <4>1. i \in 1 .. n - 1
        BY <3>2, <2>1
      <4>2. Frees(x, markers[tags[i]]) /\ markers[tags[i]] \in Marker
        BY <4>1, <2>1, <1>1
      <4>3. QED
        BY <4>2, <2>1, <2>2, FreesStays
    <3>3. QED
      BY <3>1, <3>2
  <2>5. Done(n, y)
    BY <2>3, <2>4
  <2>6. QED
    BY <2>1, <2>5 DEF y
<1>11. N \in S
  <2> HIDE DEF S
  <2>1. \A n \in 0 .. N : n \in S
    BY <1>1, <1>9, <1>10, StepByStep
  <2>2. QED
    BY <2>1, <1>1
<1>12. Done(N, h[N])
  BY <1>11
<1>13. ASSUME NEW u \in Elements(tags) PROVE Frees(h[N], markers[u])
  <2>1. PICK n \in 1 .. N : u = tags[n]
    BY <1>1
  <2>2. QED
    BY <1>12, <2>1
<1>14. h[N] \in Knowledge /\ FloorIs(h[N])
  <2>1. h[N] \in K
    BY <1>11
  <2>2. QED
    BY <2>1 DEF K
<1>15. QED
  BY <1>7, <1>12, <1>13, <1>14
--------------------------------------------------------------------------------
(* What an instance holds of a tag, and what of what it was told it answers for. *)

\* What is known of `t`, wherever it is.
Held(k, t) == MergeMarkers(k.marker[t], PendingRows(k, t))

\* All profiles a tag is revalidated with say when they expire, or none does.
Uniform(t) ==
    LET profiles == UNION {{d \in Profiles[r] : d.profile} : r \in {r \in Revalidations : TagOf[r] = t}}
    IN  (\A d \in profiles : d.expire # Absent) \/ (\A d \in profiles : d.expire = Absent)

\* What a revalidation wrote, by where the writes stand.
Written(ws, r) == MarkerFor(ws[r].at, ws[r].durations)

\* The stamps of a marker are of one revalidation, when they are of any.
Paired(ws, t, m) ==
    \/ m.staleAt = Absent /\ m.expiredAt = Absent
    \/ \E r \in Revalidations :
          /\ TagOf[r] = t /\ ws[r].row # "unsent" /\ ws[r].durations.profile
          /\ m.staleAt = ws[r].at /\ m.expiredAt = Written(ws, r).expiredAt

\* A marker of `t` as revalidations up to `n` made it.
Fits(ws, n, t, m) ==
    /\ m \in Marker /\ m.revalidatedAt <= n /\ m.staleAt <= n
    /\ Uniform(t) => Paired(ws, t, m)

\* What `m` says of `t` is held, or completeSince is past it.
Stands(k, t, m) ==
    /\ m.revalidatedAt <= Held(k, t).revalidatedAt \/ m.revalidatedAt <= k.floor
    /\ \/ m.staleAt <= Held(k, t).staleAt
       \/ m.staleAt <= k.floor /\ (Uniform(t) => LetGo(k, m.expiredAt))

\* And nothing later is held than was told.
Vouches(k, t, m) == Stands(k, t, m) /\ Held(k, t).staleAt <= m.staleAt

\* Revalidations of a tag are stamped apart, and only those run are.
WritesOK(ws, n) ==
    /\ ws \in [Revalidations -> Write]
    /\ \A r \in Revalidations :
          \/ /\ ws[r].row = "unsent" /\ ws[r].at = Absent /\ ws[r].logAt = Absent
          \/ /\ ws[r].row # "unsent" /\ ws[r].at \in 0 .. n
             /\ ws[r].durations \in Profiles[r]
    /\ \A r \in Revalidations : Fits(ws, n, TagOf[r], ws[r].left)
    /\ \A r, s \in Revalidations :
          TagOf[r] = TagOf[s] /\ ws[r].row # "unsent" /\ ws[r].at = ws[s].at => r = s

\* What the table holds, and a read may return, is made of revalidations run.
TableOK(ws, n, rows, old) ==
    /\ rows \in [Tags -> Marker] /\ old \in [Tags -> SUBSET Marker]
    /\ \A t \in Tags : Fits(ws, n, t, rows[t]) /\ \A m \in old[t] : Fits(ws, n, t, m)

\* A row is only taken for applied when the instance was told what it says.
AppliedTold(ws, k, all) ==
    \A r \in k.applied : /\ ws[r].row # "unsent"
                         /\ Covers(all[TagOf[r]], Written(ws, r))

\* Rows wait only for a read in flight.
PendingRead(k, reads) == \A t \in Tags : k.pending[t] # NoMarker => reads[t] # "none"

\* No row in logOnly is known by `oldest`.
NotKnownBy(k, n, oldest) == \A t \in Logged(k) : KnownBy(k.logOnly[t], n) > oldest

\* What a revalidation that was run wrote.
LEMMA WrittenType ==
    ASSUME NEW n \in Nat, NEW ws, WritesOK(ws, n), NEW r \in Revalidations, ws[r].row # "unsent"
    PROVE  /\ ws[r].at \in Nat /\ ws[r].at <= n /\ ws[r].durations \in Profiles[r]
           /\ ws[r].durations \in Durations /\ Written(ws, r) \in Marker
           /\ Fits(ws, n, TagOf[r], Written(ws, r)) /\ TagOf[r] \in Tags
<1>1. /\ ws[r].at \in Nat /\ ws[r].at <= n /\ ws[r].durations \in Profiles[r]
      /\ ws[r].durations \in Durations /\ TagOf[r] \in Tags
  BY ProfilesAssumption, TagOfAssumption DEF WritesOK
<1>2. Written(ws, r) \in Marker
  BY <1>1, MarkerForType DEF Written
<1>3. CASE ws[r].durations.profile
  <2>1. Written(ws, r).staleAt = ws[r].at /\ Written(ws, r).revalidatedAt = -1
    BY <1>3 DEF Written, MarkerFor
  <2>2. Paired(ws, TagOf[r], Written(ws, r))
    BY <1>3, <2>1 DEF Paired
  <2>3. QED
    BY <1>1, <1>2, <2>1, <2>2 DEF Fits
<1>4. CASE ~ws[r].durations.profile
  <2>1. /\ Written(ws, r).staleAt = -1 /\ Written(ws, r).expiredAt = -1
        /\ Written(ws, r).revalidatedAt = ws[r].at
    BY <1>4 DEF Written, MarkerFor, NoMarker
  <2>2. QED
    BY <1>1, <1>2, <2>1 DEF Fits, Paired
<1>5. QED
  BY <1>3, <1>4

\* No revalidation is needed to make the empty marker.
LEMMA NoMarkerFits ==
    ASSUME NEW n \in Nat, NEW ws, NEW t \in Tags
    PROVE  Fits(ws, n, t, NoMarker)
BY NoMarkerIs DEF Fits, Paired

\* A pair of stamps is told by its first.
LEMMA PairIs ==
    ASSUME NEW n \in Nat, NEW ws, WritesOK(ws, n), NEW t \in Tags, Uniform(t),
           NEW a, Fits(ws, n, t, a), NEW b, Fits(ws, n, t, b), a.staleAt = b.staleAt
    PROVE  a.expiredAt = b.expiredAt
<1>1. Paired(ws, t, a) /\ Paired(ws, t, b)
  BY DEF Fits
<1>2. \A r \in Revalidations : ws[r].row # "unsent" => ws[r].at \in Nat
  BY WrittenType
<1>3. \A r, s \in Revalidations :
         TagOf[r] = TagOf[s] /\ ws[r].row # "unsent" /\ ws[r].at = ws[s].at => r = s
  BY DEF WritesOK
<1>4. QED
  BY <1>1, <1>2, <1>3 DEF Paired

\* Of the tag's profiles, all set the second stamp or none does.
LEMMA AllExpire ==
    ASSUME NEW n \in Nat, NEW ws, WritesOK(ws, n), NEW t \in Tags, Uniform(t),
           NEW a, Fits(ws, n, t, a), NEW b, Fits(ws, n, t, b),
           a.staleAt # -1, a.expiredAt = -1
    PROVE  b.expiredAt = -1
<1> DEFINE Of == {r \in Revalidations : TagOf[r] = t}
           profiles == UNION {{d \in Profiles[r] : d.profile} : r \in Of}
<1>1. ASSUME NEW m, Fits(ws, n, t, m), m.staleAt # -1
      PROVE  \E d \in profiles : (m.expiredAt = -1) <=> (d.expire = -1)
  <2>1. PICK r \in Revalidations :
            /\ TagOf[r] = t /\ ws[r].row # "unsent" /\ ws[r].durations.profile
            /\ m.staleAt = ws[r].at /\ m.expiredAt = Written(ws, r).expiredAt
    BY <1>1 DEF Fits, Paired
  <2>2. /\ ws[r].at \in Nat /\ ws[r].durations \in Profiles[r] /\ ws[r].durations \in Durations
    BY <2>1, WrittenType
  <2>3. ws[r].durations \in profiles
    BY <2>1, <2>2
  <2>4. ws[r].durations.expire \in Nat \/ ws[r].durations.expire = -1
    BY <2>2 DEF Durations
  <2>5. (m.expiredAt = -1) <=> (ws[r].durations.expire = -1)
    BY <2>1, <2>2, <2>4 DEF Written, MarkerFor
  <2> HIDE DEF profiles
  <2>6. QED
    BY <2>3, <2>5
<1>2. (\A d \in profiles : d.expire # -1) \/ (\A d \in profiles : d.expire = -1)
  BY DEF Uniform
<1> HIDE DEF profiles
<1>3. \A d \in profiles : d.expire = -1
  BY <1>1, <1>2
<1>4. CASE b.staleAt = -1
  BY <1>4 DEF Fits, Paired, WritesOK
<1>5. CASE b.staleAt # -1
  BY <1>1, <1>3, <1>5
<1>6. QED
  BY <1>4, <1>5

\* Two markers of a tag make one, by either merge.
LEMMA FitsMerge ==
    ASSUME NEW n \in Nat, NEW ws, WritesOK(ws, n), NEW t \in Tags,
           NEW a, Fits(ws, n, t, a), NEW b, Fits(ws, n, t, b)
    PROVE  Fits(ws, n, t, MergeMarkers(a, b)) /\ Fits(ws, n, t, ApplyMarker(a, b))
<1>1. a \in Marker /\ b \in Marker
  BY DEF Fits
<1>2. /\ a.revalidatedAt \in Stamp /\ a.staleAt \in Stamp /\ a.expiredAt \in Stamp
      /\ b.revalidatedAt \in Stamp /\ b.staleAt \in Stamp /\ b.expiredAt \in Stamp
  BY <1>1 DEF Marker
<1> DEFINE m == MergeMarkers(a, b)
           p == ApplyMarker(a, b)
<1>3. /\ m \in Marker /\ m.revalidatedAt = Later(a.revalidatedAt, b.revalidatedAt)
      /\ m.staleAt = Later(a.staleAt, b.staleAt)
  BY <1>1, MergeIs
<1>4. /\ p \in Marker
      /\ p.revalidatedAt = IF b.revalidatedAt = -1 THEN a.revalidatedAt ELSE b.revalidatedAt
      /\ p.staleAt = IF b.staleAt = -1 THEN a.staleAt ELSE b.staleAt
      /\ p.expiredAt = IF b.expiredAt = -1 THEN a.expiredAt ELSE b.expiredAt
  BY <1>1, ApplyType DEF ApplyMarker, Overwrite
<1>5. /\ a.staleAt > b.staleAt =>
            m.expiredAt = IF a.expiredAt = -1 THEN b.expiredAt ELSE a.expiredAt
      /\ ~(a.staleAt > b.staleAt) =>
            m.expiredAt = IF b.expiredAt = -1 THEN a.expiredAt ELSE b.expiredAt
  BY <1>1 DEF MergeMarkers, ApplyMarker, Overwrite, Marker
<1> HIDE DEF m, p
<1>6. m.revalidatedAt <= n /\ m.staleAt <= n /\ p.revalidatedAt <= n /\ p.staleAt <= n
  BY <1>2, <1>3, <1>4 DEF Fits, Later
<1>7. ASSUME Uniform(t) PROVE Paired(ws, t, m) /\ Paired(ws, t, p)
  <2>1. Paired(ws, t, a) /\ Paired(ws, t, b)
    BY <1>7 DEF Fits
  <2>2. (a.staleAt # -1 /\ a.expiredAt = -1) => b.expiredAt = -1
    BY <1>7, AllExpire
  <2>3. (b.staleAt # -1 /\ b.expiredAt = -1) => a.expiredAt = -1
    BY <1>7, AllExpire
  <2>4. /\ a.staleAt = -1 => a.expiredAt = -1
        /\ b.staleAt = -1 => b.expiredAt = -1
    <3>1. \A r \in Revalidations : ws[r].row # "unsent" => ws[r].at \in Nat
      BY WrittenType
    <3>2. QED
      BY <2>1, <3>1 DEF Paired
  <2>5. \/ m.staleAt = a.staleAt /\ m.expiredAt = a.expiredAt
        \/ m.staleAt = b.staleAt /\ m.expiredAt = b.expiredAt
    BY <1>2, <1>3, <1>5, <2>2, <2>3, <2>4 DEF Later
  <2>6. \/ p.staleAt = a.staleAt /\ p.expiredAt = a.expiredAt
        \/ p.staleAt = b.staleAt /\ p.expiredAt = b.expiredAt
    BY <1>2, <1>4, <2>2, <2>3, <2>4
  <2>7. QED
    BY <2>1, <2>5, <2>6 DEF Paired
<1>8. QED
  BY <1>3, <1>4, <1>6, <1>7 DEF Fits, m, p

\* What is held of `t` is the latest of its three.
LEMMA HeldIs ==
    ASSUME NEW n \in Nat, NEW ws, WritesOK(ws, n), NEW t \in Tags, NEW k,
           Fits(ws, n, t, k.marker[t]), Fits(ws, n, t, k.logOnly[t]), Fits(ws, n, t, k.pending[t])
    PROVE  LET h == Held(k, t)
               three == {k.marker[t], k.logOnly[t], k.pending[t]}
           IN  /\ Fits(ws, n, t, h) /\ h \in Marker
               /\ \A m \in three : m.revalidatedAt <= h.revalidatedAt /\ m.staleAt <= h.staleAt
               /\ \E m \in three : m.revalidatedAt = h.revalidatedAt
               /\ \E m \in three : m.staleAt = h.staleAt
<1> DEFINE a == k.marker[t]
           b == k.logOnly[t]
           c == k.pending[t]
           p == MergeMarkers(b, c)
           h == MergeMarkers(a, p)
<1>1. a \in Marker /\ b \in Marker /\ c \in Marker
  BY DEF Fits
<1>2. /\ a.revalidatedAt \in Stamp /\ a.staleAt \in Stamp
      /\ b.revalidatedAt \in Stamp /\ b.staleAt \in Stamp
      /\ c.revalidatedAt \in Stamp /\ c.staleAt \in Stamp
  BY <1>1 DEF Marker
<1> HIDE DEF a, b, c
<1>3. /\ Fits(ws, n, t, p) /\ p \in Marker
      /\ p.revalidatedAt = Later(b.revalidatedAt, c.revalidatedAt)
      /\ p.staleAt = Later(b.staleAt, c.staleAt)
  BY <1>1, MergeIs, FitsMerge DEF b, c
<1> HIDE DEF p
<1>4. /\ Fits(ws, n, t, h) /\ h \in Marker
      /\ h.revalidatedAt = Later(a.revalidatedAt, p.revalidatedAt)
      /\ h.staleAt = Later(a.staleAt, p.staleAt)
  BY <1>1, <1>3, MergeIs, FitsMerge DEF a
<1>5. Held(k, t) = h
  BY DEF Held, PendingRows, h, p, a, b, c
<1> HIDE DEF h
<1>6. \A m \in {a, b, c} : m.revalidatedAt <= h.revalidatedAt /\ m.staleAt <= h.staleAt
  BY <1>2, <1>3, <1>4 DEF Later
<1>7. h.revalidatedAt \in {a.revalidatedAt, b.revalidatedAt, c.revalidatedAt}
      /\ h.staleAt \in {a.staleAt, b.staleAt, c.staleAt}
  BY <1>2, <1>3, <1>4 DEF Later
<1>8. (\E m \in {a, b, c} : m.revalidatedAt = h.revalidatedAt)
      /\ (\E m \in {a, b, c} : m.staleAt = h.staleAt)
  BY <1>7
<1>9. QED
  BY <1>4, <1>5, <1>6, <1>8 DEF a, b, c

\* What is held at least as late, or was let go of, stands.
LEMMA StandsFreed ==
    ASSUME NEW k, NEW t \in Tags, NEW m, Frees(k, m)
    PROVE  Stands(k, t, m)
BY DEF Frees, Stands

\* What is held stands.
LEMMA StandsHeld ==
    ASSUME NEW n \in Nat, NEW ws, WritesOK(ws, n), NEW t \in Tags, NEW k,
           Fits(ws, n, t, k.marker[t]), Fits(ws, n, t, k.logOnly[t]), Fits(ws, n, t, k.pending[t]),
           NEW m \in {k.marker[t], k.logOnly[t], k.pending[t]}
    PROVE  Stands(k, t, m)
BY HeldIs DEF Stands

\* Two markers that stand do so merged.
LEMMA StandsMerged ==
    ASSUME NEW n \in Nat, NEW ws, WritesOK(ws, n), NEW t \in Tags, NEW k,
           NEW a, Fits(ws, n, t, a), NEW b, Fits(ws, n, t, b),
           Stands(k, t, a), Stands(k, t, b)
    PROVE  Stands(k, t, MergeMarkers(a, b))
<1> DEFINE m == MergeMarkers(a, b)
<1>1. /\ m.revalidatedAt = Later(a.revalidatedAt, b.revalidatedAt)
      /\ m.staleAt = Later(a.staleAt, b.staleAt) /\ Fits(ws, n, t, m)
  BY MergeIs, FitsMerge DEF Fits
<1> HIDE DEF m
<1>2. m.revalidatedAt \in {a.revalidatedAt, b.revalidatedAt}
  BY <1>1 DEF Later
<1>3. m.staleAt = a.staleAt \/ m.staleAt = b.staleAt
  BY <1>1 DEF Later
<1>4. /\ m.staleAt = a.staleAt /\ Uniform(t) => m.expiredAt = a.expiredAt
      /\ m.staleAt = b.staleAt /\ Uniform(t) => m.expiredAt = b.expiredAt
  BY <1>1, PairIs
<1>5. QED
  BY <1>2, <1>3, <1>4 DEF Stands, m

\* Where `t` is known: tracked, from the log, or waiting for a read.
Three(k, t) == {k.marker[t], k.logOnly[t], k.pending[t]}
FitsAt(ws, n, t, k) == \A m \in Three(k, t) : Fits(ws, n, t, m)

\* When all three stand, what was held does.
LEMMA HeldStands ==
    ASSUME NEW n \in Nat, NEW ws, WritesOK(ws, n), NEW t \in Tags, NEW k, NEW l,
           FitsAt(ws, n, t, k), \A m \in Three(k, t) : Stands(l, t, m)
    PROVE  Stands(l, t, Held(k, t))
<1>1. Fits(ws, n, t, PendingRows(k, t)) /\ Stands(l, t, PendingRows(k, t))
  BY FitsMerge, StandsMerged DEF PendingRows, FitsAt, Three
<1>2. Fits(ws, n, t, k.marker[t]) /\ Stands(l, t, k.marker[t])
  BY DEF FitsAt, Three
<1>3. QED
  BY <1>1, <1>2, StandsMerged DEF Held

\* A marker stands by one with as late a revalidation and one with the same stale stamp.
LEMMA StandsBy ==
    ASSUME NEW n \in Nat, NEW ws, WritesOK(ws, n), NEW t \in Tags,
           NEW k, FloorIs(k), Held(k, t) \in Marker,
           NEW c, Fits(ws, n, t, c), NEW d, Fits(ws, n, t, d), Stands(k, t, c), Stands(k, t, d),
           NEW m, Fits(ws, n, t, m), m.revalidatedAt <= c.revalidatedAt, m.staleAt = d.staleAt
    PROVE  Stands(k, t, m)
<1>1. /\ m.revalidatedAt \in Stamp /\ c.revalidatedAt \in Stamp
      /\ Held(k, t).revalidatedAt \in Stamp /\ k.floor \in Nat
  BY DEF Fits, Marker, FloorIs
<1>2. Uniform(t) => m.expiredAt = d.expiredAt
  BY PairIs
<1>3. m.revalidatedAt <= Held(k, t).revalidatedAt \/ m.revalidatedAt <= k.floor
  BY <1>1 DEF Stands
<1>4. QED
  BY <1>2, <1>3 DEF Stands

\* What an instance is told, and holds or answers for with all it held before.
LEMMA VouchesOn ==
    ASSUME NEW n \in Nat, NEW ws, WritesOK(ws, n), NEW t \in Tags,
           NEW k, FloorIs(k), FitsAt(ws, n, t, k), NEW l, FloorIs(l), FitsAt(ws, n, t, l),
           Moved(k, l), NEW m, Fits(ws, n, t, m), Vouches(k, t, m), NEW x, Fits(ws, n, t, x),
           Stands(l, t, MergeMarkers(Held(k, t), x)),
           \A c \in Three(l, t) : c.staleAt <= Held(k, t).staleAt \/ c.staleAt <= x.staleAt
    PROVE  Fits(ws, n, t, MergeMarkers(m, x)) /\ Vouches(l, t, MergeMarkers(m, x))
<1> DEFINE h == Held(k, t)
           g == Held(l, t)
           z == MergeMarkers(h, x)
           y == MergeMarkers(m, x)
<1>1. /\ Fits(ws, n, t, h) /\ h \in Marker
      /\ g \in Marker /\ \E c \in Three(l, t) : c.staleAt = g.staleAt
  BY HeldIs DEF FitsAt, Three
<1>2. /\ m \in Marker /\ x \in Marker
      /\ Fits(ws, n, t, y) /\ y.staleAt = Later(m.staleAt, x.staleAt)
      /\ y.revalidatedAt = Later(m.revalidatedAt, x.revalidatedAt)
      /\ Fits(ws, n, t, z) /\ z.staleAt = Later(h.staleAt, x.staleAt)
      /\ z.revalidatedAt = Later(h.revalidatedAt, x.revalidatedAt)
  BY <1>1, MergeIs, FitsMerge DEF Fits
<1>3. /\ m.revalidatedAt \in Stamp /\ m.staleAt \in Stamp /\ m.expiredAt \in Stamp
      /\ x.revalidatedAt \in Stamp /\ x.staleAt \in Stamp
      /\ h.revalidatedAt \in Stamp /\ h.staleAt \in Stamp
      /\ g.revalidatedAt \in Stamp /\ g.staleAt \in Stamp
      /\ k.floor \in Nat /\ l.floor \in Nat /\ k.floor <= l.floor
  BY <1>1, <1>2 DEF Marker, FloorIs, Moved
<1>4. g.staleAt <= h.staleAt \/ g.staleAt <= x.staleAt
  BY <1>1
<1>5. h.staleAt <= m.staleAt
  BY DEF Vouches
<1>6. /\ m.revalidatedAt <= h.revalidatedAt \/ m.revalidatedAt <= k.floor
      /\ m.staleAt <= h.staleAt
         \/ (m.staleAt <= k.floor /\ (Uniform(t) => LetGo(k, m.expiredAt)))
  BY DEF Vouches, Stands
<1>7. /\ z.revalidatedAt <= g.revalidatedAt \/ z.revalidatedAt <= l.floor
      /\ z.staleAt <= g.staleAt
         \/ (z.staleAt <= l.floor /\ (Uniform(t) => LetGo(l, z.expiredAt)))
  BY DEF Stands
<1>8. LetGo(k, m.expiredAt) => LetGo(l, m.expiredAt)
  BY <1>3, LetGoStays
<1>9. /\ y.staleAt = z.staleAt /\ Uniform(t) => y.expiredAt = z.expiredAt
      /\ y.staleAt = m.staleAt /\ Uniform(t) => y.expiredAt = m.expiredAt
  BY <1>2, PairIs
<1> HIDE DEF h, g, y, z
<1>10. g.staleAt <= y.staleAt
  BY <1>2, <1>3, <1>4, <1>5 DEF Later
<1>11. y.revalidatedAt <= g.revalidatedAt \/ y.revalidatedAt <= l.floor
  BY <1>2, <1>3, <1>6, <1>7 DEF Later
<1>12. \/ y.staleAt <= g.staleAt
       \/ y.staleAt <= l.floor /\ (Uniform(t) => LetGo(l, y.expiredAt))
  <2>1. CASE y.staleAt = z.staleAt
    BY <2>1, <1>7, <1>9
  <2>2. CASE y.staleAt # z.staleAt
    <3>1. y.staleAt = m.staleAt /\ m.staleAt > h.staleAt
      BY <2>2, <1>2, <1>3, <1>5 DEF Later
    <3>2. QED
      BY <3>1, <1>3, <1>6, <1>8, <1>9
  <2>3. QED
    BY <2>1, <2>2
<1>13. QED
  BY <1>2, <1>10, <1>11, <1>12 DEF Vouches, Stands, g, y

\* Each of the three is still there, or completeSince is past it.
KeptAt(k, l, t) ==
    /\ Kept(l, k.marker[t], l.marker[t]) /\ Kept(l, k.logOnly[t], l.logOnly[t])
    /\ Kept(l, k.pending[t], l.pending[t])

\* What is kept or let go of is answered for as before.
LEMMA KeptVouches ==
    ASSUME NEW n \in Nat, NEW ws, WritesOK(ws, n), NEW t \in Tags,
           NEW k, FloorIs(k), FitsAt(ws, n, t, k), NEW l, FloorIs(l), Moved(k, l),
           KeptAt(k, l, t), NEW m, Fits(ws, n, t, m), Vouches(k, t, m)
    PROVE  FitsAt(ws, n, t, l) /\ Vouches(l, t, m)
<1>1. FitsAt(ws, n, t, l)
  BY NoMarkerFits DEF FitsAt, Three, KeptAt, Kept
<1>2. ASSUME NEW c \in Three(k, t) PROVE Stands(l, t, c)
  <2>1. c \in Three(l, t) \/ Frees(l, c)
    BY DEF Three, KeptAt, Kept
  <2>2. QED
    BY <2>1, <1>1, StandsHeld, StandsFreed DEF FitsAt, Three
<1>3. Stands(l, t, NoMarker) /\ Fits(ws, n, t, NoMarker)
  BY FreesNone, StandsFreed, NoMarkerFits
<1>4. ASSUME NEW c \in Three(l, t)
      PROVE  c.staleAt <= Held(k, t).staleAt \/ c.staleAt <= NoMarker.staleAt
  <2>1. c = NoMarker \/ c \in Three(k, t)
    BY DEF Three, KeptAt, Kept
  <2>2. CASE c = NoMarker
    BY <2>2, NoMarkerIs
  <2>3. CASE c \in Three(k, t)
    BY <2>3, HeldIs DEF FitsAt, Three
  <2>4. QED
    BY <2>1, <2>2, <2>3
<1>5. Vouches(l, t, MergeMarkers(m, NoMarker))
  <2>1. Stands(l, t, Held(k, t)) /\ Fits(ws, n, t, Held(k, t))
    BY <1>2, HeldStands, HeldIs DEF FitsAt, Three
  <2>2. Stands(l, t, MergeMarkers(Held(k, t), NoMarker))
    BY <2>1, <1>3, StandsMerged
  <2>3. QED
    BY <1>1, <1>3, <1>4, <2>2, VouchesOn
<1>6. MergeMarkers(m, NoMarker) = m
  BY MergeNone DEF Fits
<1>7. QED
  BY <1>1, <1>5, <1>6

\* What is known and told, and what it is to know and be told more.
Sound(ws, n, k, all) ==
    /\ Shape(k) /\ all \in [Tags -> Marker]
    /\ \A t \in Tags : /\ FitsAt(ws, n, t, k) /\ Fits(ws, n, t, all[t])
                       /\ Vouches(k, t, all[t])
    /\ AppliedTold(ws, k, all)

\* Letting go leaves that sound.
LEMMA KeptSound ==
    ASSUME NEW n \in Nat, NEW ws, WritesOK(ws, n), NEW k, NEW all, Sound(ws, n, k, all),
           NEW l, Shape(l), Moved(k, l), l.applied \subseteq k.applied,
           \A t \in Tags : KeptAt(k, l, t)
    PROVE  Sound(ws, n, l, all)
<1>1. FloorIs(k) /\ FloorIs(l)
  BY DEF Sound, Shape
<1>2. ASSUME NEW t \in Tags
      PROVE  FitsAt(ws, n, t, l) /\ Fits(ws, n, t, all[t]) /\ Vouches(l, t, all[t])
  BY <1>1, KeptVouches DEF Sound
<1>3. AppliedTold(ws, l, all)
  BY DEF Sound, AppliedTold
<1>4. QED
  BY <1>2, <1>3 DEF Sound

\* Told `x` of `t`, and holding it.
LEMMA ToldSound ==
    ASSUME NEW n \in Nat, NEW ws, WritesOK(ws, n), NEW k, NEW all, Sound(ws, n, k, all),
           NEW t \in Tags, NEW x, Fits(ws, n, t, x),
           NEW l, Shape(l), Moved(k, l),
           \A u \in Tags \ {t} : KeptAt(k, l, u),
           FitsAt(ws, n, t, l), Stands(l, t, MergeMarkers(Held(k, t), x)),
           \A c \in Three(l, t) : c.staleAt <= Held(k, t).staleAt \/ c.staleAt <= x.staleAt,
           \A r \in l.applied \ k.applied :
              TagOf[r] = t /\ ws[r].row # "unsent" /\ Written(ws, r) = x
    PROVE  Sound(ws, n, l, [all EXCEPT ![t] = MergeMarkers(@, x)])
<1> DEFINE heard == [all EXCEPT ![t] = MergeMarkers(@, x)]
<1>1. FloorIs(k) /\ FloorIs(l) /\ all \in [Tags -> Marker] /\ x \in Marker
  BY DEF Sound, Shape, Fits
<1>2. /\ MergeMarkers(all[t], x) \in Marker
      /\ MergeMarkers(all[t], x).revalidatedAt = Later(all[t].revalidatedAt, x.revalidatedAt)
      /\ MergeMarkers(all[t], x).staleAt = Later(all[t].staleAt, x.staleAt)
  BY <1>1, MergeIs
<1>3. /\ heard \in [Tags -> Marker] /\ heard[t] = MergeMarkers(all[t], x)
      /\ \A u \in Tags \ {t} : heard[u] = all[u]
  BY <1>1, <1>2
<1> HIDE DEF heard
<1>4. ASSUME NEW u \in Tags
      PROVE  FitsAt(ws, n, u, l) /\ Fits(ws, n, u, heard[u]) /\ Vouches(l, u, heard[u])
  <2>1. CASE u = t
    <3>1. FitsAt(ws, n, t, k) /\ Fits(ws, n, t, all[t]) /\ Vouches(k, t, all[t])
      BY DEF Sound
    <3>2. Fits(ws, n, t, heard[t]) /\ Vouches(l, t, heard[t])
      BY <1>1, <1>3, <3>1, VouchesOn
    <3>3. QED
      BY <2>1, <3>2
  <2>2. CASE u # t
    <3>1. KeptAt(k, l, u) /\ heard[u] = all[u]
      BY <1>3, <2>2
    <3>2. QED
      BY <1>1, <3>1, KeptVouches DEF Sound
  <2>3. QED
    BY <2>1, <2>2
<1>5. ASSUME NEW r \in l.applied
      PROVE  ws[r].row # "unsent" /\ Covers(heard[TagOf[r]], Written(ws, r))
  <2>1. /\ all[t].revalidatedAt \in Stamp /\ all[t].staleAt \in Stamp
        /\ x.revalidatedAt \in Stamp /\ x.staleAt \in Stamp
    BY <1>1 DEF Marker
  <2>2. Covers(heard[t], x)
    BY <1>2, <1>3, <2>1 DEF Covers, Later
  <2>3. CASE r \in k.applied
    <3>1. /\ ws[r].row # "unsent" /\ Covers(all[TagOf[r]], Written(ws, r))
          /\ r \in Revalidations /\ TagOf[r] \in Tags
      BY <2>3, KnowledgeIs, TagOfAssumption DEF Sound, AppliedTold, Shape
    <3>2. CASE TagOf[r] = t
      <4>1. Written(ws, r) \in Marker
        BY <3>1, WrittenType
      <4>2. Written(ws, r).revalidatedAt \in Stamp /\ Written(ws, r).staleAt \in Stamp
        BY <4>1 DEF Marker
      <4>3. Covers(all[t], Written(ws, r))
        BY <3>1, <3>2
      <4>4. Covers(heard[t], Written(ws, r))
        BY <1>2, <1>3, <2>1, <4>2, <4>3 DEF Covers, Later
      <4>5. QED
        BY <3>1, <3>2, <4>4
    <3>3. CASE TagOf[r] # t
      BY <1>3, <3>1, <3>3
    <3>4. QED
      BY <3>2, <3>3
  <2>4. CASE r \notin k.applied
    BY <2>2, <2>4
  <2>5. QED
    BY <2>3, <2>4
<1>6. QED
  BY <1>3, <1>4, <1>5 DEF Sound, AppliedTold, heard
--------------------------------------------------------------------------------
(* What each step makes of what is known. *)

\* With no tag in a map, the maps agree.
LEMMA NothingKnownIs ==
    ASSUME NEW k \in Knowledge, k.tags = <<>>, k.logged = <<>>, FloorIs(k),
           k.marker = NothingKnown.marker, k.logOnly = NothingKnown.logOnly
    PROVE  Shape(k) /\ Tracked(k) = {} /\ Logged(k) = {}
<1>1. DOMAIN <<>> = {} /\ Len(<<>>) = 0
  OBVIOUS
<1>2. Tracked(k) = {} /\ Logged(k) = {}
  BY <1>1 DEF Tracked, Logged
<1>3. Distinct(k.tags) /\ Distinct(k.logged)
  BY <1>1 DEF Distinct
<1>4. Len(k.tags) <= MaxTracked /\ Len(k.logged) <= MaxTracked
  BY <1>1, LimitsAssumption
<1>5. \A t \in Tags : k.marker[t] = NoMarker /\ k.logOnly[t] = NoMarker
  BY DEF NothingKnown
<1>6. QED
  BY <1>2, <1>3, <1>4, <1>5 DEF Shape

\* A forget lets go of all but the rows that wait for a read.
LEMMA ForgottenIs ==
    ASSUME now \in Nat, NEW k, Shape(k)
    PROVE  LET l == Forgotten(k)
           IN  /\ Shape(l) /\ Moved(k, l) /\ l.applied = {} /\ Logged(l) = {}
               /\ l.pending = k.pending /\ \A u \in Tags : KeptAt(k, l, u)
<1> DEFINE a == RaiseFloors(k, k.tags, k.marker)
           b == RaiseFloors(a, k.logged, k.logOnly)
           l == Forgotten(k)
<1>1. /\ k \in Knowledge /\ FloorIs(k) /\ k.tags \in Seq(Tags) /\ k.logged \in Seq(Tags)
      /\ k.marker \in [Tags -> Marker] /\ k.logOnly \in [Tags -> Marker]
      /\ k.pending \in [Tags -> Marker]
      /\ Tracked(k) = Elements(k.tags) /\ Logged(k) = Elements(k.logged)
  BY KnowledgeIs DEF Shape
<1>2. /\ a \in Knowledge /\ FloorIs(a) /\ MapsAsWere(k, a) /\ Moved(k, a)
      /\ \A u \in Tracked(k) : Frees(a, k.marker[u])
  BY <1>1, RaiseFloorsIs
<1>3. l = LET logged == RaiseFloors(a, k.logged, k.logOnly)
          IN  [NothingKnown EXCEPT !.pending = k.pending, !.floor = Later(logged.floor, now),
                                   !.later = logged.later]
  BY DEF Forgotten
<1>4. l = [NothingKnown EXCEPT !.pending = k.pending,
                               !.floor = Later(b.floor, now), !.later = b.later]
  BY <1>3, Zenon
<1> HIDE DEF a
<1>5. /\ b \in Knowledge /\ FloorIs(b) /\ Moved(a, b)
      /\ \A u \in Logged(k) : Frees(b, k.logOnly[u])
  BY <1>1, <1>2, RaiseFloorsIs
<1> HIDE DEF b, l
<1>6. /\ l.tags = <<>> /\ l.logged = <<>> /\ l.marker = NothingKnown.marker
      /\ l.logOnly = NothingKnown.logOnly /\ l.pending = k.pending /\ l.applied = {}
      /\ l.floor = Later(b.floor, now) /\ l.later = b.later
  BY <1>4 DEF NothingKnown
<1>7. b.floor <= l.floor /\ l.floor \in Nat
  BY <1>5, <1>6 DEF Later, FloorIs
<1>8. l \in Knowledge
  <2>1. b.later \in SUBSET (Int \X Int) /\ Later(b.floor, now) \in Int
    BY <1>5, <1>6, <1>7, KnowledgeIs
  <2>2. NothingKnown \in Knowledge
    <3>1. <<>> \in Seq(Tags) /\ [t \in Tags |-> NoMarker] \in [Tags -> Marker]
      BY NoMarkerIs
    <3>2. QED
      BY <3>1 DEF NothingKnown, Knowledge
  <2>3. QED
    BY <1>1, <1>4, <2>1, <2>2 DEF Knowledge
<1>9. FloorIs(l) /\ Moved(b, l)
  <2>1. Moved(b, b)
    BY <1>5, MovedStays
  <2>2. FloorIs(l)
    BY <1>5, <1>6, <1>7 DEF FloorIs
  <2>3. \A s \in b.later : \E u \in l.later : u[1] <= s[1] /\ s[2] <= u[2]
    <3>1. \A s \in b.later : s[1] <= s[1] /\ s[2] <= s[2]
      BY <1>5, SpanType DEF FloorIs
    <3>2. QED
      BY <3>1, <1>6
  <2>4. QED
    BY <2>2, <2>3, <1>7 DEF Moved
<1>10. Moved(a, l) /\ Moved(k, l)
  BY <1>1, <1>2, <1>5, <1>9, MovedOn
<1>11. Shape(l) /\ Logged(l) = {}
  BY <1>6, <1>8, <1>9, NothingKnownIs
<1>12. ASSUME NEW u \in Tags PROVE KeptAt(k, l, u)
  <2>1. l.marker[u] = NoMarker /\ l.logOnly[u] = NoMarker /\ l.pending[u] = k.pending[u]
    BY <1>6 DEF NothingKnown
  <2>2. k.marker[u] \in Marker /\ k.logOnly[u] \in Marker
    BY <1>1
  <2>3. Kept(l, k.marker[u], l.marker[u])
    <3>1. CASE u \in Tracked(k)
      BY <3>1, <1>2, <1>9, <1>10, <2>1, <2>2, FreesStays DEF Kept
    <3>2. CASE u \notin Tracked(k)
      BY <3>2, <2>1 DEF Kept, Shape
    <3>3. QED
      BY <3>1, <3>2
  <2>4. Kept(l, k.logOnly[u], l.logOnly[u])
    <3>1. CASE u \in Logged(k)
      BY <3>1, <1>5, <1>9, <2>1, <2>2, FreesStays DEF Kept
    <3>2. CASE u \notin Logged(k)
      BY <3>2, <2>1 DEF Kept, Shape
    <3>3. QED
      BY <3>1, <3>2
  <2>5. QED
    BY <2>1, <2>3, <2>4 DEF KeptAt, Kept
<1>13. QED
  BY <1>6, <1>10, <1>11, <1>12 DEF l

\* completeSince moves to where it is asked for, and past the spans that have begun.
LEMMA PassedFloorsIs ==
    ASSUME now \in Nat, NEW k, Shape(k)
    PROVE  LET l == PassedFloors(k)
           IN  Shape(l) /\ Moved(k, l) /\ MapsAsWere(k, l)
<1> DEFINE c == CompleteSince(k)
           rest == {s \in k.later : s[1] > now}
           l == PassedFloors(k)
<1>1. k \in Knowledge /\ FloorIs(k) /\ \A s \in k.later : s[1] \in Nat /\ s[2] \in Nat
  BY SpanType DEF Shape, FloorIs
<1>2. /\ c \in Nat /\ k.floor <= c /\ \A s \in k.later : s[1] <= now => s[2] <= c
  <2>1. c = CompleteAt(k, now)
    BY DEF CompleteSince, CompleteAt
  <2> HIDE DEF c
  <2>2. QED
    BY <1>1, <2>1, CompleteAtIs
<1> HIDE DEF c
<1>3. l = [k EXCEPT !.floor = c, !.later = rest]
  BY DEF PassedFloors, c
<1>4. /\ rest \subseteq k.later
      /\ \A s \in k.later : s[1] <= now \/ s \in rest
  <2>1. rest \subseteq k.later
    OBVIOUS
  <2>2. ASSUME NEW s \in k.later, ~(s[1] <= now) PROVE s \in rest
    <3>1. s[1] > now
      BY <1>1, <2>2
    <3>2. QED
      BY <3>1
  <2>3. QED
    BY <2>1, <2>2
<1> HIDE DEF rest, l
<1>5. rest \in SUBSET (Int \X Int)
  BY <1>1, <1>4, KnowledgeIs
<1>6. l \in Knowledge /\ l.floor = c /\ l.later = rest /\ MapsAsWere(k, l)
  <2>1. k \in Knowledge /\ c \in Int
    BY <1>1, <1>2
  <2>2. l \in Knowledge
    BY <1>3, <1>5, <2>1 DEF Knowledge
  <2>3. l.floor = c /\ l.later = rest
    BY <1>3, <2>1 DEF Knowledge
  <2>4. MapsAsWere(k, l)
    BY <1>3, <2>1 DEF Knowledge, MapsAsWere
  <2>5. QED
    BY <2>2, <2>3, <2>4
<1>7. FloorIs(l)
  <2>1. IsFiniteSet(rest) /\ Cardinality(rest) <= Cardinality(k.later)
    BY <1>1, <1>4, FS_Subset DEF FloorIs, Spans
  <2>2. Cardinality(rest) \in Nat /\ Cardinality(k.later) \in Nat
    BY <1>1, <2>1, FS_CardinalityType DEF FloorIs, Spans
  <2>3. Cardinality(rest) <= MaxTracked
    BY <1>1, <2>1, <2>2, LimitsAssumption DEF FloorIs
  <2>4. Spans(rest)
    BY <1>1, <1>4, <2>1 DEF FloorIs, Spans
  <2>5. QED
    BY <1>2, <1>6, <2>3, <2>4 DEF FloorIs
<1>8. Moved(k, l)
  <2>1. \A s \in k.later : s[2] <= c \/ s \in rest
    BY <1>2, <1>4
  <2>2. \A s \in k.later : s[1] <= s[1] /\ s[2] <= s[2]
    BY <1>1
  <2>3. QED
    BY <1>2, <1>6, <2>1, <2>2 DEF Moved
<1>9. Shape(l)
  BY <1>6, <1>7 DEF Shape, MapsAsWere, Tracked, Logged
<1>10. QED
  BY <1>6, <1>8, <1>9 DEF l
--------------------------------------------------------------------------------
(* Rows of the log. *)

\* Nothing is lost when each of the three, and what is new, is in one of the three.
LEMMA Learned ==
    ASSUME NEW n \in Nat, NEW ws, WritesOK(ws, n), NEW t \in Tags,
           NEW k, FitsAt(ws, n, t, k), NEW l, FitsAt(ws, n, t, l), NEW x, Fits(ws, n, t, x),
           \A c \in Three(k, t) \cup {x} :
              /\ \E d \in Three(l, t) : c.revalidatedAt <= d.revalidatedAt
              /\ \E d \in Three(l, t) : c.staleAt <= d.staleAt
    PROVE  Stands(l, t, MergeMarkers(Held(k, t), x))
<1> DEFINE h == Held(k, t)
           g == Held(l, t)
           z == MergeMarkers(h, x)
<1>1. /\ h \in Marker /\ \E c \in Three(k, t) : c.revalidatedAt = h.revalidatedAt
      /\ \E c \in Three(k, t) : c.staleAt = h.staleAt
  BY HeldIs DEF FitsAt, Three
<1>2. /\ g \in Marker
      /\ \A d \in Three(l, t) : d.revalidatedAt <= g.revalidatedAt /\ d.staleAt <= g.staleAt
  BY HeldIs DEF FitsAt, Three
<1>3. /\ z.revalidatedAt = Later(h.revalidatedAt, x.revalidatedAt)
      /\ z.staleAt = Later(h.staleAt, x.staleAt)
  BY <1>1, MergeIs DEF Fits
<1> HIDE DEF h, g, z
<1>4. /\ \A c \in Three(k, t) \cup {x} : c.revalidatedAt \in Stamp /\ c.staleAt \in Stamp
      /\ \A d \in Three(l, t) : d.revalidatedAt \in Stamp /\ d.staleAt \in Stamp
      /\ g.revalidatedAt \in Stamp /\ g.staleAt \in Stamp
  BY <1>2 DEF FitsAt, Fits, Marker
<1>5. \A c \in Three(k, t) \cup {x} :
         c.revalidatedAt <= g.revalidatedAt /\ c.staleAt <= g.staleAt
  BY <1>2, <1>4
<1>6. z.revalidatedAt <= g.revalidatedAt /\ z.staleAt <= g.staleAt
  BY <1>1, <1>3, <1>5 DEF Later
<1>7. QED
  BY <1>6 DEF Stands, z, g, h

\* What a row of the log is applied to: nothing, the tracked marker, the rows
\* that wait for a read, or the log's word.
RowApplied(k, l, r, oldest) ==
    LET t == TagOf[r]
        x == MarkerOf(r)
    IN  \/ r \in k.applied /\ l = k
        \/ /\ r \notin k.applied /\ l.applied = k.applied \cup {r}
           /\ Shape(l) /\ Moved(k, l) /\ l.tags = k.tags
           /\ l.logged = k.logged /\ l.logOnly = k.logOnly
           /\ \/ /\ l.marker = [k.marker EXCEPT ![t] = MergeMarkers(k.marker[t], x)]
                 /\ l.pending = k.pending
              \/ /\ reading[t] # "none" /\ l.marker = k.marker
                 /\ l.pending = [k.pending EXCEPT ![t] = MergeMarkers(k.pending[t], x)]
        \/ Relogged(k, l, t, MergeMarkers(k.logOnly[t], x), oldest)

\* ApplyRow is one of these.
LEMMA RowAppliedIs ==
    ASSUME now \in Nat, NEW k, Shape(k), NEW r \in Revalidations, MarkerOf(r) \in Marker,
           NEW oldest \in Int
    PROVE  RowApplied(k, ApplyRow(k, r, oldest), r, oldest)
<1> DEFINE t == TagOf[r]
           x == MarkerOf(r)
           l == ApplyRow(k, r, oldest)
<1>1. /\ k \in Knowledge /\ FloorIs(k) /\ t \in Tags /\ x \in Marker
      /\ k.marker \in [Tags -> Marker] /\ k.pending \in [Tags -> Marker]
      /\ k.logOnly \in [Tags -> Marker] /\ k.applied \subseteq Revalidations
  BY KnowledgeIs, TagOfAssumption DEF Shape
<1> HIDE DEF x, t
<1>2. CASE r \in k.applied
  BY <1>2 DEF ApplyRow, RowApplied
<1>3. CASE r \notin k.applied /\ t \in Tracked(k)
  <2> DEFINE marker == [k.marker EXCEPT ![t] = MergeMarkers(k.marker[t], x)]
             applied == k.applied \cup {r}
  <2>1. l = [k EXCEPT !.marker = marker, !.applied = applied]
    <3>1. ~(r \in k.applied) /\ TagOf[r] \in Tracked(k)
      BY <1>3 DEF t
    <3>2. l = [k EXCEPT !.marker[TagOf[r]] = MergeMarkers(@, MarkerOf(r)),
                        !.applied = @ \cup {r}]
      BY <3>1 DEF ApplyRow
    <3>3. QED
      BY <3>2 DEF x, t
  <2>2. MergeMarkers(k.marker[t], x) \in Marker
    BY <1>1, MergeIs
  <2>3. marker \in [Tags -> Marker] /\ applied \subseteq Revalidations
    BY <1>1, <2>2
  <2>4. \A u \in Tags : u # t => marker[u] = k.marker[u]
    BY <1>1
  <2> DEFINE y == l
  <2>5. y = [k EXCEPT !.marker = marker, !.applied = applied]
    BY <2>1
  <2>6. marker = [k.marker EXCEPT ![t] = MergeMarkers(k.marker[t], x)]
    OBVIOUS
  <2>7. applied = k.applied \cup {r}
    OBVIOUS
  <2> HIDE DEF y, marker, applied
  <2>8. y \in Knowledge
    BY <1>1, <2>3, <2>5 DEF Knowledge
  <2>9. /\ y.marker = marker /\ y.applied = applied /\ y.tags = k.tags /\ y.logged = k.logged
        /\ y.logOnly = k.logOnly /\ y.pending = k.pending
        /\ y.floor = k.floor /\ y.later = k.later
    BY <1>1, <2>5 DEF Knowledge
  <2>10. FloorIs(y) /\ Moved(k, y)
    <3>1. Moved(k, k)
      BY <1>1, MovedStays
    <3>2. QED
      BY <1>1, <2>9, <3>1 DEF FloorIs, Moved
  <2>11. Tracked(y) = Tracked(k) /\ Logged(y) = Logged(k)
    BY <2>9 DEF Tracked, Logged
  <2>12. Shape(y)
    <3>1. \A u \in Tags : u \notin Tracked(k) => y.marker[u] = k.marker[u]
      BY <1>3, <2>4, <2>9
    <3>2. QED
      BY <2>8, <2>9, <2>10, <2>11, <3>1 DEF Shape
  <2>13. QED
    BY <1>3, <2>6, <2>7, <2>9, <2>10, <2>12 DEF RowApplied, x, t, y
<1>4. CASE r \notin k.applied /\ t \notin Tracked(k) /\ reading[t] # "none"
  <2> DEFINE pending == [k.pending EXCEPT ![t] = MergeMarkers(k.pending[t], x)]
             applied == k.applied \cup {r}
             y == l
  <2>1. y = [k EXCEPT !.pending = pending, !.applied = applied]
    <3>1. ~(r \in k.applied) /\ ~(TagOf[r] \in Tracked(k)) /\ reading[TagOf[r]] # "none"
      BY <1>4 DEF t
    <3>2. l = [k EXCEPT !.pending[TagOf[r]] = MergeMarkers(@, MarkerOf(r)),
                        !.applied = @ \cup {r}]
      BY <3>1 DEF ApplyRow
    <3>3. QED
      BY <3>2 DEF x, t
  <2>2. MergeMarkers(k.pending[t], x) \in Marker
    BY <1>1, MergeIs
  <2>3. pending \in [Tags -> Marker] /\ applied \subseteq Revalidations
    BY <1>1, <2>2
  <2>4. pending = [k.pending EXCEPT ![t] = MergeMarkers(k.pending[t], x)]
    OBVIOUS
  <2>5. applied = k.applied \cup {r}
    OBVIOUS
  <2> HIDE DEF y, pending, applied
  <2>6. y \in Knowledge
    BY <1>1, <2>1, <2>3 DEF Knowledge
  <2>7. /\ y.marker = k.marker /\ y.applied = applied /\ y.tags = k.tags /\ y.logged = k.logged
        /\ y.logOnly = k.logOnly /\ y.pending = pending
        /\ y.floor = k.floor /\ y.later = k.later
    BY <1>1, <2>1 DEF Knowledge
  <2>8. Shape(y) /\ Moved(k, y)
    BY <2>6, <2>7, ShapeStays
  <2>9. QED
    BY <1>4, <2>4, <2>5, <2>7, <2>8 DEF RowApplied, x, t, y
<1>5. CASE r \notin k.applied /\ t \notin Tracked(k) /\ reading[t] = "none"
  <2>1. l = RememberLogged(k, t, MergeMarkers(k.logOnly[t], x), oldest)
    BY <1>5 DEF ApplyRow, x, t
  <2>2. MergeMarkers(k.logOnly[t], x) \in Marker
    BY <1>1, MergeIs
  <2>3. Relogged(k, l, t, MergeMarkers(k.logOnly[t], x), oldest)
    BY <1>1, <1>5, <2>1, <2>2, RememberLoggedIs
  <2>4. QED
    BY <2>3 DEF RowApplied, x, t
<1>6. QED
  BY <1>2, <1>3, <1>4, <1>5

\* Rows applied keep the maps in shape, and the log's word is known past `oldest` or as it was.
RowsApplied(k, l, oldest) ==
    /\ Shape(l) /\ Moved(k, l) /\ l.tags = k.tags
    /\ \A u \in Tags : l.pending[u] # NoMarker => k.pending[u] # NoMarker \/ reading[u] # "none"
    /\ \A u \in Logged(l) : \/ KnownBy(l.logOnly[u], now) > oldest
                            \/ u \in Logged(k) /\ l.logOnly[u] = k.logOnly[u]

\* One row applied.
LEMMA RowShape ==
    ASSUME NEW k, Shape(k), NEW r \in Revalidations, NEW oldest, NEW l,
           RowApplied(k, l, r, oldest)
    PROVE  RowsApplied(k, l, oldest)
<1> DEFINE t == TagOf[r]
           x == MarkerOf(r)
<1>1. t \in Tags /\ k.pending \in [Tags -> Marker]
  BY KnowledgeIs, TagOfAssumption DEF Shape
<1> HIDE DEF t, x
<1>2. CASE r \in k.applied /\ l = k
  <2>1. Moved(k, k)
    BY MovedStays DEF Shape
  <2>2. QED
    BY <1>2, <2>1 DEF RowsApplied
<1>3. CASE /\ Shape(l) /\ Moved(k, l) /\ l.tags = k.tags
           /\ l.logged = k.logged /\ l.logOnly = k.logOnly
           /\ \/ l.pending = k.pending
              \/ /\ reading[t] # "none"
                 /\ l.pending = [k.pending EXCEPT ![t] = MergeMarkers(k.pending[t], x)]
  <2>1. \A u \in Tags : l.pending[u] # NoMarker => k.pending[u] # NoMarker \/ reading[u] # "none"
    BY <1>1, <1>3
  <2>2. Logged(l) = Logged(k)
    BY <1>3 DEF Logged
  <2>3. QED
    BY <1>3, <2>1, <2>2 DEF RowsApplied
<1>4. CASE Relogged(k, l, t, MergeMarkers(k.logOnly[t], x), oldest)
  BY <1>4 DEF Relogged, RowsApplied
<1>5. QED
  BY <1>2, <1>3, <1>4 DEF RowApplied, t, x

\* And one after the other.
LEMMA RowsAppliedOn ==
    ASSUME NEW k, Shape(k), NEW oldest, NEW l, RowsApplied(k, l, oldest),
           NEW m, RowsApplied(l, m, oldest)
    PROVE  RowsApplied(k, m, oldest)
<1>1. FloorIs(k) /\ FloorIs(l) /\ FloorIs(m) /\ Moved(k, m)
  BY MovedOn DEF Shape, RowsApplied
<1>2. QED
  BY <1>1 DEF RowsApplied

\* A row applied is told, and held or answered for.
LEMMA RowSound ==
    ASSUME now \in Nat, WritesOK(writes, now), NEW k, NEW all, Sound(writes, now, k, all),
           NEW r \in Revalidations, writes[r].row # "unsent", NEW oldest, NEW l,
           RowApplied(k, l, r, oldest)
    PROVE  Sound(writes, now, l, ToldRow(all, r))
<1> DEFINE t == TagOf[r]
           x == MarkerOf(r)
           a == k.marker[t]
           b == k.logOnly[t]
           c == k.pending[t]
<1>1. /\ x = Written(writes, r) /\ x \in Marker /\ Fits(writes, now, t, x) /\ t \in Tags
  BY WrittenType DEF MarkerOf, Written
<1>2. ToldRow(all, r) = [all EXCEPT ![t] = MergeMarkers(@, x)]
  BY DEF ToldRow
<1>3. /\ Shape(k) /\ FloorIs(k) /\ all \in [Tags -> Marker]
      /\ k.marker \in [Tags -> Marker] /\ k.pending \in [Tags -> Marker]
      /\ k.logOnly \in [Tags -> Marker] /\ FitsAt(writes, now, t, k)
  BY <1>1, KnowledgeIs DEF Sound, Shape
<1>4. /\ Fits(writes, now, t, a) /\ Fits(writes, now, t, b) /\ Fits(writes, now, t, c)
      /\ a \in Marker /\ b \in Marker /\ c \in Marker
  BY <1>1, <1>3 DEF FitsAt, Three
<1>5. /\ x.revalidatedAt \in Stamp /\ x.staleAt \in Stamp
      /\ a.revalidatedAt \in Stamp /\ a.staleAt \in Stamp
      /\ b.revalidatedAt \in Stamp /\ b.staleAt \in Stamp
      /\ c.revalidatedAt \in Stamp /\ c.staleAt \in Stamp
  BY <1>1, <1>4 DEF Marker
<1>6. CASE r \in k.applied /\ l = k
  <2> DEFINE y == MergeMarkers(all[t], x)
             heard == ToldRow(all, r)
  <2>1. /\ all[t] \in Marker /\ Fits(writes, now, t, all[t]) /\ Vouches(k, t, all[t])
        /\ Covers(all[t], x)
    BY <1>1, <1>6 DEF Sound, AppliedTold
  <2>2. /\ y \in Marker /\ Fits(writes, now, t, y)
        /\ y.revalidatedAt = all[t].revalidatedAt /\ y.staleAt = all[t].staleAt
    <3>1. all[t].revalidatedAt \in Stamp /\ all[t].staleAt \in Stamp
      BY <2>1 DEF Marker
    <3>2. /\ y \in Marker /\ Fits(writes, now, t, y)
          /\ y.revalidatedAt = Later(all[t].revalidatedAt, x.revalidatedAt)
          /\ y.staleAt = Later(all[t].staleAt, x.staleAt)
      BY <1>1, <2>1, MergeIs, FitsMerge
    <3> HIDE DEF y, x, t
    <3>3. QED
      BY <1>5, <2>1, <3>1, <3>2 DEF Later, Covers
  <2>3. Uniform(t) => y.expiredAt = all[t].expiredAt
    BY <1>1, <2>1, <2>2, PairIs
  <2>4. heard = [all EXCEPT ![t] = y]
    BY <1>2
  <2> HIDE DEF y, heard
  <2>5. Vouches(k, t, y)
    BY <2>1, <2>2, <2>3 DEF Vouches, Stands
  <2>6. /\ heard \in [Tags -> Marker] /\ heard[t] = y /\ \A u \in Tags : u # t => heard[u] = all[u]
    BY <1>1, <1>3, <2>2, <2>4
  <2>7. \A u \in Tags : /\ FitsAt(writes, now, u, k) /\ Fits(writes, now, u, heard[u])
                        /\ Vouches(k, u, heard[u])
    BY <2>2, <2>5, <2>6 DEF Sound
  <2>8. AppliedTold(writes, k, heard)
    <3> SUFFICES ASSUME NEW q \in k.applied
                 PROVE  writes[q].row # "unsent" /\ Covers(heard[TagOf[q]], Written(writes, q))
      BY DEF AppliedTold
    <3>1. /\ writes[q].row # "unsent" /\ Covers(all[TagOf[q]], Written(writes, q))
          /\ q \in Revalidations /\ TagOf[q] \in Tags
      BY <1>3, KnowledgeIs, TagOfAssumption DEF Sound, AppliedTold, Shape
    <3>2. Covers(heard[TagOf[q]], Written(writes, q))
      BY <2>2, <2>6, <3>1 DEF Covers
    <3>3. QED
      BY <3>1, <3>2
  <2>9. QED
    BY <1>3, <1>6, <2>6, <2>7, <2>8 DEF Sound, heard
<1>7. CASE /\ r \notin k.applied /\ l.applied = k.applied \cup {r}
           /\ Shape(l) /\ Moved(k, l) /\ l.tags = k.tags
           /\ l.logged = k.logged /\ l.logOnly = k.logOnly
           /\ \/ /\ l.marker = [k.marker EXCEPT ![t] = MergeMarkers(k.marker[t], x)]
                 /\ l.pending = k.pending
              \/ /\ reading[t] # "none" /\ l.marker = k.marker
                 /\ l.pending = [k.pending EXCEPT ![t] = MergeMarkers(k.pending[t], x)]
  <2> DEFINE p == MergeMarkers(a, x)
             q == MergeMarkers(c, x)
  <2>1. /\ Fits(writes, now, t, p) /\ p.revalidatedAt = Later(a.revalidatedAt, x.revalidatedAt)
        /\ p.staleAt = Later(a.staleAt, x.staleAt)
        /\ Fits(writes, now, t, q) /\ q.revalidatedAt = Later(c.revalidatedAt, x.revalidatedAt)
        /\ q.staleAt = Later(c.staleAt, x.staleAt)
    BY <1>1, <1>4, MergeIs, FitsMerge
  <2>2. \/ l.marker[t] = p /\ l.pending[t] = c /\ l.logOnly[t] = b
        \/ l.marker[t] = a /\ l.pending[t] = q /\ l.logOnly[t] = b
    BY <1>1, <1>3, <1>7
  <2>3. \A u \in Tags \ {t} : KeptAt(k, l, u)
    BY <1>3, <1>7 DEF KeptAt, Kept
  <2>4. FitsAt(writes, now, t, l)
    BY <1>4, <2>1, <2>2 DEF FitsAt, Three
  <2>5. Three(k, t) = {a, b, c}
    BY DEF Three
  <2>6. Three(l, t) = {p, b, c} \/ Three(l, t) = {a, b, q}
    BY <2>2 DEF Three
  <2> HIDE DEF p, q, a, b, c, x, t
  <2>7. /\ a.revalidatedAt <= p.revalidatedAt /\ a.staleAt <= p.staleAt
        /\ x.revalidatedAt <= p.revalidatedAt /\ x.staleAt <= p.staleAt
        /\ c.revalidatedAt <= q.revalidatedAt /\ c.staleAt <= q.staleAt
        /\ x.revalidatedAt <= q.revalidatedAt /\ x.staleAt <= q.staleAt
        /\ p.staleAt \in {a.staleAt, x.staleAt} /\ q.staleAt \in {c.staleAt, x.staleAt}
        /\ a.revalidatedAt <= a.revalidatedAt /\ a.staleAt <= a.staleAt
        /\ b.revalidatedAt <= b.revalidatedAt /\ b.staleAt <= b.staleAt
        /\ c.revalidatedAt <= c.revalidatedAt /\ c.staleAt <= c.staleAt
        /\ x.staleAt <= x.staleAt
    BY <1>5, <2>1 DEF Later
  <2>8. \A d \in {a, b, c} \cup {x} :
           /\ \E e \in Three(l, t) : d.revalidatedAt <= e.revalidatedAt
           /\ \E e \in Three(l, t) : d.staleAt <= e.staleAt
    <3>1. CASE Three(l, t) = {p, b, c}
      BY <3>1, <2>7
    <3>2. CASE Three(l, t) = {a, b, q}
      BY <3>2, <2>7
    <3>3. QED
      BY <2>6, <3>1, <3>2
  <2>9. Stands(l, t, MergeMarkers(Held(k, t), x))
    BY <1>1, <1>3, <2>4, <2>5, <2>8, Learned
  <2>10. \A d \in Three(l, t) : d.staleAt <= Held(k, t).staleAt \/ d.staleAt <= x.staleAt
    <3>1. \A d \in {a, b, c} : d.staleAt <= Held(k, t).staleAt
      BY <1>1, <1>4, HeldIs DEF a, b, c
    <3>2. QED
      BY <2>6, <2>7, <3>1
  <2>11. \A q1 \in l.applied \ k.applied :
            TagOf[q1] = t /\ writes[q1].row # "unsent" /\ Written(writes, q1) = x
    BY <1>1, <1>7 DEF t
  <2>12. Sound(writes, now, l, [all EXCEPT ![t] = MergeMarkers(@, x)])
    BY <1>1, <1>7, <2>3, <2>4, <2>9, <2>10, <2>11, ToldSound
  <2>13. QED
    BY <1>2, <2>12
<1>8. CASE Relogged(k, l, t, MergeMarkers(k.logOnly[t], x), oldest)
  <2> DEFINE m == MergeMarkers(b, x)
             z == MergeMarkers(Held(k, t), x)
  <2>1. /\ Shape(l) /\ FloorIs(l) /\ Moved(k, l) /\ l.marker = k.marker /\ l.pending = k.pending
        /\ l.applied = k.applied /\ Kept(l, m, l.logOnly[t])
        /\ \A u \in Tags \ {t} : Kept(l, k.logOnly[u], l.logOnly[u])
    BY <1>8 DEF Relogged, Shape
  <2>2. /\ Fits(writes, now, t, m) /\ m.revalidatedAt = Later(b.revalidatedAt, x.revalidatedAt)
        /\ m.staleAt = Later(b.staleAt, x.staleAt)
    BY <1>1, <1>4, MergeIs, FitsMerge
  <2>3. \A u \in Tags \ {t} : KeptAt(k, l, u)
    BY <2>1 DEF KeptAt, Kept
  <2>4. /\ l.marker[t] = a /\ l.pending[t] = c
        /\ l.logOnly[t] = m \/ (l.logOnly[t] = NoMarker /\ Frees(l, m))
    BY <2>1 DEF Kept
  <2>5. FitsAt(writes, now, t, l)
    BY <1>1, <1>4, <2>2, <2>4, NoMarkerFits DEF FitsAt, Three
  <2>6. /\ Held(k, t) \in Marker /\ Fits(writes, now, t, Held(k, t))
        /\ \A d \in {a, b, c} : d.staleAt <= Held(k, t).staleAt
        /\ \E d \in {a, b, c} : d.revalidatedAt = Held(k, t).revalidatedAt
        /\ \E d \in {a, b, c} : d.staleAt = Held(k, t).staleAt
    BY <1>1, <1>4, HeldIs
  <2>7. /\ Fits(writes, now, t, z)
        /\ z.revalidatedAt = Later(Held(k, t).revalidatedAt, x.revalidatedAt)
        /\ z.staleAt = Later(Held(k, t).staleAt, x.staleAt)
    BY <1>1, <2>6, MergeIs, FitsMerge
  <2>8. Stands(l, t, a) /\ Stands(l, t, c) /\ Stands(l, t, m)
    <3>1. \A d \in Three(l, t) : Stands(l, t, d)
      BY <1>1, <2>5, StandsHeld DEF FitsAt, Three
    <3>2. a \in Three(l, t) /\ c \in Three(l, t) /\ (m \in Three(l, t) \/ Frees(l, m))
      BY <2>4 DEF Three
    <3>3. QED
      BY <1>1, <3>1, <3>2, StandsFreed
  <2>9. Held(l, t) \in Marker
    BY <1>1, <2>5, HeldIs DEF FitsAt, Three
  <2>10. Three(l, t) \subseteq {a, c, m, NoMarker}
    BY <2>4 DEF Three
  <2> HIDE DEF m, z, a, b, c, x, t
  <2>11. /\ \E d \in {a, c, m} : z.revalidatedAt <= d.revalidatedAt
         /\ \E d \in {a, c, m} : z.staleAt = d.staleAt
    <3>1. /\ Held(k, t).revalidatedAt \in {a.revalidatedAt, b.revalidatedAt, c.revalidatedAt}
          /\ Held(k, t).staleAt \in {a.staleAt, b.staleAt, c.staleAt}
          /\ a.staleAt <= Held(k, t).staleAt /\ b.staleAt <= Held(k, t).staleAt
          /\ c.staleAt <= Held(k, t).staleAt
      BY <2>6
    <3>2. \/ z.revalidatedAt <= a.revalidatedAt \/ z.revalidatedAt <= c.revalidatedAt
          \/ z.revalidatedAt <= m.revalidatedAt
      BY <1>5, <2>2, <2>7, <3>1 DEF Later
    <3>3. z.staleAt \in {a.staleAt, c.staleAt, m.staleAt}
      BY <1>5, <2>2, <2>7, <3>1 DEF Later
    <3>4. QED
      BY <3>2, <3>3
  <2>12. Stands(l, t, z)
    <3>1. \A d \in {a, c, m} : Fits(writes, now, t, d) /\ Stands(l, t, d)
      BY <1>4, <2>2, <2>8
    <3>2. QED
      BY <1>1, <2>1, <2>7, <2>9, <2>11, <3>1, StandsBy
  <2>13. \A d \in Three(l, t) : d.staleAt <= Held(k, t).staleAt \/ d.staleAt <= x.staleAt
    <3>1. m.staleAt <= Held(k, t).staleAt \/ m.staleAt <= x.staleAt
      BY <1>5, <2>2, <2>6 DEF Later
    <3>2. NoMarker.staleAt <= x.staleAt
      BY <1>5, NoMarkerIs
    <3>3. QED
      BY <2>6, <2>10, <3>1, <3>2
  <2>14. Sound(writes, now, l, [all EXCEPT ![t] = MergeMarkers(@, x)])
    <3>1. Stands(l, t, MergeMarkers(Held(k, t), x))
      BY <2>12 DEF z
    <3>2. l.applied \ k.applied = {}
      BY <2>1
    <3>3. QED
      BY <1>1, <2>1, <2>3, <2>5, <2>13, <3>1, <3>2, ToldSound
  <2>15. QED
    BY <1>2, <2>14
<1>9. QED
  BY <1>6, <1>7, <1>8 DEF RowApplied

\* ApplyAll, row by row.
LEMMA ApplyAllSteps ==
    ASSUME now \in Nat, NEW k, Shape(k), NEW rows \in Seq(Revalidations), NEW oldest \in Int,
           \A i \in DOMAIN rows : MarkerOf(rows[i]) \in Marker
    PROVE  \E h : /\ h[0] = k /\ ApplyAll(k, rows, oldest) = h[Len(rows)]
                 /\ \A n \in 1 .. Len(rows) : h[n] = ApplyRow(h[n - 1], rows[n], oldest)
<1> DEFINE N == Len(rows)
           K == {x \in Knowledge : Shape(x)}
           step == [n \in 1 .. N |-> [x \in K |-> ApplyRow(x, rows[n], oldest)]]
<1>1. k \in K /\ N \in Nat /\ \A n \in 1 .. N : rows[n] \in Revalidations
  BY DEF Shape
<1>2. ASSUME NEW n \in 1 .. N, NEW x \in K PROVE ApplyRow(x, rows[n], oldest) \in K
  <2>1. Shape(x) /\ rows[n] \in Revalidations /\ MarkerOf(rows[n]) \in Marker
    BY <1>1
  <2>2. RowsApplied(x, ApplyRow(x, rows[n], oldest), oldest)
    BY <2>1, RowAppliedIs, RowShape
  <2>3. QED
    BY <2>2 DEF RowsApplied, Shape
<1> HIDE DEF K, N
<1>3. step \in Steps(N, K)
  BY <1>2 DEF Steps
<1>4. PICK f \in [0 .. N -> K] : f[0] = k /\ \A n \in 1 .. N : f[n] = step[n][f[n - 1]]
  <2> HIDE DEF step
  <2>1. PICK f \in [0 .. N -> K] : Follows(f, N, k, step)
    BY <1>1, <1>3, Recursion
  <2>2. QED
    BY <2>1 DEF Follows
<1>5. \A n \in 1 .. N : f[n] = ApplyRow(f[n - 1], rows[n], oldest)
  <2> SUFFICES ASSUME NEW n \in 1 .. N PROVE f[n] = ApplyRow(f[n - 1], rows[n], oldest)
    OBVIOUS
  <2>1. n \in 0 .. N /\ n # 0 /\ n - 1 \in 0 .. N
    BY <1>1
  <2>2. f[n] = step[n][f[n - 1]] /\ f[n - 1] \in K
    BY <1>4, <2>1
  <2>3. QED
    BY <2>2
<1> DEFINE P(h) == h = [n \in 0 .. Len(rows) |->
                           IF n = 0 THEN k ELSE ApplyRow(h[n - 1], rows[n], oldest)]
<1>6. P(f)
  <2>1. ASSUME NEW n \in 0 .. N PROVE f[n] = IF n = 0 THEN k ELSE ApplyRow(f[n - 1], rows[n], oldest)
    <3>1. n = 0 \/ n \in 1 .. N
      BY <1>1
    <3>2. QED
      BY <3>1, <1>4, <1>5
  <2> HIDE DEF step
  <2>2. f = [n \in 0 .. N |-> f[n]]
    BY <1>4
  <2>3. f = [n \in 0 .. N |-> IF n = 0 THEN k ELSE ApplyRow(f[n - 1], rows[n], oldest)]
    BY <2>1, <2>2, Zenon
  <2>4. QED
    BY <2>3, Zenon DEF N
<1>7. PICK h : P(h) /\ ApplyAll(k, rows, oldest) = h[N]
  <2>1. ApplyAll(k, rows, oldest) = (CHOOSE h : P(h))[N]
    BY Zenon DEF ApplyAll, N
  <2> HIDE DEF P
  <2>2. P(CHOOSE h : P(h))
    BY <1>6
  <2>3. QED
    BY <2>1, <2>2
<1>8. h[0] = k /\ \A n \in 1 .. N : h[n] = ApplyRow(h[n - 1], rows[n], oldest)
  <2>1. ASSUME NEW n \in 0 .. N PROVE h[n] = IF n = 0 THEN k ELSE ApplyRow(h[n - 1], rows[n], oldest)
    <3>1. n \in 0 .. Len(rows)
      BY DEF N
    <3>2. QED
      BY <3>1, <1>7
  <2>2. 0 \in 0 .. N /\ \A n \in 1 .. N : n \in 0 .. N /\ n # 0
    BY <1>1
  <2> HIDE DEF P
  <2>3. QED
    BY <2>1, <2>2
<1> HIDE DEF P, step
<1>9. QED
  BY <1>7, <1>8 DEF N

\* ToldAll, row by row.
LEMMA ToldAllSteps ==
    ASSUME NEW all \in [Tags -> Marker], NEW rows \in Seq(Revalidations),
           \A i \in DOMAIN rows : MarkerOf(rows[i]) \in Marker
    PROVE  \E h : /\ h[0] = all /\ ToldAll(all, rows) = h[Len(rows)]
                 /\ \A n \in 1 .. Len(rows) : h[n] = ToldRow(h[n - 1], rows[n])
<1> DEFINE N == Len(rows)
           K == [Tags -> Marker]
           step == [n \in 1 .. N |-> [x \in K |-> ToldRow(x, rows[n])]]
<1>1. all \in K /\ N \in Nat /\ \A n \in 1 .. N : rows[n] \in Revalidations
  OBVIOUS
<1>2. ASSUME NEW n \in 1 .. N, NEW x \in K PROVE ToldRow(x, rows[n]) \in K
  <2>1. TagOf[rows[n]] \in Tags /\ MarkerOf(rows[n]) \in Marker /\ x \in [Tags -> Marker]
    BY <1>1, TagOfAssumption
  <2>2. MergeMarkers(x[TagOf[rows[n]]], MarkerOf(rows[n])) \in Marker
    BY <2>1, MergeIs
  <2>3. QED
    BY <2>1, <2>2 DEF ToldRow
<1> HIDE DEF K, N
<1>3. step \in Steps(N, K)
  BY <1>2 DEF Steps
<1>4. PICK f \in [0 .. N -> K] : f[0] = all /\ \A n \in 1 .. N : f[n] = step[n][f[n - 1]]
  <2> HIDE DEF step
  <2>1. PICK f \in [0 .. N -> K] : Follows(f, N, all, step)
    BY <1>1, <1>3, Recursion
  <2>2. QED
    BY <2>1 DEF Follows
<1>5. \A n \in 1 .. N : f[n] = ToldRow(f[n - 1], rows[n])
  <2> SUFFICES ASSUME NEW n \in 1 .. N PROVE f[n] = ToldRow(f[n - 1], rows[n])
    OBVIOUS
  <2>1. n \in 0 .. N /\ n # 0 /\ n - 1 \in 0 .. N
    BY <1>1
  <2>2. f[n] = step[n][f[n - 1]] /\ f[n - 1] \in K
    BY <1>4, <2>1
  <2>3. QED
    BY <2>2
<1> DEFINE P(h) == h = [n \in 0 .. Len(rows) |->
                           IF n = 0 THEN all ELSE ToldRow(h[n - 1], rows[n])]
<1>6. P(f)
  <2>1. ASSUME NEW n \in 0 .. N PROVE f[n] = IF n = 0 THEN all ELSE ToldRow(f[n - 1], rows[n])
    <3>1. n = 0 \/ n \in 1 .. N
      BY <1>1
    <3>2. QED
      BY <3>1, <1>4, <1>5
  <2> HIDE DEF step
  <2>2. f = [n \in 0 .. N |-> f[n]]
    BY <1>4
  <2>3. f = [n \in 0 .. N |-> IF n = 0 THEN all ELSE ToldRow(f[n - 1], rows[n])]
    BY <2>1, <2>2, Zenon
  <2>4. QED
    BY <2>3, Zenon DEF N
<1>7. PICK h : P(h) /\ ToldAll(all, rows) = h[N]
  <2>1. ToldAll(all, rows) = (CHOOSE h : P(h))[N]
    BY Zenon DEF ToldAll, N
  <2> HIDE DEF P
  <2>2. P(CHOOSE h : P(h))
    BY <1>6
  <2>3. QED
    BY <2>1, <2>2
<1>8. h[0] = all /\ \A n \in 1 .. N : h[n] = ToldRow(h[n - 1], rows[n])
  <2>1. ASSUME NEW n \in 0 .. N PROVE h[n] = IF n = 0 THEN all ELSE ToldRow(h[n - 1], rows[n])
    <3>1. n \in 0 .. Len(rows)
      BY DEF N
    <3>2. QED
      BY <3>1, <1>7
  <2>2. 0 \in 0 .. N /\ \A n \in 1 .. N : n \in 0 .. N /\ n # 0
    BY <1>1
  <2> HIDE DEF P
  <2>3. QED
    BY <2>1, <2>2
<1> HIDE DEF P, step
<1>9. QED
  BY <1>7, <1>8 DEF N

\* A query's rows, applied one after the other, are told and held or answered for.
LEMMA AllSound ==
    ASSUME now \in Nat, WritesOK(writes, now), NEW k, NEW all, Sound(writes, now, k, all),
           NEW rows \in Seq(Revalidations), NEW oldest \in Int,
           \A i \in DOMAIN rows : writes[rows[i]].row # "unsent"
    PROVE  /\ Sound(writes, now, ApplyAll(k, rows, oldest), ToldAll(all, rows))
           /\ RowsApplied(k, ApplyAll(k, rows, oldest), oldest)
<1> DEFINE N == Len(rows)
<1>1. /\ N \in Nat /\ Shape(k) /\ all \in [Tags -> Marker]
      /\ \A n \in 1 .. N : rows[n] \in Revalidations /\ writes[rows[n]].row # "unsent"
  BY DEF Sound
<1>2. \A n \in 1 .. N : MarkerOf(rows[n]) \in Marker
  BY <1>1, WrittenType DEF MarkerOf, Written
<1>3. PICK h : /\ h[0] = k /\ ApplyAll(k, rows, oldest) = h[N]
               /\ \A n \in 1 .. N : h[n] = ApplyRow(h[n - 1], rows[n], oldest)
  BY <1>1, <1>2, ApplyAllSteps
<1>4. PICK g : /\ g[0] = all /\ ToldAll(all, rows) = g[N]
               /\ \A n \in 1 .. N : g[n] = ToldRow(g[n - 1], rows[n])
  BY <1>1, <1>2, ToldAllSteps
<1> HIDE DEF N
<1> DEFINE Done(n) == Sound(writes, now, h[n], g[n]) /\ RowsApplied(k, h[n], oldest)
           S == {n \in 0 .. N : Done(n)}
<1>5. 0 \in S
  <2>1. Moved(k, k)
    BY <1>1, MovedStays DEF Shape
  <2>2. RowsApplied(k, k, oldest)
    BY <1>1, <2>1 DEF RowsApplied
  <2>3. QED
    BY <1>1, <1>3, <1>4, <2>2
<1>6. ASSUME NEW n \in 1 .. N, n - 1 \in S PROVE n \in S
  <2> DEFINE x == h[n - 1]
             y == h[n]
  <2>1. /\ Sound(writes, now, x, g[n - 1]) /\ RowsApplied(k, x, oldest) /\ n \in 0 .. N
        /\ y = ApplyRow(x, rows[n], oldest) /\ g[n] = ToldRow(g[n - 1], rows[n])
    BY <1>1, <1>3, <1>4, <1>6
  <2> HIDE DEF x, y
  <2>2. Shape(x)
    BY <2>1 DEF Sound
  <2>3. RowApplied(x, y, rows[n], oldest)
    BY <1>1, <1>2, <2>1, <2>2, RowAppliedIs
  <2>4. RowsApplied(k, y, oldest)
    BY <1>1, <2>1, <2>2, <2>3, RowShape, RowsAppliedOn
  <2>5. Sound(writes, now, y, g[n])
    BY <1>1, <2>1, <2>3, RowSound
  <2>6. QED
    BY <2>1, <2>4, <2>5 DEF y
<1>7. N \in S
  <2> HIDE DEF S
  <2>1. \A n \in 0 .. N : n \in S
    BY <1>1, <1>5, <1>6, StepByStep
  <2>2. QED
    BY <1>1, <2>1
<1>8. QED
  BY <1>3, <1>4, <1>7
--------------------------------------------------------------------------------
(* The inductive invariant. *)

\* Writes and table fit together; what the instance was told it holds or answers
\* for (Sound); and the refresh's variables agree with what is known.
IInv ==
    /\ now \in Nat /\ WritesOK(writes, now) /\ TableOK(writes, now, table, versions)
    /\ Sound(writes, now, known, told)
    /\ reading \in [Tags -> Reads] /\ PendingRead(known, reading)
    /\ cursor \in Int /\ lastLogRead \in Nat /\ refreshing \in Stamp
    /\ prunedAgainst \in Int /\ NotKnownBy(known, now, prunedAgainst)

\* A step keeps the invariant, and what was let go of stays so.
Onward ==
    /\ IInv' /\ Moved(known, known')
    /\ now \in Nat /\ now' \in Nat /\ now <= now'

\* Of the revalidations run, where they stand and what they wrote stays.
Further(ws, vs) ==
    \A r \in Revalidations :
       ws[r].row # "unsent" => /\ vs[r].row # "unsent" /\ vs[r].at = ws[r].at
                               /\ vs[r].durations = ws[r].durations

\* What is made of revalidations up to `n` is of those up to a later time.
LEMMA FitsLater ==
    ASSUME NEW n \in Nat, NEW o \in Nat, n <= o, NEW ws, NEW vs, Further(ws, vs),
           NEW t \in Tags, NEW m, Fits(ws, n, t, m)
    PROVE  Fits(vs, o, t, m)
<1>1. /\ m \in Marker /\ m.revalidatedAt <= o /\ m.staleAt <= o
  BY DEF Fits, Marker
<1>2. Paired(ws, t, m) => Paired(vs, t, m)
  BY DEF Paired, Further, Written
<1>3. QED
  BY <1>1, <1>2 DEF Fits

\* Time, and writes that go on, leave what is known sound.
LEMMA SoundLater ==
    ASSUME NEW n \in Nat, NEW o \in Nat, n <= o, NEW ws, NEW vs, Further(ws, vs),
           NEW k, NEW all, Sound(ws, n, k, all)
    PROVE  Sound(vs, o, k, all)
<1>1. \A t \in Tags : FitsAt(vs, o, t, k) /\ Fits(vs, o, t, all[t])
  BY FitsLater DEF Sound, FitsAt
<1>2. AppliedTold(vs, k, all)
  <2>1. k.applied \subseteq Revalidations
    BY KnowledgeIs DEF Sound, Shape
  <2>2. QED
    BY <2>1 DEF Sound, AppliedTold, Further, Written
<1>3. QED
  BY <1>1, <1>2 DEF Sound

\* And the table.
LEMMA TableLater ==
    ASSUME NEW n \in Nat, NEW o \in Nat, n <= o, NEW ws, NEW vs, Further(ws, vs),
           NEW rows, NEW old, TableOK(ws, n, rows, old)
    PROVE  TableOK(vs, o, rows, old)
BY FitsLater DEF TableOK

\* And the writes.
LEMMA WritesLater ==
    ASSUME NEW n \in Nat, NEW o \in Nat, n <= o, NEW ws, WritesOK(ws, n)
    PROVE  WritesOK(ws, o)
<1>1. \A r \in Revalidations : Fits(ws, o, TagOf[r], ws[r].left)
  <2>1. Further(ws, ws)
    BY DEF Further
  <2>2. \A r \in Revalidations : TagOf[r] \in Tags
    BY TagOfAssumption
  <2>3. QED
    BY <2>1, <2>2, FitsLater DEF WritesOK
<1>2. \A r \in Revalidations : ws[r].at \in 0 .. n => ws[r].at \in 0 .. o
  OBVIOUS
<1>3. QED
  BY <1>1, <1>2 DEF WritesOK

--------------------------------------------------------------------------------
(* Each action keeps the invariant. *)

LEMMA TickStep == ASSUME IInv, Tick PROVE Onward
<1>1. /\ now \in Nat /\ now' = now + 1 /\ writes' = writes /\ table' = table
      /\ versions' = versions /\ known' = known /\ told' = told /\ reading' = reading
      /\ cursor' = cursor /\ lastLogRead' = lastLogRead /\ refreshing' = refreshing
      /\ prunedAgainst' = prunedAgainst
  BY DEF IInv, Tick, tableVars, refreshVars
<1>2. now' \in Nat /\ now <= now' /\ Further(writes, writes)
  BY <1>1 DEF Further
<1>3. /\ WritesOK(writes, now') /\ TableOK(writes, now', table, versions)
      /\ Sound(writes, now', known, told)
  BY <1>1, <1>2, WritesLater, TableLater, SoundLater DEF IInv
<1>4. NotKnownBy(known, now', prunedAgainst)
  <2>1. \A t \in Logged(known) : known.logOnly[t] \in Marker
    BY KnowledgeIs DEF IInv, Sound, Shape, Logged
  <2>2. \A t \in Logged(known) : /\ KnownBy(known.logOnly[t], now) <= KnownBy(known.logOnly[t], now')
                                 /\ KnownBy(known.logOnly[t], now) \in Int
                                 /\ KnownBy(known.logOnly[t], now') \in Int
    BY <1>1, <1>2, <2>1, KnownByGrows, KnownByIs
  <2>3. QED
    BY <2>2 DEF IInv, NotKnownBy
<1>5. Moved(known, known')
  BY <1>1, MovedStays DEF IInv, Sound, Shape
<1>6. QED
  BY <1>1, <1>2, <1>3, <1>4, <1>5 DEF IInv, Onward

\* set of a marker that covers the one before and the one told.
LEMMA SetSound ==
    ASSUME now \in Nat, NEW ws, WritesOK(ws, now), NEW k, NEW all, Sound(ws, now, k, all),
           NEW t \in Tags, NEW x, Fits(ws, now, t, x), NEW m, Fits(ws, now, t, m),
           Covers(m, k.marker[t]), Covers(m, x), m.staleAt \in {k.marker[t].staleAt, x.staleAt}
    PROVE  LET l == Set(k, t, m)
           IN  /\ Sound(ws, now, l, [all EXCEPT ![t] = MergeMarkers(@, x)])
               /\ Moved(k, l) /\ l.pending = k.pending
               /\ \A u \in Logged(l) : u \in Logged(k) /\ l.logOnly[u] = k.logOnly[u]
<1> DEFINE a == k.marker[t]
           b == k.logOnly[t]
           c == k.pending[t]
           p == MergeMarkers(m, b)
           l == Set(k, t, m)
<1>1. /\ Shape(k) /\ m \in Marker /\ x \in Marker /\ k.logOnly \in [Tags -> Marker]
      /\ Logged(k) \subseteq Tags
  BY KnowledgeIs DEF Sound, Shape, Fits, Logged
<1>2. /\ Fits(ws, now, t, a) /\ Fits(ws, now, t, b) /\ Fits(ws, now, t, c)
  BY DEF Sound, FitsAt, Three
<1>3. /\ a.revalidatedAt \in Stamp /\ a.staleAt \in Stamp
      /\ b.revalidatedAt \in Stamp /\ b.staleAt \in Stamp
      /\ c.revalidatedAt \in Stamp /\ c.staleAt \in Stamp
      /\ m.revalidatedAt \in Stamp /\ m.staleAt \in Stamp
      /\ x.revalidatedAt \in Stamp /\ x.staleAt \in Stamp
  BY <1>1, <1>2 DEF Fits, Marker
<1>4. /\ Shape(l) /\ Moved(k, l) /\ Logged(l) = Logged(k) \ {t}
      /\ l.logOnly = [k.logOnly EXCEPT ![t] = NoMarker]
      /\ l.pending = k.pending /\ l.applied = k.applied /\ l.marker[t] = p
      /\ \A u \in Tags \ {t} : Kept(l, k.marker[u], l.marker[u])
  BY <1>1, SetIs
<1>5. /\ Fits(ws, now, t, p) /\ p.revalidatedAt = Later(m.revalidatedAt, b.revalidatedAt)
      /\ p.staleAt = Later(m.staleAt, b.staleAt)
  BY <1>1, <1>2, MergeIs, FitsMerge DEF Fits
<1>6. Three(k, t) = {a, b, c} /\ Three(l, t) = {p, NoMarker, c}
  BY <1>1, <1>4 DEF Three
<1>7. Covers(m, a)
  OBVIOUS
<1>8. m.staleAt \in {a.staleAt, x.staleAt}
  OBVIOUS
<1>9. \A u \in Tags \ {t} : KeptAt(k, l, u)
  BY <1>1, <1>4 DEF KeptAt, Kept
<1>10. \A d \in {a, b, c} : d.staleAt <= Held(k, t).staleAt
  BY <1>2, HeldIs
<1>11. \A u \in Logged(l) : u \in Logged(k) /\ l.logOnly[u] = k.logOnly[u]
  BY <1>1, <1>4
<1> HIDE DEF a, b, c, p, l
<1>12. FitsAt(ws, now, t, l)
  BY <1>2, <1>5, <1>6, NoMarkerFits DEF FitsAt
<1>13. /\ a.revalidatedAt <= p.revalidatedAt /\ a.staleAt <= p.staleAt
       /\ b.revalidatedAt <= p.revalidatedAt /\ b.staleAt <= p.staleAt
       /\ x.revalidatedAt <= p.revalidatedAt /\ x.staleAt <= p.staleAt
       /\ c.revalidatedAt <= c.revalidatedAt /\ c.staleAt <= c.staleAt
       /\ p.staleAt <= a.staleAt \/ p.staleAt <= b.staleAt \/ p.staleAt <= x.staleAt
  BY <1>3, <1>5, <1>7, <1>8 DEF Later, Covers
<1>14. Stands(l, t, MergeMarkers(Held(k, t), x))
  <2>1. \A d \in Three(k, t) \cup {x} :
           /\ \E e \in Three(l, t) : d.revalidatedAt <= e.revalidatedAt
           /\ \E e \in Three(l, t) : d.staleAt <= e.staleAt
    BY <1>6, <1>13
  <2>2. FitsAt(ws, now, t, k)
    BY DEF Sound
  <2>3. QED
    BY <1>12, <2>1, <2>2, Learned
<1>15. \A d \in Three(l, t) : d.staleAt <= Held(k, t).staleAt \/ d.staleAt <= x.staleAt
  <2>1. /\ Held(k, t).staleAt \in Stamp
    BY <1>2, HeldIs DEF a, b, c, Marker
  <2>2. p.staleAt <= Held(k, t).staleAt \/ p.staleAt <= x.staleAt
    BY <1>3, <1>5, <1>10, <1>13, <2>1 DEF Later
  <2>3. QED
    BY <1>3, <1>6, <1>10, <2>2, NoMarkerIs
<1>16. l.applied \ k.applied = {}
  BY <1>4
<1>17. Sound(ws, now, l, [all EXCEPT ![t] = MergeMarkers(@, x)])
  BY <1>4, <1>9, <1>12, <1>14, <1>15, <1>16, ToldSound
<1>18. QED
  BY <1>4, <1>11, <1>17 DEF l

\* takePendingRows takes the log's word and the rows that waited, of `t` alone.
LEMMA TakePendingIs ==
    ASSUME NEW k, Shape(k), NEW t \in Tags
    PROVE  LET l == TakePendingRows(k, t)
           IN  /\ Shape(l) /\ Moved(k, l) /\ Logged(l) = Logged(k) \ {t}
               /\ l.marker = k.marker /\ l.applied = k.applied
               /\ l.logOnly = [k.logOnly EXCEPT ![t] = NoMarker]
               /\ l.pending = [k.pending EXCEPT ![t] = NoMarker]
<1> DEFINE j == Unlog(k, t)
           l == TakePendingRows(k, t)
           pending == [k.pending EXCEPT ![t] = NoMarker]
<1>1. /\ Shape(j) /\ Moved(k, j) /\ Logged(j) = Logged(k) \ {t}
      /\ j.marker = k.marker /\ j.applied = k.applied /\ j.pending = k.pending
      /\ j.logOnly = [k.logOnly EXCEPT ![t] = NoMarker]
  BY UnlogIs
<1>2. k.pending \in [Tags -> Marker] /\ k \in Knowledge /\ FloorIs(k) /\ j \in Knowledge /\ FloorIs(j)
  BY <1>1, KnowledgeIs DEF Shape
<1>3. l = [j EXCEPT !.pending = [j.pending EXCEPT ![t] = NoMarker]]
  BY DEF TakePendingRows
<1> HIDE DEF j
<1>4. l = [j EXCEPT !.pending = pending]
  BY <1>1, <1>3
<1>5. pending \in [Tags -> Marker]
  BY <1>2, NoMarkerIs
<1> DEFINE y == l
<1>6. y = [j EXCEPT !.pending = pending]
  BY <1>4
<1> HIDE DEF y, pending
<1>7. y \in Knowledge
  BY <1>2, <1>5, <1>6 DEF Knowledge
<1>8. /\ y.tags = j.tags /\ y.marker = j.marker /\ y.logged = j.logged /\ y.logOnly = j.logOnly
      /\ y.applied = j.applied /\ y.pending = pending /\ y.floor = j.floor /\ y.later = j.later
  BY <1>2, <1>6 DEF Knowledge
<1>9. Shape(y) /\ FloorIs(y) /\ Moved(j, y)
  BY <1>1, <1>7, <1>8, ShapeStays
<1>10. Moved(k, y)
  BY <1>1, <1>2, <1>9, MovedOn
<1>11. Logged(y) = Logged(j)
  BY <1>8 DEF Logged
<1>12. QED
  BY <1>1, <1>8, <1>9, <1>10, <1>11 DEF y, pending

\* What is known once a read ends, and what the instance was told with `x`.
AfterRead(k, t, m, unread) == [Remember(TakePendingRows(k, t), t, m) EXCEPT !.unread = unread]
Heard(all, t, x) == [all EXCEPT ![t] = MergeMarkers(@, x)]

\* A read ends: `t` is tracked with what was known of it and what was found.
LEMMA ReadSound ==
    ASSUME now \in Nat, NEW ws, WritesOK(ws, now), NEW k, NEW all, Sound(ws, now, k, all),
           NEW t \in Tags, NEW x, Fits(ws, now, t, x), NEW m, Fits(ws, now, t, m),
           Covers(m, k.marker[t]), Covers(m, PendingRows(k, t)), Covers(m, x),
           m.staleAt \in {k.marker[t].staleAt, PendingRows(k, t).staleAt, x.staleAt},
           NEW unread \in SUBSET Tags
    PROVE  LET l == AfterRead(k, t, m, unread)
           IN  /\ Sound(ws, now, l, Heard(all, t, x)) /\ Moved(k, l)
               /\ l.pending = [k.pending EXCEPT ![t] = NoMarker]
               /\ \A u \in Logged(l) : u \in Logged(k) /\ l.logOnly[u] = k.logOnly[u]
<1> DEFINE a == k.marker[t]
           b == k.logOnly[t]
           c == k.pending[t]
           p == PendingRows(k, t)
           i == TakePendingRows(k, t)
           j == Remember(i, t, m)
           l == [j EXCEPT !.unread = unread]
<1>1. /\ Shape(k) /\ FloorIs(k) /\ m \in Marker /\ x \in Marker
      /\ k.logOnly \in [Tags -> Marker] /\ k.pending \in [Tags -> Marker]
      /\ Logged(k) \subseteq Tags
  BY KnowledgeIs DEF Sound, Shape, Fits, Logged
<1>2. /\ Fits(ws, now, t, a) /\ Fits(ws, now, t, b) /\ Fits(ws, now, t, c)
  BY DEF Sound, FitsAt, Three
<1>3. /\ a.revalidatedAt \in Stamp /\ a.staleAt \in Stamp
      /\ b.revalidatedAt \in Stamp /\ b.staleAt \in Stamp
      /\ c.revalidatedAt \in Stamp /\ c.staleAt \in Stamp
      /\ m.revalidatedAt \in Stamp /\ m.staleAt \in Stamp
      /\ x.revalidatedAt \in Stamp /\ x.staleAt \in Stamp
  BY <1>1, <1>2 DEF Fits, Marker
<1>4. p.revalidatedAt = Later(b.revalidatedAt, c.revalidatedAt)
      /\ p.staleAt = Later(b.staleAt, c.staleAt)
  BY <1>2, MergeIs DEF Fits, PendingRows
<1>5. /\ Shape(i) /\ Moved(k, i) /\ Logged(i) = Logged(k) \ {t}
      /\ i.marker = k.marker /\ i.applied = k.applied
      /\ i.logOnly = [k.logOnly EXCEPT ![t] = NoMarker]
      /\ i.pending = [k.pending EXCEPT ![t] = NoMarker]
  BY <1>1, TakePendingIs
<1> HIDE DEF i
<1>6. /\ Shape(j) /\ Moved(i, j) /\ j.logged = i.logged /\ j.logOnly = i.logOnly
      /\ j.pending = i.pending /\ j.applied = i.applied /\ j.marker[t] = m
      /\ \A u \in Tags \ {t} : Kept(j, k.marker[u], j.marker[u])
  <2>1. t \notin Logged(i)
    BY <1>5
  <2>2. Remembered(i, j, t, m)
    BY <1>1, <1>5, <2>1, RememberIs
  <2>3. QED
    BY <1>5, <2>2 DEF Remembered, Kept
<1> DEFINE y == l
<1>7. y = [j EXCEPT !.unread = unread]
  OBVIOUS
<1> HIDE DEF j, y
<1>8. y \in Knowledge /\ j \in Knowledge /\ FloorIs(i) /\ FloorIs(j)
  <2>1. j \in Knowledge /\ FloorIs(i) /\ FloorIs(j)
    BY <1>5, <1>6 DEF Shape
  <2>2. y \in Knowledge
    BY <1>7, <2>1 DEF Knowledge
  <2>3. QED
    BY <2>1, <2>2
<1>9. /\ y.tags = j.tags /\ y.marker = j.marker /\ y.logged = j.logged /\ y.logOnly = j.logOnly
      /\ y.applied = j.applied /\ y.pending = j.pending /\ y.floor = j.floor /\ y.later = j.later
  BY <1>7, <1>8 DEF Knowledge
<1>10. Shape(y) /\ FloorIs(y) /\ Moved(j, y)
  BY <1>6, <1>8, <1>9, ShapeStays
<1>11. Moved(k, y)
  BY <1>1, <1>5, <1>6, <1>8, <1>10, MovedOn
<1>12. Logged(y) = Logged(k) \ {t}
  BY <1>5, <1>6, <1>9 DEF Logged
<1>13. \A u \in Tags \ {t} : KeptAt(k, y, u)
  <2>1. \A u \in Tags \ {t} : Kept(y, k.marker[u], y.marker[u])
    BY <1>6, <1>9 DEF Kept, Frees, LetGo
  <2>2. \A u \in Tags \ {t} : y.logOnly[u] = k.logOnly[u] /\ y.pending[u] = k.pending[u]
    BY <1>1, <1>5, <1>6, <1>9
  <2>3. QED
    BY <2>1, <2>2 DEF KeptAt, Kept
<1>14. Three(k, t) = {a, b, c} /\ Three(y, t) = {m, NoMarker}
  BY <1>1, <1>5, <1>6, <1>9 DEF Three
<1>15. FitsAt(ws, now, t, y)
  BY <1>14, NoMarkerFits DEF FitsAt
<1>16. \A d \in {a, b, c} : d.staleAt <= Held(k, t).staleAt
  BY <1>2, HeldIs
<1>17. Covers(m, a) /\ Covers(m, p) /\ m.staleAt \in {a.staleAt, p.staleAt, x.staleAt}
  OBVIOUS
<1> HIDE DEF a, b, c, p
<1>18. /\ a.revalidatedAt <= m.revalidatedAt /\ a.staleAt <= m.staleAt
       /\ b.revalidatedAt <= m.revalidatedAt /\ b.staleAt <= m.staleAt
       /\ c.revalidatedAt <= m.revalidatedAt /\ c.staleAt <= m.staleAt
       /\ x.revalidatedAt <= m.revalidatedAt /\ x.staleAt <= m.staleAt
       /\ m.staleAt \in {a.staleAt, b.staleAt, c.staleAt, x.staleAt}
  BY <1>3, <1>4, <1>17 DEF Later, Covers
<1>19. Stands(y, t, MergeMarkers(Held(k, t), x))
  <2>1. \A d \in Three(k, t) \cup {x} :
           /\ \E e \in Three(y, t) : d.revalidatedAt <= e.revalidatedAt
           /\ \E e \in Three(y, t) : d.staleAt <= e.staleAt
    BY <1>14, <1>18
  <2>2. FitsAt(ws, now, t, k)
    BY DEF Sound
  <2>3. QED
    BY <1>15, <2>1, <2>2, Learned
<1>20. \A d \in Three(y, t) : d.staleAt <= Held(k, t).staleAt \/ d.staleAt <= x.staleAt
  <2>1. m.staleAt <= Held(k, t).staleAt \/ m.staleAt <= x.staleAt
    BY <1>3, <1>16, <1>18
  <2>2. NoMarker.staleAt <= x.staleAt
    BY <1>3, NoMarkerIs
  <2>3. QED
    BY <1>14, <2>1, <2>2
<1>21. y.applied \ k.applied = {}
  BY <1>5, <1>6, <1>9
<1>22. Sound(ws, now, y, [all EXCEPT ![t] = MergeMarkers(@, x)])
  BY <1>10, <1>11, <1>13, <1>15, <1>19, <1>20, <1>21, ToldSound
<1>23. \A u \in Logged(y) : u \in Logged(k) /\ y.logOnly[u] = k.logOnly[u]
  BY <1>1, <1>5, <1>6, <1>9, <1>12
<1>24. y.pending = [k.pending EXCEPT ![t] = NoMarker]
  BY <1>5, <1>6, <1>9
<1>25. QED
  BY <1>11, <1>22, <1>23, <1>24 DEF y, j, i, AfterRead, Heard

\* A step of the instance, with the table and the clock as they were.
LEMMA InstanceStep ==
    ASSUME IInv, now' = now, UNCHANGED tableVars,
           Sound(writes, now, known', told'), Moved(known, known'),
           reading' \in [Tags -> Reads], PendingRead(known', reading'),
           cursor' \in Int, lastLogRead' \in Nat, refreshing' \in Stamp,
           prunedAgainst' \in Int, NotKnownBy(known', now, prunedAgainst')
    PROVE  Onward
BY DEF IInv, Onward, tableVars

\* A step of the table that leaves what is known alone.
LEMMA TableStepIs ==
    ASSUME IInv, Further(writes, writes'), WritesOK(writes', now),
           TableOK(writes', now, table', versions'),
           UNCHANGED <<now, known, reading, refreshVars, told>>
    PROVE  Onward
<1>1. now \in Nat /\ Sound(writes, now, known, told)
  BY DEF IInv
<1>2. Sound(writes', now, known, told)
  BY <1>1, SoundLater
<1>3. Moved(known, known)
  BY <1>1, MovedStays DEF Sound, Shape
<1>4. QED
  BY <1>2, <1>3 DEF IInv, Onward, refreshVars

\* Where the writes stand once `r` is run, and once its row landed or was answered.
Run(ws, r, n, d) == [ws EXCEPT ![r] = [@ EXCEPT !.at = n, !.durations = d, !.row = "sent"]]

\* A revalidation starts: its stamp is the last of its tag.
LEMMA RunWrites ==
    ASSUME NEW n \in Nat, NEW ws, WritesOK(ws, n), NEW r \in Revalidations,
           ws[r].row = "unsent", NEW durations \in Profiles[r],
           \A s \in Revalidations : TagOf[s] = TagOf[r] => ws[s].at < n
    PROVE  LET vs == Run(ws, r, n, durations)
           IN  WritesOK(vs, n) /\ Further(ws, vs) /\ Written(vs, r) = MarkerFor(n, durations)
               /\ vs[r].row # "unsent"
<1> DEFINE w == [ws[r] EXCEPT !.at = n, !.durations = durations, !.row = "sent"]
           vs == Run(ws, r, n, durations)
<1>1. ws \in [Revalidations -> Write] /\ durations \in Durations
  BY ProfilesAssumption DEF WritesOK
<1>2. ws[r] \in Write
  BY <1>1
<1>3. /\ w \in Write /\ w.at = n /\ w.durations = durations /\ w.row = "sent"
      /\ w.left = ws[r].left /\ w.logAt = ws[r].logAt
  BY <1>1, <1>2 DEF Write
<1> HIDE DEF w
<1>20. vs = [ws EXCEPT ![r] = w]
  BY DEF Run, w
<1> HIDE DEF vs
<1>4. vs \in [Revalidations -> Write] /\ vs[r] = w /\ \A s \in Revalidations \ {r} : vs[s] = ws[s]
  BY <1>1, <1>3, <1>20
<1>5. Further(ws, vs)
  BY <1>4 DEF Further
<1>6. \A s \in Revalidations : Fits(vs, n, TagOf[s], vs[s].left)
  <2>1. \A s \in Revalidations : vs[s].left = ws[s].left
    BY <1>3, <1>4
  <2>2. \A s \in Revalidations : TagOf[s] \in Tags /\ Fits(ws, n, TagOf[s], ws[s].left)
    BY TagOfAssumption DEF WritesOK
  <2>3. QED
    BY <1>5, <2>1, <2>2, FitsLater
<1>7. \A s \in Revalidations :
          \/ /\ vs[s].row = "unsent" /\ vs[s].at = Absent /\ vs[s].logAt = Absent
          \/ /\ vs[s].row # "unsent" /\ vs[s].at \in 0 .. n
             /\ vs[s].durations \in Profiles[s]
  BY <1>3, <1>4 DEF WritesOK
<1>8. \A q, s \in Revalidations :
          TagOf[q] = TagOf[s] /\ vs[q].row # "unsent" /\ vs[q].at = vs[s].at => q = s
  <2>1. \A s \in Revalidations \ {r} : TagOf[s] = TagOf[r] => vs[s].at # n
    BY <1>1, <1>4 DEF Write
  <2>2. QED
    BY <1>3, <1>4, <2>1 DEF WritesOK
<1>9. Written(vs, r) = MarkerFor(n, durations) /\ vs[r].row # "unsent"
  BY <1>3, <1>4 DEF Written
<1>10. QED
  BY <1>4, <1>5, <1>6, <1>7, <1>8, <1>9 DEF WritesOK, vs

LEMMA RevalidateStep ==
    ASSUME IInv, NEW r \in Revalidations, NEW durations \in Profiles[r], Revalidate(r, durations)
    PROVE  Onward
<1> DEFINE t == TagOf[r]
           x == MarkerFor(now, durations)
           m == ApplyMarker(known.marker[t], x)
<1>1. now \in Nat /\ t \in Tags /\ WritesOK(writes, now)
  BY TagOfAssumption DEF IInv
<1>2. /\ WritesOK(writes', now) /\ Further(writes, writes') /\ Written(writes', r) = x
      /\ writes'[r].row # "unsent"
  <2>1. /\ writes[r].row = "unsent" /\ \A s \in Revalidations : TagOf[s] = TagOf[r] => writes[s].at < now
        /\ writes' = Run(writes, r, now, durations)
    BY DEF Revalidate, Run
  <2>2. QED
    BY <1>1, <2>1, RunWrites
<1>3. /\ TableOK(writes', now, table, versions) /\ Sound(writes', now, known, told)
  BY <1>1, <1>2, TableLater, SoundLater DEF IInv
<1>4. Fits(writes', now, t, x)
  BY <1>1, <1>2, WrittenType
<1>5. CASE r \in Own
  <2>1. Fits(writes', now, t, known.marker[t])
    BY <1>1, <1>3 DEF Sound, FitsAt, Three
  <2>2. Fits(writes', now, t, m)
    BY <1>1, <1>2, <1>4, <2>1, FitsMerge
  <2>3. x.revalidatedAt \in {-1, now} /\ x.staleAt \in {-1, now}
    BY DEF MarkerFor, NoMarker
  <2>4. /\ known.marker[t].revalidatedAt \in Stamp /\ known.marker[t].revalidatedAt <= now
        /\ known.marker[t].staleAt \in Stamp /\ known.marker[t].staleAt <= now
    BY <2>1 DEF Fits, Marker
  <2>5. Covers(m, known.marker[t]) /\ Covers(m, x) /\ m.staleAt \in {known.marker[t].staleAt, x.staleAt}
    <3> HIDE DEF x
    <3>1. QED
      BY <1>1, <2>3, <2>4 DEF Covers, ApplyMarker, Overwrite
  <2>6. /\ known' = Set(known, t, m) /\ told' = [told EXCEPT ![t] = MergeMarkers(@, x)]
        /\ now' = now /\ UNCHANGED <<table, versions, reading, refreshVars>>
    BY <1>5 DEF Revalidate
  <2> HIDE DEF x, m
  <2>7. /\ Sound(writes', now, known', told') /\ Moved(known, known')
        /\ known'.pending = known.pending
        /\ \A u \in Logged(known') : u \in Logged(known) /\ known'.logOnly[u] = known.logOnly[u]
    <3> DEFINE l == Set(known, t, m)
    <3>1. /\ Sound(writes', now, l, [told EXCEPT ![t] = MergeMarkers(@, x)])
          /\ Moved(known, l) /\ l.pending = known.pending
          /\ \A u \in Logged(l) : u \in Logged(known) /\ l.logOnly[u] = known.logOnly[u]
      BY <1>1, <1>2, <1>3, <1>4, <2>2, <2>5, SetSound
    <3>2. QED
      BY <2>6, <3>1
  <2>8. PendingRead(known', reading) /\ NotKnownBy(known', now, prunedAgainst)
    BY <2>7 DEF IInv, PendingRead, NotKnownBy
  <2>9. QED
    BY <1>1, <1>2, <1>3, <2>6, <2>7, <2>8 DEF IInv, Onward, refreshVars
<1>6. CASE r \notin Own
  <2>1. UNCHANGED <<now, table, versions, known, reading, refreshVars, told>>
    BY <1>6 DEF Revalidate
  <2>2. QED
    BY <1>2, <1>3, <2>1, TableStepIs
<1>7. QED
  BY <1>5, <1>6
Landed(ws, r, row, left) == [ws EXCEPT ![r].row = row, ![r].left = left]

\* A row lands: the table has the revalidation, and its write waits for the answer.
LEMMA LandedWrites ==
    ASSUME NEW n \in Nat, NEW ws, WritesOK(ws, n), NEW r \in Revalidations,
           ws[r].row # "unsent", NEW row \in {"landed", "answered"},
           NEW left, Fits(ws, n, TagOf[r], left),
           NEW vs, vs = Landed(ws, r, row, left)
    PROVE  WritesOK(vs, n) /\ Further(ws, vs)
<1>1. ws \in [Revalidations -> Write] /\ left \in Marker /\ ws[r] \in Write
  BY DEF WritesOK, Fits
<1>2. /\ vs[r] = [ws[r] EXCEPT !.row = row, !.left = left]
      /\ vs = [ws EXCEPT ![r] = vs[r]] /\ \A s \in Revalidations \ {r} : vs[s] = ws[s]
  BY <1>1 DEF Landed
<1>3. /\ vs[r] \in Write /\ vs[r].at = ws[r].at /\ vs[r].durations = ws[r].durations
      /\ vs[r].row = row /\ vs[r].left = left /\ vs[r].logAt = ws[r].logAt
  BY <1>1, <1>2 DEF Write
<1>4. vs \in [Revalidations -> Write]
  BY <1>1, <1>2, <1>3
<1>5. Further(ws, vs)
  BY <1>2, <1>3 DEF Further
<1>6. \A s \in Revalidations : Fits(vs, n, TagOf[s], vs[s].left)
  <2>1. \A s \in Revalidations : TagOf[s] \in Tags /\ Fits(ws, n, TagOf[s], ws[s].left)
    BY TagOfAssumption DEF WritesOK
  <2>2. \A s \in Revalidations : vs[s].left = IF s = r THEN left ELSE ws[s].left
    BY <1>2, <1>3
  <2>3. \A s \in Revalidations : Fits(ws, n, TagOf[s], vs[s].left)
    BY <2>1, <2>2
  <2>4. QED
    BY <1>5, <2>1, <2>3, FitsLater
<1>7. \A s \in Revalidations : /\ vs[s].at = ws[s].at /\ vs[s].logAt = ws[s].logAt
                               /\ vs[s].durations = ws[s].durations
                               /\ (vs[s].row = "unsent" <=> ws[s].row = "unsent")
  BY <1>2, <1>3
<1>8. \A s \in Revalidations :
          \/ /\ vs[s].row = "unsent" /\ vs[s].at = Absent /\ vs[s].logAt = Absent
          \/ /\ vs[s].row # "unsent" /\ vs[s].at \in 0 .. n
             /\ vs[s].durations \in Profiles[s]
  BY <1>7 DEF WritesOK
<1>9. \A q, s \in Revalidations :
          TagOf[q] = TagOf[s] /\ vs[q].row # "unsent" /\ vs[q].at = vs[s].at => q = s
  BY <1>7 DEF WritesOK
<1>10. QED
  BY <1>4, <1>5, <1>6, <1>8, <1>9 DEF WritesOK

LEMMA LandRowStep ==
    ASSUME IInv, NEW r \in Revalidations, LandRow(r)
    PROVE  Onward
<1> DEFINE t == TagOf[r]
           m == ApplyMarker(table[t], Written(writes, r))
           left == IF r \in Own THEN m ELSE writes[r].left
<1>1. now \in Nat /\ t \in Tags /\ WritesOK(writes, now) /\ TableOK(writes, now, table, versions)
  BY TagOfAssumption DEF IInv
<1>2. writes[r].row = "sent" /\ table \in [Tags -> Marker] /\ versions \in [Tags -> SUBSET Marker]
  BY <1>1 DEF LandRow, TableOK
<1>3. Fits(writes, now, t, m)
  <2>1. Fits(writes, now, t, Written(writes, r)) /\ Fits(writes, now, t, table[t])
    BY <1>1, <1>2, WrittenType DEF TableOK
  <2>2. QED
    BY <1>1, <2>1, FitsMerge
<1>4. m \in Marker /\ Fits(writes, now, t, left)
  BY <1>1, <1>3 DEF Fits, WritesOK
<1>5. /\ table' = [table EXCEPT ![t] = m] /\ table'[t] = m
      /\ versions' = [versions EXCEPT ![t] = @ \cup {m}]
      /\ writes' = Landed(writes, r, "landed", left)
      /\ UNCHANGED <<now, known, reading, refreshVars, told>>
  <2>1. table' = [table EXCEPT ![t] = m]
    BY DEF LandRow, MarkerOf, Written
  <2>2. table'[t] = m
    BY <1>1, <1>2, <2>1
  <2>3. versions' = [versions EXCEPT ![t] = @ \cup {m}]
    BY <2>2 DEF LandRow
  <2>4. writes' = [writes EXCEPT ![r].row = "landed",
                                 ![r].left = IF r \in Own THEN table'[t] ELSE @]
        /\ UNCHANGED <<now, known, reading, refreshVars, told>>
    BY DEF LandRow
  <2>5. writes \in [Revalidations -> Write]
    BY <1>1 DEF WritesOK
  <2>6. QED
    BY <2>1, <2>2, <2>3, <2>4, <2>5 DEF Write, Landed
<1> HIDE DEF m, left
<1>6. WritesOK(writes', now) /\ Further(writes, writes')
  BY <1>1, <1>2, <1>4, <1>5, LandedWrites
<1>7. TableOK(writes', now, table', versions')
  <2>1. /\ table' \in [Tags -> Marker] /\ versions' \in [Tags -> SUBSET Marker]
        /\ \A u \in Tags : table'[u] \in {table[u], m} /\ (u # t => table'[u] = table[u])
        /\ \A u \in Tags : versions'[u] \subseteq versions[u] \cup {m}
                           /\ (u # t => versions'[u] = versions[u])
    BY <1>1, <1>2, <1>4, <1>5
  <2>2. TableOK(writes, now, table', versions')
    BY <1>1, <1>3, <2>1 DEF TableOK
  <2>3. QED
    BY <1>1, <1>6, <2>2, TableLater
<1>8. QED
  BY <1>5, <1>6, <1>7, TableStepIs

LEMMA LandLogRowStep ==
    ASSUME IInv, NEW r \in Revalidations, LandLogRow(r)
    PROVE  Onward
<1>1. now \in Nat /\ WritesOK(writes, now) /\ TableOK(writes, now, table, versions)
  BY DEF IInv
<1>2. /\ writes[r].row # "unsent" /\ writes' = [writes EXCEPT ![r] = [@ EXCEPT !.logAt = now]]
      /\ UNCHANGED <<now, table, versions, known, reading, refreshVars, told>>
  BY DEF LandLogRow
<1>3. writes \in [Revalidations -> Write] /\ writes[r] \in Write
  BY <1>1 DEF WritesOK
<1>4. /\ writes'[r] = [writes[r] EXCEPT !.logAt = now] /\ writes' = [writes EXCEPT ![r] = writes'[r]]
      /\ \A s \in Revalidations \ {r} : writes'[s] = writes[s]
  BY <1>2, <1>3
<1>5. /\ writes'[r] \in Write /\ writes'[r].at = writes[r].at /\ writes'[r].row = writes[r].row
      /\ writes'[r].durations = writes[r].durations /\ writes'[r].left = writes[r].left
  BY <1>1, <1>3, <1>4 DEF Write
<1>6. /\ writes' \in [Revalidations -> Write]
      /\ \A s \in Revalidations : /\ writes'[s].at = writes[s].at /\ writes'[s].row = writes[s].row
                                  /\ writes'[s].durations = writes[s].durations
                                  /\ writes'[s].left = writes[s].left
                                  /\ writes[s].row = "unsent" => writes'[s].logAt = writes[s].logAt
  BY <1>2, <1>3, <1>4, <1>5
<1>7. Further(writes, writes')
  BY <1>6 DEF Further
<1>8. \A s \in Revalidations : Fits(writes', now, TagOf[s], writes'[s].left)
  <2>1. \A s \in Revalidations : TagOf[s] \in Tags /\ Fits(writes, now, TagOf[s], writes'[s].left)
    BY <1>1, <1>6, TagOfAssumption DEF WritesOK
  <2>2. QED
    BY <1>1, <1>7, <2>1, FitsLater
<1>9. WritesOK(writes', now)
  BY <1>1, <1>6, <1>8 DEF WritesOK
<1>10. TableOK(writes', now, table', versions')
  BY <1>1, <1>2, <1>7, TableLater
<1>11. QED
  BY <1>2, <1>7, <1>9, <1>10, TableStepIs

LEMMA ReplicateStep ==
    ASSUME IInv, NEW t \in Tags, Replicate(t)
    PROVE  Onward
<1>1. /\ versions' = [versions EXCEPT ![t] = {table[t]}]
      /\ UNCHANGED <<now, writes, table, known, reading, refreshVars, told>>
  BY DEF Replicate
<1>2. TableOK(writes', now, table', versions')
  BY <1>1 DEF IInv, TableOK
<1>3. Further(writes, writes') /\ WritesOK(writes', now)
  BY <1>1 DEF IInv, Further
<1>4. QED
  BY <1>1, <1>2, <1>3, TableStepIs

\* What a write's answer says is what its row left.
LEMMA AnswerRowStep ==
    ASSUME IInv, NEW r \in Revalidations, AnswerRow(r)
    PROVE  Onward
<1> DEFINE t == TagOf[r]
           x == writes[r].left
           a == known.marker[t]
           m == MergeMarkers(a, x)
           l == Set(known, t, m)
<1>1. now \in Nat /\ t \in Tags /\ WritesOK(writes, now) /\ TableOK(writes, now, table, versions)
      /\ Sound(writes, now, known, told) /\ writes[r].row = "landed"
  BY TagOfAssumption DEF IInv, AnswerRow
<1>2. Fits(writes, now, t, x) /\ Fits(writes, now, t, a) /\ Fits(writes, now, t, m)
  <2>1. Fits(writes, now, t, x) /\ Fits(writes, now, t, a)
    BY <1>1 DEF WritesOK, Sound, FitsAt, Three
  <2>2. QED
    BY <1>1, <2>1, FitsMerge
<1>3. Covers(m, a) /\ Covers(m, x) /\ m.staleAt \in {a.staleAt, x.staleAt}
  <2>1. a \in Marker /\ x \in Marker
    BY <1>2 DEF Fits
  <2>2. m.revalidatedAt = Later(a.revalidatedAt, x.revalidatedAt) /\ m.staleAt = Later(a.staleAt, x.staleAt)
    BY <2>1, MergeIs
  <2>3. /\ a.revalidatedAt \in Stamp /\ a.staleAt \in Stamp
        /\ x.revalidatedAt \in Stamp /\ x.staleAt \in Stamp
    BY <2>1 DEF Marker
  <2> HIDE DEF a, x, m
  <2>4. QED
    BY <2>2, <2>3 DEF Covers, Later
<1>4. /\ known' = l /\ told' = [told EXCEPT ![t] = MergeMarkers(@, x)]
      /\ writes' = [writes EXCEPT ![r] = [@ EXCEPT !.row = "answered", !.left = NoMarker]]
      /\ UNCHANGED <<now, table, versions, reading, refreshVars>>
  BY DEF AnswerRow
<1>5. writes' = Landed(writes, r, "answered", NoMarker)
  BY <1>1, <1>4 DEF WritesOK, Landed
<1> HIDE DEF x, m
<1>6. /\ Sound(writes, now, l, [told EXCEPT ![t] = MergeMarkers(@, x)])
      /\ Moved(known, l) /\ l.pending = known.pending
      /\ \A u \in Logged(l) : u \in Logged(known) /\ l.logOnly[u] = known.logOnly[u]
  BY <1>1, <1>2, <1>3, SetSound
<1> HIDE DEF l
<1>7. WritesOK(writes', now) /\ Further(writes, writes')
  <2>1. Fits(writes, now, t, NoMarker)
    BY <1>1, NoMarkerFits
  <2>2. QED
    BY <1>1, <1>5, <2>1, LandedWrites
<1>8. Sound(writes', now, known', told')
  BY <1>1, <1>4, <1>6, <1>7, SoundLater
<1>9. TableOK(writes', now, table', versions')
  BY <1>1, <1>4, <1>7, TableLater
<1>10. PendingRead(known', reading) /\ NotKnownBy(known', now, prunedAgainst)
  BY <1>4, <1>6 DEF IInv, PendingRead, NotKnownBy
<1>11. QED
  BY <1>1, <1>4, <1>6, <1>7, <1>8, <1>9, <1>10 DEF IInv, Onward, refreshVars

\* A step that lets go of some of what was known, and is told nothing.
LEMMA LettingGoStep ==
    ASSUME IInv, now' = now, UNCHANGED tableVars, told' = told,
           Shape(known'), Moved(known, known'), known'.applied \subseteq known.applied,
           \A t \in Tags : KeptAt(known, known', t), known'.pending = known.pending,
           reading' \in [Tags -> Reads], \A t \in Tags : reading[t] # "none" => reading'[t] # "none",
           cursor' \in Int, lastLogRead' \in Nat, refreshing' \in Stamp,
           prunedAgainst' \in Int, NotKnownBy(known', now, prunedAgainst')
    PROVE  Onward
<1>1. Sound(writes, now, known', told')
  BY KeptSound DEF IInv
<1>2. PendingRead(known', reading')
  BY DEF IInv, PendingRead
<1>3. QED
  BY <1>1, <1>2, InstanceStep

LEMMA UseStep == ASSUME IInv, NEW t \in Tags, Use(t) PROVE Onward
<1>1. Shape(known) /\ now \in Nat /\ known.marker \in [Tags -> Marker]
  BY KnowledgeIs DEF IInv, Sound, Shape
<1> DEFINE l == Remember(known, t, known.marker[t])
<1>2. /\ t \in Tracked(known) /\ known' = l
      /\ UNCHANGED <<now, tableVars, reading, refreshVars, told>>
  BY DEF Use, Touch
<1>3. t \notin Logged(known)
  BY <1>1, <1>2 DEF Shape
<1>4. Remembered(known, l, t, known.marker[t])
  BY <1>1, <1>3, RememberIs
<1> HIDE DEF l
<1>5. /\ Shape(l) /\ Moved(known, l) /\ l.applied = known.applied /\ l.pending = known.pending
      /\ Logged(l) = Logged(known) /\ l.logOnly = known.logOnly
      /\ \A u \in Tags : KeptAt(known, l, u)
  BY <1>4 DEF Remembered, KeptAt, Kept, Logged
<1>6. NotKnownBy(l, now, prunedAgainst)
  BY <1>5 DEF IInv, NotKnownBy
<1>7. /\ reading' \in [Tags -> Reads] /\ cursor' \in Int /\ lastLogRead' \in Nat
      /\ refreshing' \in Stamp /\ prunedAgainst' \in Int /\ prunedAgainst' = prunedAgainst
  BY <1>2 DEF IInv, refreshVars
<1>8. QED
  BY <1>2, <1>5, <1>6, <1>7, LettingGoStep

\* A read in flight that starts, or starts over, and a refresh change nothing known.
LEMMA ReadingStep ==
    ASSUME IInv, UNCHANGED <<now, tableVars, known, cursor, lastLogRead, prunedAgainst, told>>,
           reading' \in [Tags -> Reads], \A t \in Tags : reading[t] # "none" => reading'[t] # "none",
           refreshing' \in Stamp
    PROVE  Onward
<1>1. Sound(writes, now, known', told') /\ Moved(known, known')
  BY MovedStays DEF IInv, Sound, Shape
<1>2. PendingRead(known', reading') /\ NotKnownBy(known', now, prunedAgainst')
  BY DEF IInv, PendingRead, NotKnownBy
<1>3. QED
  BY <1>1, <1>2, InstanceStep DEF IInv

LEMMA EnsureStep == ASSUME IInv, NEW t \in Tags, Ensure(t) \/ ReadAgain(t) PROVE Onward
<1>1. \E read \in {"first", "again"} : reading' = [reading EXCEPT ![t] = read]
  BY DEF Ensure, ReadAgain
<1>2. reading' \in [Tags -> Reads] /\ \A u \in Tags : reading[u] # "none" => reading'[u] # "none"
  BY <1>1 DEF IInv, Reads
<1>3. UNCHANGED <<now, tableVars, known, cursor, lastLogRead, prunedAgainst, told>>
      /\ refreshing' \in Stamp
  BY DEF IInv, Ensure, ReadAgain, refreshVars
<1>4. QED
  BY <1>2, <1>3, ReadingStep

LEMMA RefreshBegins == ASSUME IInv, Refresh PROVE Onward
<1>1. reading' \in [Tags -> Reads] /\ \A u \in Tags : reading[u] # "none" => reading'[u] # "none"
  BY DEF IInv, Refresh, Reads
<1>2. UNCHANGED <<now, tableVars, known, cursor, lastLogRead, prunedAgainst, told>>
      /\ refreshing' \in Stamp
  BY DEF IInv, Refresh
<1>3. QED
  BY <1>1, <1>2, ReadingStep

LEMMA FailQueryStep == ASSUME IInv, FailQuery PROVE Onward
<1>1. UNCHANGED <<now, tableVars, known, reading, cursor, lastLogRead, prunedAgainst, told>>
      /\ refreshing' = Absent
  BY DEF FailQuery
<1>2. QED
  BY <1>1, ReadingStep DEF IInv

LEMMA ForgetStep ==
    ASSUME IInv, NEW at \in Nat, Forget(at), UNCHANGED <<now, tableVars, prunedAgainst, told>>
    PROVE  Onward
<1> DEFINE l == Forgotten(known)
<1>1. Shape(known) /\ now \in Nat
  BY DEF IInv, Sound
<1>2. /\ Shape(l) /\ Moved(known, l) /\ l.applied = {} /\ Logged(l) = {}
      /\ l.pending = known.pending /\ \A u \in Tags : KeptAt(known, l, u)
  BY <1>1, ForgottenIs
<1> HIDE DEF l
<1>3. known' = l /\ cursor' = at - Lookback /\ lastLogRead' = at /\ refreshing' = Absent
  BY DEF Forget, l
<1>4. reading' \in [Tags -> Reads] /\ \A u \in Tags : reading[u] # "none" => reading'[u] # "none"
  BY DEF IInv, Forget, Reads
<1>5. NotKnownBy(known', now, prunedAgainst')
  BY <1>2, <1>3 DEF NotKnownBy
<1>6. /\ cursor' \in Int /\ lastLogRead' \in Nat /\ refreshing' \in Stamp /\ prunedAgainst' \in Int
  BY <1>3, TimesAssumption DEF IInv
<1>7. known'.applied \subseteq known.applied
  BY <1>2, <1>3
<1>8. QED
  BY <1>2, <1>3, <1>4, <1>5, <1>6, <1>7, LettingGoStep

LEMMA AskStep == ASSUME IInv, AskCompleteSince PROVE Onward
<1> DEFINE l == PassedFloors(known)
<1>1. Shape(known) /\ now \in Nat
  BY DEF IInv, Sound
<1>2. Shape(l) /\ Moved(known, l) /\ MapsAsWere(known, l)
  BY <1>1, PassedFloorsIs
<1> HIDE DEF l
<1>3. known' = l /\ UNCHANGED <<now, tableVars, reading, refreshVars, told>>
  BY DEF AskCompleteSince, l
<1>4. /\ l.applied = known.applied /\ l.pending = known.pending
      /\ Logged(l) = Logged(known) /\ l.logOnly = known.logOnly
      /\ \A u \in Tags : KeptAt(known, l, u)
  BY <1>2 DEF MapsAsWere, KeptAt, Kept, Logged
<1>5. NotKnownBy(l, now, prunedAgainst)
  BY <1>4 DEF IInv, NotKnownBy
<1>6. /\ reading' \in [Tags -> Reads] /\ cursor' \in Int /\ lastLogRead' \in Nat
      /\ refreshing' \in Stamp /\ prunedAgainst' \in Int /\ prunedAgainst' = prunedAgainst
  BY <1>3 DEF IInv, refreshVars
<1>7. QED
  BY <1>2, <1>3, <1>4, <1>5, <1>6, LettingGoStep

\* What is known of a tag once a read of it found `x`, by what it was known as.
LEMMA ReadMerged ==
    ASSUME now \in Nat, WritesOK(writes, now), NEW k, NEW all, Sound(writes, now, k, all),
           NEW t \in Tags, NEW x, Fits(writes, now, t, x), NEW m,
           m = MergeMarkers(MergeMarkers(k.marker[t], x), PendingRows(k, t))
    PROVE  /\ Fits(writes, now, t, m)
           /\ Covers(m, k.marker[t]) /\ Covers(m, PendingRows(k, t)) /\ Covers(m, x)
           /\ m.staleAt \in {k.marker[t].staleAt, PendingRows(k, t).staleAt, x.staleAt}
<1> DEFINE a == k.marker[t]
           p == PendingRows(k, t)
           b == MergeMarkers(a, x)
<1>1. Fits(writes, now, t, a) /\ Fits(writes, now, t, p)
  <2>1. /\ Fits(writes, now, t, a) /\ Fits(writes, now, t, k.logOnly[t])
        /\ Fits(writes, now, t, k.pending[t])
    BY DEF Sound, FitsAt, Three
  <2>2. QED
    BY <2>1, FitsMerge DEF PendingRows
<1>2. Fits(writes, now, t, b) /\ Fits(writes, now, t, m)
  <2>1. Fits(writes, now, t, b)
    BY <1>1, FitsMerge
  <2> HIDE DEF a, p, b
  <2>2. m = MergeMarkers(b, p)
    BY DEF a, p, b
  <2>3. QED
    BY <1>1, <2>1, <2>2, FitsMerge
<1>3. Covers(m, a) /\ Covers(m, p) /\ Covers(m, x) /\ m.staleAt \in {a.staleAt, p.staleAt, x.staleAt}
  <2>1. a \in Marker /\ x \in Marker /\ p \in Marker /\ b \in Marker
    BY <1>1, <1>2 DEF Fits
  <2>2. b.revalidatedAt = Later(a.revalidatedAt, x.revalidatedAt) /\ b.staleAt = Later(a.staleAt, x.staleAt)
    BY <2>1, MergeIs
  <2> HIDE DEF a, p, b
  <2>3. m = MergeMarkers(b, p)
    BY DEF a, p, b
  <2>4. m.revalidatedAt = Later(b.revalidatedAt, p.revalidatedAt) /\ m.staleAt = Later(b.staleAt, p.staleAt)
    BY <2>1, <2>3, MergeIs
  <2>5. /\ a.revalidatedAt \in Stamp /\ a.staleAt \in Stamp
        /\ p.revalidatedAt \in Stamp /\ p.staleAt \in Stamp
        /\ x.revalidatedAt \in Stamp /\ x.staleAt \in Stamp
    BY <2>1 DEF Marker
  <2>6. QED
    BY <2>2, <2>4, <2>5 DEF Covers, Later
<1>4. QED
  BY <1>2, <1>3

\* What is in the table when it is read is told; a failed read tells nothing.
LEMMA ReadEnds ==
    ASSUME IInv, NEW t \in Tags, NEW x, Fits(writes, now, t, x), NEW m,
           m = MergeMarkers(MergeMarkers(known.marker[t], x), PendingRows(known, t)),
           NEW unread \in SUBSET Tags,
           known' = AfterRead(known, t, m, unread), told' = Heard(told, t, x),
           reading' = [reading EXCEPT ![t] = "none"],
           UNCHANGED <<now, tableVars, refreshVars>>
    PROVE  Onward
<1> DEFINE l == AfterRead(known, t, m, unread)
<1>1. now \in Nat /\ WritesOK(writes, now) /\ Sound(writes, now, known, told)
  BY DEF IInv
<1>2. /\ Fits(writes, now, t, m) /\ Covers(m, known.marker[t])
      /\ Covers(m, PendingRows(known, t)) /\ Covers(m, x)
      /\ m.staleAt \in {known.marker[t].staleAt, PendingRows(known, t).staleAt, x.staleAt}
  BY <1>1, ReadMerged
<1>3. /\ Sound(writes, now, l, Heard(told, t, x)) /\ Moved(known, l)
      /\ l.pending = [known.pending EXCEPT ![t] = NoMarker]
      /\ \A u \in Logged(l) : u \in Logged(known) /\ l.logOnly[u] = known.logOnly[u]
  BY <1>1, <1>2, ReadSound
<1>4. known' = l
  OBVIOUS
<1> HIDE DEF l
<1>5. PendingRead(l, reading')
  <2>1. known.pending \in [Tags -> Marker] /\ reading \in [Tags -> Reads]
    BY KnowledgeIs DEF IInv, Sound, Shape
  <2>2. \A u \in Tags : IF u = t THEN l.pending[u] = NoMarker
                        ELSE l.pending[u] = known.pending[u] /\ reading'[u] = reading[u]
    BY <1>3, <2>1
  <2>3. QED
    BY <2>2 DEF IInv, PendingRead
<1>6. NotKnownBy(l, now, prunedAgainst)
  BY <1>3 DEF IInv, NotKnownBy
<1>7. /\ reading' \in [Tags -> Reads] /\ cursor' \in Int /\ lastLogRead' \in Nat
      /\ refreshing' \in Stamp /\ prunedAgainst' \in Int /\ prunedAgainst' = prunedAgainst
  BY DEF IInv, refreshVars, Reads
<1>8. Sound(writes, now, known', told') /\ Moved(known, known')
  BY <1>3, <1>4
<1>9. PendingRead(known', reading') /\ NotKnownBy(known', now, prunedAgainst')
  BY <1>4, <1>5, <1>6, <1>7
<1>10. now' = now /\ UNCHANGED tableVars
  OBVIOUS
<1>11. QED
  BY <1>7, <1>8, <1>9, <1>10, InstanceStep

\* The tags whose read failed are tags.
LEMMA UnreadIs ==
    ASSUME now \in Nat, NEW k, Shape(k), NEW t \in Tags, NEW m \in Marker
    PROVE  Remember(TakePendingRows(k, t), t, m).unread \subseteq Tags
<1> DEFINE i == TakePendingRows(k, t)
           j == Remember(i, t, m)
<1>1. Shape(i) /\ Logged(i) = Logged(k) \ {t}
  BY TakePendingIs
<1> HIDE DEF i
<1>2. Remembered(i, j, t, m)
  <2>1. t \notin Logged(i)
    BY <1>1
  <2>2. QED
    BY <1>1, <2>1, RememberIs
<1> HIDE DEF j
<1>3. j.unread \subseteq Tags
  BY <1>2, KnowledgeIs DEF Remembered, Shape
<1>4. QED
  BY <1>3 DEF i, j

LEMMA ResumeReadStep == ASSUME IInv, NEW t \in Tags, ResumeRead(t) PROVE Onward
<1>1. now \in Nat /\ TableOK(writes, now, table, versions) /\ WritesOK(writes, now)
      /\ Sound(writes, now, known, told) /\ Shape(known)
  BY DEF IInv, Sound
<1>2. PICK x \in versions[t] :
         /\ known' = [Remember(TakePendingRows(known, t), t,
                               MergeMarkers(MergeMarkers(known.marker[t], x),
                                            PendingRows(known, t)))
                         EXCEPT !.unread = @ \ {t}]
         /\ told' = [told EXCEPT ![t] = MergeMarkers(@, x)]
  BY DEF ResumeRead
<1>3. reading' = [reading EXCEPT ![t] = "none"] /\ UNCHANGED <<now, tableVars, refreshVars>>
  BY DEF ResumeRead
<1> DEFINE m == MergeMarkers(MergeMarkers(known.marker[t], x), PendingRows(known, t))
           j == Remember(TakePendingRows(known, t), t, m)
           unread == j.unread \ {t}
<1>4. Fits(writes, now, t, x)
  BY <1>1 DEF TableOK
<1>5. known' = AfterRead(known, t, m, unread) /\ told' = Heard(told, t, x)
  BY <1>2 DEF AfterRead, Heard
<1>6. m \in Marker
  <2> HIDE DEF m
  <2>1. m = MergeMarkers(MergeMarkers(known.marker[t], x), PendingRows(known, t))
    BY DEF m
  <2>2. QED
    BY <1>1, <1>4, <2>1, ReadMerged DEF Fits
<1>7. m = MergeMarkers(MergeMarkers(known.marker[t], x), PendingRows(known, t))
  OBVIOUS
<1> HIDE DEF m
<1>8. unread \in SUBSET Tags
  BY <1>1, <1>6, UnreadIs
<1> HIDE DEF j, unread
<1>9. QED
  BY <1>3, <1>4, <1>5, <1>7, <1>8, ReadEnds

LEMMA FailReadStep == ASSUME IInv, NEW t \in Tags, FailRead(t) PROVE Onward
<1>1. now \in Nat /\ WritesOK(writes, now) /\ Sound(writes, now, known, told) /\ Shape(known)
      /\ known.marker[t] \in Marker /\ told[t] \in Marker /\ told \in [Tags -> Marker]
  BY KnowledgeIs DEF IInv, Sound, Shape
<1> DEFINE x == NoMarker
           m == MergeMarkers(MergeMarkers(known.marker[t], x), PendingRows(known, t))
           j == Remember(TakePendingRows(known, t), t, m)
           unread == j.unread \cup {t}
<1>2. m = MergeMarkers(known.marker[t], PendingRows(known, t))
  BY <1>1, MergeNone
<1>3. /\ known' = [Remember(TakePendingRows(known, t), t,
                            MergeMarkers(known.marker[t], PendingRows(known, t)))
                      EXCEPT !.unread = @ \cup {t}]
      /\ told' = told
  BY DEF FailRead
<1>4. Fits(writes, now, t, x)
  BY <1>1, NoMarkerFits
<1>5. m \in Marker
  <2> HIDE DEF m
  <2>1. m = MergeMarkers(MergeMarkers(known.marker[t], x), PendingRows(known, t))
    BY DEF m
  <2>2. QED
    BY <1>1, <1>4, <2>1, ReadMerged DEF Fits
<1>6. m = MergeMarkers(MergeMarkers(known.marker[t], x), PendingRows(known, t))
  OBVIOUS
<1> HIDE DEF m
<1>7. known' = AfterRead(known, t, m, unread)
  BY <1>2, <1>3 DEF AfterRead
<1>8. told' = Heard(told, t, x)
  <2>1. MergeMarkers(told[t], x) = told[t]
    BY <1>1, MergeNone
  <2>2. [told EXCEPT ![t] = MergeMarkers(@, x)] = told
    BY <1>1, <2>1
  <2>3. QED
    BY <1>3, <2>2 DEF Heard
<1>9. unread \in SUBSET Tags
  BY <1>1, <1>5, UnreadIs
<1>10. reading' = [reading EXCEPT ![t] = "none"] /\ UNCHANGED <<now, tableVars, refreshVars>>
  BY DEF FailRead
<1> HIDE DEF x, j, unread
<1>11. QED
  BY <1>10, <1>4, <1>6, <1>7, <1>8, <1>9, ReadEnds

\* What a query answers with is of revalidations that were run.
LEMMA AnswersAre ==
    ASSUME now \in Nat, WritesOK(writes, now), NEW at, NEW rows \in Answers(at)
    PROVE  /\ rows \in Seq(Revalidations)
           /\ \A i \in DOMAIN rows : rows[i] \in Revalidations /\ writes[rows[i]].row # "unsent"
<1> DEFINE since  == {r \in Revalidations : writes[r].logAt # Absent /\ writes[r].logAt >= cursor}
           before == {r \in since : writes[r].logAt < at}
<1>1. PICK more \in SUBSET since : rows \in SetToSeqs(before \cup more)
  BY DEF Answers
<1> DEFINE S == before \cup more
           n == Cardinality(S)
<1>2. S \subseteq since /\ since \subseteq Revalidations
  BY <1>1
<1>3. IsFiniteSet(S)
  BY <1>2, FiniteAssumption, FS_Subset
<1>4. n \in Nat
  BY <1>3, FS_CardinalityType
<1>5. rows \in [1 .. n -> S]
  BY <1>1 DEF SetToSeqs
<1>6. \A r \in since : writes[r].row # "unsent"
  BY DEF WritesOK
<1> HIDE DEF n, S, since
<1>7. \A i \in DOMAIN rows : rows[i] \in Revalidations /\ writes[rows[i]].row # "unsent"
  BY <1>2, <1>5, <1>6
<1>8. rows \in Seq(Revalidations)
  BY <1>2, <1>4, <1>5
<1>9. QED
  BY <1>7, <1>8

\* What is known once the rows of a query are applied, pruned by `oldest`.
Synced(k, oldest, against) == IF oldest > against THEN PruneLogged(k, oldest) ELSE k

\* sync: rows applied and logOnly pruned leave what is known sound.
LEMMA SyncedIs ==
    ASSUME now \in Nat, WritesOK(writes, now), NEW k, NEW all, Sound(writes, now, k, all),
           NEW rows \in Seq(Revalidations), \A i \in DOMAIN rows : writes[rows[i]].row # "unsent",
           NEW oldest \in Int, NEW against \in Int,
           PendingRead(k, reading), NotKnownBy(k, now, against)
    PROVE  LET l == Synced(ApplyAll(k, rows, oldest), oldest, against)
           IN  /\ Sound(writes, now, l, ToldAll(all, rows)) /\ Moved(k, l)
               /\ PendingRead(l, reading) /\ NotKnownBy(l, now, oldest)
<1> DEFINE j == ApplyAll(k, rows, oldest)
           l == Synced(j, oldest, against)
<1>1. Sound(writes, now, j, ToldAll(all, rows)) /\ RowsApplied(k, j, oldest)
  BY AllSound
<1> HIDE DEF j
<1>2. Shape(k) /\ Shape(j) /\ Moved(k, j) /\ FloorIs(k) /\ FloorIs(j)
  BY <1>1 DEF Sound, Shape, RowsApplied
<1>3. PendingRead(j, reading)
  BY <1>1 DEF RowsApplied, PendingRead
<1>4. CASE oldest > against
  <2> DEFINE p == PruneLogged(j, oldest)
  <2>1. Pruned(j, p) /\ \A u \in Logged(p) : KnownBy(p.logOnly[u], now) > oldest
    BY <1>2, PruneLoggedIs
  <2> HIDE DEF p
  <2>2. /\ Shape(p) /\ Moved(j, p) /\ p.applied = j.applied /\ p.pending = j.pending
        /\ \A t \in Tags : KeptAt(j, p, t)
    BY <2>1 DEF Pruned, KeptAt, Kept
  <2>3. Sound(writes, now, p, ToldAll(all, rows))
    <3>1. p.applied \subseteq j.applied
      BY <2>2
    <3>2. QED
      BY <1>1, <2>2, <3>1, KeptSound
  <2>4. Moved(k, p)
    BY <1>2, <2>2, MovedOn DEF Shape
  <2>5. PendingRead(p, reading) /\ NotKnownBy(p, now, oldest)
    BY <1>3, <2>1, <2>2 DEF PendingRead, NotKnownBy
  <2>6. l = p
    BY <1>4 DEF Synced, p
  <2>7. QED
    BY <2>3, <2>4, <2>5, <2>6 DEF j
<1>5. CASE ~(oldest > against)
  <2>1. NotKnownBy(j, now, oldest)
    <3>1. SUFFICES ASSUME NEW u \in Logged(j) PROVE KnownBy(j.logOnly[u], now) > oldest
      BY DEF NotKnownBy
    <3>2. CASE u \in Logged(k) /\ j.logOnly[u] = k.logOnly[u]
      <4>1. k.logOnly[u] \in Marker
        BY <1>2, <3>2, KnowledgeIs DEF Shape, Logged
      <4>2. KnownBy(k.logOnly[u], now) \in Int /\ KnownBy(k.logOnly[u], now) > against
        BY <3>2, <4>1, KnownByIs DEF NotKnownBy
      <4>3. QED
        BY <1>5, <3>2, <4>2
    <3>3. QED
      BY <1>1, <3>2 DEF RowsApplied
  <2>2. l = j
    BY <1>5 DEF Synced
  <2>3. QED
    BY <1>1, <1>2, <1>3, <2>1, <2>2 DEF j
<1>6. QED
  BY <1>4, <1>5

\* Rows before the next query's cursor need not be known as applied.
LEMMA Unapplied ==
    ASSUME NEW n \in Nat, NEW ws, WritesOK(ws, n), NEW k, NEW all, Sound(ws, n, k, all),
           NEW applied, applied \subseteq k.applied
    PROVE  LET l == [k EXCEPT !.applied = applied]
           IN  /\ Sound(ws, n, l, all) /\ Moved(k, l)
               /\ l.pending = k.pending /\ Logged(l) = Logged(k) /\ l.logOnly = k.logOnly
<1> DEFINE l == [k EXCEPT !.applied = applied]
<1>1. Shape(k) /\ k \in Knowledge /\ applied \subseteq Revalidations
  BY KnowledgeIs DEF Sound, Shape
<1>2. l \in Knowledge
  BY <1>1 DEF Knowledge
<1>3. /\ l.tags = k.tags /\ l.marker = k.marker /\ l.logged = k.logged /\ l.logOnly = k.logOnly
      /\ l.applied = applied /\ l.pending = k.pending /\ l.floor = k.floor /\ l.later = k.later
  BY <1>1 DEF Knowledge
<1> HIDE DEF l
<1>4. Shape(l) /\ Moved(k, l)
  BY <1>1, <1>2, <1>3, ShapeStays
<1>5. \A t \in Tags : KeptAt(k, l, t)
  BY <1>3 DEF KeptAt, Kept
<1>6. l.applied \subseteq k.applied
  BY <1>3
<1>7. Sound(ws, n, l, all)
  BY <1>4, <1>5, <1>6, KeptSound
<1>8. Logged(l) = Logged(k)
  BY <1>3 DEF Logged
<1>9. QED
  BY <1>3, <1>4, <1>7, <1>8 DEF l

LEMMA ApplyRowsStep == ASSUME IInv, NEW oldest \in OldestEntries, ApplyRows(oldest) PROVE Onward
<1>1. /\ now \in Nat /\ WritesOK(writes, now) /\ Sound(writes, now, known, told)
      /\ PendingRead(known, reading) /\ prunedAgainst \in Int
      /\ NotKnownBy(known, now, prunedAgainst) /\ oldest \in Int
      /\ FloorIs(known) /\ refreshing \in Nat
  <2>1. refreshing # Absent
    BY DEF ApplyRows
  <2>2. QED
    BY <2>1, TimesAssumption DEF IInv, Sound, Shape
<1>2. PICK rows \in Answers(refreshing) :
         /\ known' = [IF oldest > prunedAgainst
                      THEN PruneLogged(ApplyAll(known, rows, oldest), oldest)
                      ELSE ApplyAll(known, rows, oldest)
                      EXCEPT !.applied = {r \in @ : writes[r].logAt >= refreshing - Lookback}]
         /\ told' = ToldAll(told, rows)
  BY DEF ApplyRows
<1> DEFINE k == Synced(ApplyAll(known, rows, oldest), oldest, prunedAgainst)
           applied == {r \in k.applied : writes[r].logAt >= refreshing - Lookback}
           l == [k EXCEPT !.applied = applied]
<1>3. known' = l /\ told' = ToldAll(told, rows)
  BY <1>2 DEF Synced
<1>4. rows \in Seq(Revalidations) /\ \A i \in DOMAIN rows : writes[rows[i]].row # "unsent"
  BY <1>1, AnswersAre
<1>5. /\ Sound(writes, now, k, ToldAll(told, rows)) /\ Moved(known, k)
      /\ PendingRead(k, reading) /\ NotKnownBy(k, now, oldest)
  BY <1>1, <1>4, SyncedIs
<1>6. applied \subseteq k.applied
  OBVIOUS
<1> HIDE DEF k, applied
<1>7. /\ Sound(writes, now, l, ToldAll(told, rows)) /\ Moved(k, l)
      /\ l.pending = k.pending /\ Logged(l) = Logged(k) /\ l.logOnly = k.logOnly
  BY <1>1, <1>5, <1>6, Unapplied
<1> HIDE DEF l
<1>8. Moved(known, l)
  <2>1. FloorIs(k) /\ FloorIs(l)
    BY <1>5, <1>7 DEF Sound, Shape
  <2>2. QED
    BY <1>1, <1>5, <1>7, <2>1, MovedOn
<1>9. PendingRead(l, reading) /\ NotKnownBy(l, now, oldest)
  BY <1>5, <1>7 DEF PendingRead, NotKnownBy
<1>10. /\ reading' = reading /\ prunedAgainst' = oldest /\ lastLogRead' = refreshing
       /\ cursor' \in {cursor, refreshing - Lookback} /\ refreshing' = Absent
       /\ now' = now /\ UNCHANGED tableVars
  BY DEF ApplyRows
<1>11. /\ reading' \in [Tags -> Reads] /\ prunedAgainst' \in Int /\ lastLogRead' \in Nat
       /\ refreshing' \in Stamp
  BY <1>1, <1>10 DEF IInv
<1>12. cursor' \in Int
  BY <1>1, <1>10, TimesAssumption DEF IInv
<1>13. /\ Sound(writes, now, known', told') /\ Moved(known, known')
       /\ PendingRead(known', reading') /\ NotKnownBy(known', now, prunedAgainst')
  BY <1>3, <1>7, <1>8, <1>9, <1>10
<1>14. QED
  BY <1>10, <1>11, <1>12, <1>13, InstanceStep

LEMMA Initially == Init => IInv
<1> SUFFICES ASSUME Init PROVE IInv
  OBVIOUS
<1>1. /\ now = 0 /\ writes = [r \in Revalidations |-> NotRun]
      /\ table = [t \in Tags |-> NoMarker] /\ versions = [t \in Tags |-> {NoMarker}]
      /\ known = NothingKnown /\ reading = [t \in Tags |-> "none"] /\ cursor = -Lookback
      /\ lastLogRead = 0 /\ refreshing = Absent /\ prunedAgainst = Absent /\ told = table
  BY DEF Init
<1>2. \A t \in Tags : Fits(writes, now, t, NoMarker)
  BY <1>1, NoMarkerFits
<1>3. WritesOK(writes, now)
  <2>1. NotRun \in Write
    BY NoMarkerIs DEF NotRun, Write, Durations, Immediately
  <2>2. /\ NotRun.row = "unsent" /\ NotRun.at = Absent /\ NotRun.logAt = Absent
        /\ NotRun.left = NoMarker
    BY DEF NotRun
  <2>3. writes \in [Revalidations -> Write] /\ \A r \in Revalidations : writes[r] = NotRun
    BY <1>1, <2>1
  <2>4. \A r \in Revalidations : TagOf[r] \in Tags
    BY TagOfAssumption
  <2> HIDE DEF NotRun
  <2>5. QED
    BY <1>2, <2>2, <2>3, <2>4 DEF WritesOK
<1>4. TableOK(writes, now, table, versions)
  <2>1. \A t \in Tags : table[t] = NoMarker /\ versions[t] = {NoMarker}
    BY <1>1
  <2>2. /\ table \in [Tags -> Marker] /\ versions \in [Tags -> SUBSET Marker]
    BY <1>1, NoMarkerIs
  <2>3. QED
    BY <1>2, <2>1, <2>2 DEF TableOK
<1> DEFINE none == [t \in Tags |-> NoMarker]
           k == NothingKnown
<1>5. /\ none \in [Tags -> Marker] /\ \A t \in Tags : none[t] = NoMarker
  BY NoMarkerIs
<1>6. /\ k.tags = <<>> /\ k.marker = none /\ k.logged = <<>> /\ k.logOnly = none
      /\ k.pending = none /\ k.applied = {} /\ k.floor = 0 /\ k.later = {}
  BY DEF NothingKnown
<1>7. k \in Knowledge
  <2>1. /\ <<>> \in Seq(Tags) /\ {} \in SUBSET Tags /\ {} \in SUBSET Revalidations
        /\ 0 \in Int /\ {} \in SUBSET (Int \X Int)
    OBVIOUS
  <2> HIDE DEF none
  <2>2. k = [tags |-> <<>>, marker |-> none, unread |-> {}, logged |-> <<>>, logOnly |-> none,
             pending |-> none, applied |-> {}, floor |-> 0, later |-> {}]
    BY DEF NothingKnown, none
  <2>3. QED
    BY <1>5, <2>1, <2>2 DEF Knowledge
<1>8. FloorIs(k)
  <2>1. Spans({})
    BY FS_EmptySet DEF Spans
  <2>2. Cardinality({}) = 0
    BY FS_EmptySet
  <2>3. QED
    BY <1>6, <2>1, <2>2, LimitsAssumption DEF FloorIs
<1> HIDE DEF none
<1>9. Shape(k) /\ Logged(k) = {}
  BY <1>6, <1>7, <1>8, NothingKnownIs
<1> HIDE DEF k
<1>10. \A t \in Tags : Held(k, t) = NoMarker
  <2>1. MergeMarkers(NoMarker, NoMarker) = NoMarker
    BY NoMarkerIs, MergeNone
  <2>2. QED
    BY <1>5, <1>6, <2>1 DEF Held, PendingRows
<1>11. \A t \in Tags : FitsAt(writes, now, t, k) /\ Vouches(k, t, NoMarker)
  BY <1>2, <1>5, <1>6, <1>10, NoMarkerIs DEF FitsAt, Three, Vouches, Stands
<1>12. told = none /\ AppliedTold(writes, k, told)
  BY <1>1, <1>6 DEF AppliedTold, none
<1>13. Sound(writes, now, k, told)
  BY <1>2, <1>5, <1>9, <1>11, <1>12 DEF Sound
<1>14. /\ reading \in [Tags -> Reads] /\ PendingRead(k, reading)
       /\ NotKnownBy(k, now, prunedAgainst)
  BY <1>1, <1>5, <1>6, <1>9 DEF Reads, PendingRead, NotKnownBy
<1>15. cursor \in Int
  BY <1>1, TimesAssumption
<1>16. QED
  BY <1>1, <1>3, <1>4, <1>13, <1>14, <1>15 DEF IInv, k

LEMMA StepOnward == ASSUME IInv, [Next]_vars PROVE Onward
<1>1. CASE Tick
  BY <1>1, TickStep
<1>2. CASE TableStep
  <2>1. ASSUME NEW r \in Revalidations, NEW durations \in Profiles[r], Revalidate(r, durations)
        PROVE  Onward
    BY <2>1, RevalidateStep
  <2>2. ASSUME NEW r \in Revalidations, LandRow(r) \/ LandLogRow(r) \/ AnswerRow(r) PROVE Onward
    BY <2>2, LandRowStep, LandLogRowStep, AnswerRowStep
  <2>3. ASSUME NEW t \in Tags, Replicate(t) PROVE Onward
    BY <2>3, ReplicateStep
  <2>4. QED
    BY <1>2, <2>1, <2>2, <2>3 DEF TableStep
<1>3. CASE ReadStep
  <2>1. PICK t \in Tags : \/ Use(t) \/ Ensure(t) \/ ReadAgain(t) \/ ResumeRead(t) \/ FailRead(t)
    BY <1>3 DEF ReadStep
  <2>2. QED
    BY <2>1, UseStep, EnsureStep, ResumeReadStep, FailReadStep
<1>4. CASE RefreshStep
  <2>1. CASE RefreshPastGap
    <3>1. now \in Nat /\ Forget(now) /\ UNCHANGED <<now, tableVars, prunedAgainst, told>>
      BY <2>1 DEF IInv, RefreshPastGap
    <3>2. QED
      BY <3>1, ForgetStep
  <2>2. CASE ForgetTruncated
    <3>1. /\ refreshing \in Nat /\ Forget(refreshing)
          /\ UNCHANGED <<now, tableVars, prunedAgainst, told>>
      BY <2>2 DEF IInv, ForgetTruncated
    <3>2. QED
      BY <3>1, ForgetStep
  <2>3. ASSUME NEW oldest \in OldestEntries, ApplyRows(oldest) PROVE Onward
    BY <2>3, ApplyRowsStep
  <2>4. QED
    BY <1>4, <2>1, <2>2, <2>3, RefreshBegins, FailQueryStep DEF RefreshStep
<1>5. CASE AskCompleteSince
  BY <1>5, AskStep
<1>6. CASE UNCHANGED vars
  <2>1. UNCHANGED <<now, tableVars, known, cursor, lastLogRead, prunedAgainst, told>>
        /\ reading' = reading /\ refreshing' = refreshing
    BY <1>6 DEF vars, refreshVars
  <2>2. /\ reading' \in [Tags -> Reads] /\ refreshing' \in Stamp
        /\ \A t \in Tags : reading[t] # "none" => reading'[t] # "none"
    BY <2>1 DEF IInv
  <2>3. QED
    BY <2>1, <2>2, ReadingStep
<1>7. QED
  BY <1>1, <1>2, <1>3, <1>4, <1>5, <1>6 DEF Next

--------------------------------------------------------------------------------
(* What holds of every behaviour. *)

\* The inductive invariant: stamps fit what was run, what was told is held or let
\* go of, and the maps agree.
THEOREM Invariance == Spec => []IInv
<1>1. IInv /\ [Next]_vars => IInv'
  BY StepOnward DEF Onward
<1>2. QED
  BY <1>1, Initially, PTL DEF Spec

\* The instance's maps stay within their types and bounds and agree: a tag is
\* tracked or known from the log alone, rows wait only for a read, and no log's
\* word is known by what it was last pruned against.
THEOREM Consistent == Spec => []ManifestConsistent
<1>1. IInv => ManifestConsistent
  <2> SUFFICES ASSUME IInv PROVE ManifestConsistent
    OBVIOUS
  <2>1. Shape(known) /\ FloorIs(known) /\ told \in [Tags -> Marker]
    BY DEF IInv, Sound, Shape
  <2>2. TypeOK
    BY <2>1 DEF TypeOK, IInv, Shape, FloorIs, WritesOK, TableOK
  <2>3. KnownInOnePlace
    BY <2>1 DEF IInv, PendingRead, Shape, KnownInOnePlace
  <2>4. PrunedStaysPruned
    BY DEF IInv, NotKnownBy, PrunedStaysPruned
  <2>5. QED
    BY <2>2, <2>3, <2>4 DEF ManifestConsistent
<1>2. QED
  BY <1>1, Invariance, PTL

\* completeSince never moves back, whatever is evicted, pruned, forgotten or asked:
\* the spans that will move it are merged and passed, never dropped.
THEOREM NeverBack == Spec => CompleteSinceNeverMovesBack
<1>1. IInv /\ [Next]_vars => [CompleteSince(known)' >= CompleteSince(known)]_vars
  <2> SUFFICES ASSUME IInv, [Next]_vars PROVE CompleteSince(known)' >= CompleteSince(known)
    OBVIOUS
  <2>1. Onward
    BY StepOnward
  <2>2. /\ FloorIs(known) /\ FloorIs(known') /\ Moved(known, known')
        /\ now \in Nat /\ now' \in Nat /\ now <= now'
    BY <2>1 DEF Onward, IInv, Sound, Shape
  <2>3. CompleteAt(known', now') >= CompleteAt(known, now)
    BY <2>2, CompleteAtGrows
  <2>4. QED
    BY <2>3 DEF CompleteSince, CompleteAt
<1>2. QED
  BY <1>1, Invariance, PTL DEF Spec, CompleteSinceNeverMovesBack

\* What the instance was told of a tag to have been revalidated, outright or with
\* a profile, after an entry completeSince lets it judge, it still holds.
StampsHeld ==
    \A t \in Tags : \A createdAt \in CompleteSince(known) .. now :
        /\ told[t].revalidatedAt > createdAt => Held(known, t).revalidatedAt > createdAt
        /\ told[t].staleAt > createdAt => Held(known, t).staleAt > createdAt

\* No revalidation the instance was told of is lost on an entry it may judge, be
\* it evicted, pruned, forgotten or merged since, whatever profiles are mixed.
THEOREM StampsAreHeld == Spec => []StampsHeld
<1>1. IInv => StampsHeld
  <2> SUFFICES ASSUME IInv, NEW t \in Tags, NEW createdAt \in CompleteSince(known) .. now
               PROVE  /\ told[t].revalidatedAt > createdAt =>
                            Held(known, t).revalidatedAt > createdAt
                      /\ told[t].staleAt > createdAt => Held(known, t).staleAt > createdAt
    BY DEF StampsHeld
  <2> DEFINE h == Held(known, t)
             m == told[t]
  <2>1. /\ FloorIs(known) /\ now \in Nat /\ WritesOK(writes, now)
        /\ FitsAt(writes, now, t, known) /\ Fits(writes, now, t, m) /\ Stands(known, t, m)
    BY DEF IInv, Sound, Shape, Vouches
  <2>2. /\ CompleteSince(known) \in Nat /\ known.floor \in Nat
        /\ known.floor <= CompleteSince(known)
    BY <2>1, CompleteAtIs DEF CompleteSince, CompleteAt, FloorIs
  <2>3. h \in Marker /\ m \in Marker
    BY <2>1, HeldIs DEF FitsAt, Three, Fits
  <2>4. /\ h.revalidatedAt \in Int /\ h.staleAt \in Int
        /\ m.revalidatedAt \in Int /\ m.staleAt \in Int /\ createdAt \in Int
        /\ known.floor <= createdAt
    BY <2>1, <2>2, <2>3 DEF Marker
  <2>5. /\ m.revalidatedAt <= h.revalidatedAt \/ m.revalidatedAt <= known.floor
        /\ m.staleAt <= h.staleAt \/ m.staleAt <= known.floor
    BY <2>1 DEF Stands
  <2> HIDE DEF h, m
  <2>6. /\ m.revalidatedAt > createdAt => h.revalidatedAt > createdAt
        /\ m.staleAt > createdAt => h.staleAt > createdAt
    BY <2>2, <2>4, <2>5
  <2>7. QED
    BY <2>6 DEF h, m
<1>2. QED
  BY <1>1, Invariance, PTL

\* What the instance holds of a tag holds an entry it may judge back as much as
\* all it was told of the tag does, when the tag's profiles agree on `expire`.
HoldsBackAsTold == \A t \in Tags : Uniform(t) => Judges(Held(known, t), told[t])

\* An entry the instance may judge without asking is held back as much as by all
\* it was told, at any time, of every tag whose profiles agree on `expire`.
THEOREM JudgesAsTold == Spec => []HoldsBackAsTold
<1>1. IInv => HoldsBackAsTold
  <2> SUFFICES ASSUME IInv, NEW t \in Tags, Uniform(t) PROVE Judges(Held(known, t), told[t])
    BY DEF HoldsBackAsTold
  <2> DEFINE h == Held(known, t)
             m == told[t]
             floor == CompleteSince(known)
  <2>1. /\ FloorIs(known) /\ now \in Nat /\ WritesOK(writes, now)
        /\ FitsAt(writes, now, t, known) /\ Fits(writes, now, t, m) /\ Vouches(known, t, m)
    BY DEF IInv, Sound, Shape
  <2>2. floor = CompleteAt(known, now)
    BY DEF CompleteSince, CompleteAt
  <2>3. floor \in Nat /\ known.floor \in Nat /\ known.floor <= floor
    BY <2>1, <2>2, CompleteAtIs DEF FloorIs
  <2>4. Fits(writes, now, t, h) /\ h \in Marker /\ m \in Marker
    BY <2>1, HeldIs DEF FitsAt, Three, Fits
  <2>5. /\ h.revalidatedAt \in Stamp /\ h.staleAt \in Stamp /\ h.expiredAt \in Stamp
        /\ m.revalidatedAt \in Stamp /\ m.staleAt \in Stamp /\ m.expiredAt \in Stamp
    BY <2>4 DEF Marker
  <2>6. m.revalidatedAt <= h.revalidatedAt \/ m.revalidatedAt <= floor
    BY <2>1, <2>3, <2>5 DEF Vouches, Stands
  <2>7. \/ m.staleAt = h.staleAt /\ m.expiredAt = h.expiredAt
        \/ m.staleAt <= floor /\ (m.expiredAt <= now => m.expiredAt <= floor)
    <3>1. CASE m.staleAt <= h.staleAt
      <4>1. m.staleAt = h.staleAt
        BY <2>1, <2>5, <3>1 DEF Vouches
      <4>2. QED
        BY <2>1, <2>4, <4>1, PairIs
    <3>2. CASE m.staleAt <= known.floor /\ LetGo(known, m.expiredAt)
      <4>1. m.staleAt <= floor
        BY <2>3, <2>5, <3>2
      <4>2. m.expiredAt <= now => m.expiredAt <= floor
        BY <2>1, <2>2, <2>5, <3>2, LetGoIsPast
      <4>3. QED
        BY <4>1, <4>2
    <3>3. QED
      BY <2>1, <3>1, <3>2 DEF Vouches, Stands
  <2> HIDE DEF h, m, floor
  <2>8. ASSUME NEW createdAt \in floor .. now
        PROVE  Severity(MarkerState(h, createdAt, now)) >= Severity(MarkerState(m, createdAt, now))
    <3>1. createdAt \in Int /\ floor <= createdAt /\ floor \in Int
      BY <2>1, <2>3
    <3>2. m.revalidatedAt > createdAt => h.revalidatedAt > createdAt
      BY <2>5, <2>6, <3>1
    <3>3. m.staleAt > createdAt => h.staleAt > createdAt
      BY <2>5, <2>7, <3>1
    <3>4. m.expiredAt <= now /\ m.expiredAt > createdAt =>
            h.expiredAt <= now /\ h.expiredAt > createdAt
      BY <2>1, <2>5, <2>7, <3>1
    <3>5. QED
      BY <3>2, <3>3, <3>4 DEF MarkerState, Severity
  <2>9. QED
    BY <2>8 DEF Judges, h, m, floor
<1>2. QED
  BY <1>1, Invariance, PTL

\* Where all of a tag's profiles say when they expire, or none does, nothing the
\* instance was told is let go of before completeSince is past it.
THEOREM NothingIsLetGo ==
    ASSUME \A t \in Tags : Uniform(t)
    PROVE  Spec => []NothingLetGo
<1>1. HoldsBackAsTold => NothingLetGo
  BY DEF HoldsBackAsTold, NothingLetGo, Held
<1>2. QED
  BY <1>1, JudgesAsTold, PTL
================================================================================
