------------------------------- MODULE MarkerRows -------------------------------
(***************************************************************************)
(* One tag's marker row, revalidated by several instances at once.         *)
(*                                                                         *)
(* TrackedTagMarkers.write stamps a revalidation, applies it locally, and  *)
(* sends two requests nothing orders: an unconditional UpdateItem of the   *)
(* tag's marker row, whose response carries the row as it then stands, and *)
(* a log row every other instance merges into what it knows. This module   *)
(* is about the values those writes, reads and merges leave behind; when   *)
(* an instance sees a log row at all is RevalidationLog's and              *)
(* TrackedTagMarkers' business.                                            *)
(***************************************************************************)
EXTENDS TagMarkers, Sequences

CONSTANTS Instances,     \* the compute instances of a deployment
          Drift,         \* by instance: how far its markerClock() runs ahead
          Profiles,      \* the `durations` the app revalidates with
          MaxNow,        \* bound: the last time the clock shows
          MaxRevalidations \* bound: how many revalidations are run

ASSUME DriftAssumption    == Drift \in [Instances -> Nat]
ASSUME ProfilesAssumption == Profiles \subseteq Durations
ASSUME BoundsAssumption   == MaxNow \in Nat /\ MaxRevalidations \in Nat

VARIABLES
    now,      \* the time; an instance's markerClock() is Drift ahead of it
    row,      \* the tag's marker row, NoMarker while there is none
    writes,   \* the revalidations run so far, and how far their UpdateItem got
    known,    \* by instance: the marker it tracks for the tag
    heard     \* by instance: the revalidations it has applied or merged

vars == <<now, row, writes, known, heard>>

\* A Drift for TLC.
ClocksAgree == [i \in Instances |-> 0]

Phases == {"sent", "landed", "answered"}

Init ==
    /\ now = 0
    /\ row = NoMarker
    /\ writes = <<>>
    /\ known = [i \in Instances |-> NoMarker]
    /\ heard = [i \in Instances |-> {}]

Ids == 1 .. Len(writes)
MarkerOf(w) == MarkerFor(writes[w].at, writes[w].durations)

\* performance.timeOrigin + performance.now(): each process reads its own.
MarkerClock(i) == now + Drift[i]

Tick ==
    /\ now < MaxNow
    /\ now' = now + 1
    /\ UNCHANGED <<row, writes, known, heard>>

\* TrackedTagMarkers.write, up to where it waits: stamp, apply here, send.
Revalidate(i, durations) ==
    /\ Len(writes) < MaxRevalidations
    /\ writes' = Append(writes, [by |-> i, at |-> MarkerClock(i),
                                 durations |-> durations,
                                 phase |-> "sent", left |-> NoMarker])
    /\ heard' = [heard EXCEPT ![i] = @ \cup {Len(writes')}]
    /\ known' = [known EXCEPT ![i] = ApplyMarker(@, MarkerFor(MarkerClock(i), durations))]
    /\ UNCHANGED <<now, row>>

\* DynamoDB runs the UpdateItem: whichever arrives last wins.
Land(w) ==
    /\ writes[w].phase = "sent"
    /\ row' = ApplyMarker(row, MarkerOf(w))
    /\ writes' = [writes EXCEPT ![w] = [@ EXCEPT !.phase = "landed", !.left = row']]
    /\ UNCHANGED <<now, known, heard>>

\* The writer takes the row its own write left into what it tracks.
Answer(w) ==
    /\ writes[w].phase = "landed"
    /\ LET i == writes[w].by
       IN  known' = [known EXCEPT ![i] = MergeMarkers(@, writes[w].left)]
    /\ writes' = [writes EXCEPT ![w] = [@ EXCEPT !.phase = "answered", !.left = NoMarker]]
    /\ UNCHANGED <<now, row, heard>>

\* An instance merges another's log row, in whatever order the log shows them,
\* and again for as long as the lookback returns it.
MergeLogRow(i, w) ==
    /\ writes[w].by # i
    /\ known' = [known EXCEPT ![i] = MergeMarkers(@, MarkerOf(w))]
    /\ heard' = [heard EXCEPT ![i] = @ \cup {w}]
    /\ UNCHANGED <<now, row, writes>>

\* A re-read of the row: readInto merges what it finds.
MergeRow(i) ==
    /\ known' = [known EXCEPT ![i] = MergeMarkers(@, row)]
    /\ UNCHANGED <<now, row, writes, heard>>

Next ==
    \/ Tick
    \/ \E i \in Instances, d \in Profiles : Revalidate(i, d)
    \/ \E w \in Ids : Land(w) \/ Answer(w)
    \/ \E i \in Instances, w \in Ids : MergeLogRow(i, w)
    \/ \E i \in Instances : MergeRow(i)

Spec == Init /\ [][Next]_vars

--------------------------------------------------------------------------------
Write == [by : Instances, at : Nat, durations : Profiles,
          phase : Phases, left : Marker]

\* Every variable stays within its type.
TypeOK ==
    /\ now \in Nat
    /\ row \in Marker
    /\ writes \in Seq(Write)
    /\ known \in [Instances -> Marker]
    /\ heard \in [Instances -> SUBSET Ids]

\* What `marker` has to say for revalidation `w` to be known: no entry created
\* before `w` is fresh, and none is served at all when `w` expired it outright.
Records(marker, w) ==
    IF writes[w].durations.profile
    THEN marker.staleAt >= writes[w].at
    ELSE marker.revalidatedAt >= writes[w].at

\* One of instance `i`'s own, of the same kind as `w`, stamped earlier than `w`.
OwnStampedEarlier(i, v, w) ==
    /\ writes[v].by = i
    /\ writes[v].durations.profile = writes[w].durations.profile
    /\ writes[v].at < writes[w].at

\* A revalidation an instance ran or merged is not lost to a later one, to a log
\* row that shows late or to a row read back (write, sync, readInto), in whatever
\* order they come. The one exception is applyMarker in write: an instance that
\* revalidates the tag itself, on a clock behind the other's, overwrites it.
HeardIsKnown ==
    \A i \in Instances : \A w \in heard[i] :
        \/ Records(known[i], w)
        \/ \E v \in heard[i] : OwnStampedEarlier(i, v, w) /\ Records(known[i], v)

\* What an instance tracks never moves back, whatever it merges: mergeMarkers'
\* promise that a read straight after a revalidation cannot take it back. Only
\* a revalidation of its own may.
KnownNeverMovesBack ==
    [][\A i \in Instances :
          \/ /\ known'[i].revalidatedAt >= known[i].revalidatedAt
             /\ known'[i].staleAt >= known[i].staleAt
          \/ \E w \in Ids' \ Ids : writes'[w].by = i]_vars

\* The times some revalidation of the given kind was stamped with.
StampedAt(profile) ==
    {writes[w].at : w \in {v \in Ids : writes[v].durations.profile = profile}}

\* Neither a row nor an instance holds entries back for a revalidation nobody
\* ran, nor expires them at a time that mixes two of them.
NothingInvented ==
    \A marker \in {row} \cup {known[i] : i \in Instances} :
        /\ marker.revalidatedAt \in StampedAt(FALSE) \cup {Absent}
        /\ marker.staleAt \in StampedAt(TRUE) \cup {Absent}
        /\ marker.expiredAt \in {MarkerOf(w).expiredAt : w \in Ids} \cup {Absent}

--------------------------------------------------------------------------------
\* "The bare-tag marker rows of the revalidation table ..., which record when a
\* tag was last revalidated and how" (aws-cache-store.ts:287-289): with every
\* UpdateItem landed, the row holds the newest of each kind.
Newest(times) == IF times = {} THEN Absent
                 ELSE CHOOSE t \in times : \A u \in times : u <= t

RowRecordsLast ==
    (\A w \in Ids : writes[w].phase # "sent") =>
        /\ row.revalidatedAt = Newest(StampedAt(FALSE))
        /\ row.staleAt = Newest(StampedAt(TRUE))
================================================================================
