---------------------------- MODULE TrackedTagMarkers ---------------------------
(***************************************************************************)
(* One instance's tag manifest: TrackedTagMarkers of                       *)
(* src/adapter/aws-cache-store.ts, against a table other instances write.  *)
(*                                                                         *)
(* The instance learns of revalidations in four ways that race - its own   *)
(* writes, their answers, reads of marker rows, and the log's rows - and   *)
(* lets go of what it learned in three: it evicts, prunes and forgets. It  *)
(* may judge an entry without asking as long as completeSince moves past   *)
(* whatever it let go of.                                                  *)
(*                                                                         *)
(* Steps between two awaits are one action. A request in flight is kept    *)
(* without its answer, which is any its flight allows when it comes. A     *)
(* batch of reads is one read per tag, answered together or apart.         *)
(***************************************************************************)
EXTENDS TagMarkers, SequencesExt

CONSTANTS
    Tags,
    Revalidations, \* the revalidations run in a behaviour, here or elsewhere
    TagOf,         \* by revalidation: its tag
    Own,           \* those this instance runs
    Profiles,      \* by revalidation: the `durations` it may be run with
    MaxTracked,    \* maxTrackedTags
    Lookback,      \* REVALIDATION_LOG_LOOKBACK_MS
    MaxGap,        \* MAX_REVALIDATION_LOG_GAP_MS
    OldestEntries, \* what oldestEntry may answer
    MaxNow         \* bound: the last time the clock shows

ASSUME TagOfAssumption    == TagOf \in [Revalidations -> Tags] /\ Own \subseteq Revalidations
ASSUME FiniteAssumption   == IsFiniteSet(Revalidations) \* a query answers with finitely many
ASSUME ProfilesAssumption == Profiles \in [Revalidations -> SUBSET Durations]
ASSUME LimitsAssumption   == MaxTracked \in Nat \ {0} /\ MaxNow \in Nat
ASSUME TimesAssumption    == Lookback \in Nat /\ MaxGap \in Nat /\ OldestEntries \subseteq Int

VARIABLES
    now,           \* markerClock(), and Date.now(): here they agree
    writes,        \* by revalidation: where its marker row and its log row stand
    table,         \* by tag: its marker row
    versions,      \* by tag: the versions of it a read may still return
    known,         \* what the instance knows, see Knowledge
    reading,       \* by tag: its read in flight (`reading`)
    cursor,        \* where the next log query starts
    lastLogRead,   \* when the last successful one started
    refreshing,    \* when the refresh in flight started, Absent with none
    prunedAgainst, \* what logOnly was last pruned against
    told           \* by tag: the merge of all the instance was ever told

tableVars   == <<writes, table, versions>>
refreshVars == <<cursor, lastLogRead, refreshing, prunedAgainst>>
vars == <<now, tableVars, known, reading, refreshVars, told>>

Write == [at : Stamp, durations : Durations, row : {"unsent", "sent", "landed", "answered"},
          left : Marker, logAt : Stamp]
NotRun == [at |-> Absent, durations |-> Immediately, row |-> "unsent",
           left |-> NoMarker, logAt |-> Absent]

\* `tags` and `logOnly` are Maps: an order and a value by key.
Knowledge ==
    [tags    : Seq(Tags),                 \* tracked, least recently used first
     marker  : [Tags -> Marker],          \* their markers
     unread  : SUBSET Tags,               \* tracked, their read failed
     logged  : Seq(Tags),                 \* logOnly, oldest first
     logOnly : [Tags -> Marker],
     pending : [Tags -> Marker],          \* pendingRows
     applied : SUBSET Revalidations,      \* by revalidation: its row's key
     floor   : Int,
     later   : SUBSET (Int \X Int)]       \* laterFloors

NothingKnown ==
    [tags    |-> <<>>, marker |-> [t \in Tags |-> NoMarker], unread |-> {},
     logged  |-> <<>>, logOnly |-> [t \in Tags |-> NoMarker],
     pending |-> [t \in Tags |-> NoMarker],
     applied |-> {}, floor |-> 0, later |-> {}]

\* A read: the first, one `forgotten` has moved on since, and the one made again.
Reads == {"none", "first", "outdated", "again"}

Init ==
    /\ now = 0
    /\ writes = [r \in Revalidations |-> NotRun]
    /\ table = [t \in Tags |-> NoMarker]
    /\ versions = [t \in Tags |-> {NoMarker}]
    /\ known = NothingKnown
    /\ reading = [t \in Tags |-> "none"]
    /\ cursor = -Lookback
    /\ lastLogRead = 0
    /\ refreshing = Absent
    /\ prunedAgainst = Absent
    /\ told = table

Tracked(k)  == {k.tags[i] : i \in DOMAIN k.tags}
Logged(k)   == {k.logged[i] : i \in DOMAIN k.logged}
MarkerOf(r) == MarkerFor(writes[r].at, writes[r].durations)

--------------------------------------------------------------------------------
(* completeSince: the floor, and the spans that will move it. *)

\* The two neighbouring spans closest together become one.
MergeClosest(spans) ==
    LET neighbours == {p \in spans \X spans :
                          /\ p[1][1] < p[2][1]
                          /\ ~\E s \in spans : p[1][1] < s[1] /\ s[1] < p[2][1]}
        width(p) == p[2][2] - p[1][1]
        closest == CHOOSE p \in neighbours : \A q \in neighbours :
                        \/ width(p) < width(q)
                        \/ width(p) = width(q) /\ p[1][1] <= q[1][1]
    IN  (spans \ {closest[1], closest[2]}) \cup {<<closest[1][1], closest[2][2]>>}

LaterFloor(spans, time) ==
    LET added == spans \cup {<<time, time>>}
    IN  IF \E s \in spans : s[1] <= time /\ time <= s[2] THEN spans
        ELSE IF Cardinality(added) <= MaxTracked THEN added
        ELSE MergeClosest(added)

\* The instance lets go of `marker`.
RaiseFloor(k, marker) ==
    LET floor == Later(k.floor, KnownBy(marker, now))
    IN  [k EXCEPT !.floor = floor,
                  !.later = IF marker.expiredAt > Later(now, floor)
                            THEN LaterFloor(@, marker.expiredAt) ELSE @]

\* The markers of `tags`, one after the other.
RaiseFloors(k, tags, markers) ==
    LET raised[n \in 0 .. Len(tags)] ==
            IF n = 0 THEN k ELSE RaiseFloor(raised[n - 1], markers[tags[n]])
    IN  raised[Len(tags)]

\* The getter, which moves the floor past the spans that have begun.
CompleteSince(k) ==
    Max({k.floor} \cup {s[2] : s \in {s \in k.later : s[1] <= now}})

\* Mutant: the spans that have begun are dropped, the floor is not moved.
PassedFloorsUnmoved(k) == [k EXCEPT !.later = {s \in @ : s[1] > now}]

PassedFloors(k) ==
    [k EXCEPT !.floor = CompleteSince(k), !.later = {s \in @ : s[1] > now}]

--------------------------------------------------------------------------------
(* What is kept, in memory bounded by MaxTracked. *)

\* Mutant: eviction does not move completeSince.
RememberOnly(k, t, marker) ==
    LET tags == Append(RemoveFirst(k.tags, t), t)
        kept == [k EXCEPT !.tags = tags, !.marker = [@ EXCEPT ![t] = marker]]
    IN  IF Len(tags) <= MaxTracked THEN kept
        ELSE [kept EXCEPT !.tags = Tail(tags), !.unread = @ \ {Head(tags)},
                          !.marker = [@ EXCEPT ![Head(tags)] = NoMarker]]

\* Mutant: one too many is tracked.
RememberOneMore(k, t, marker) ==
    LET tags    == Append(RemoveFirst(k.tags, t), t)
        evicted == Head(tags)
        kept    == [k EXCEPT !.tags = tags, !.marker = [@ EXCEPT ![t] = marker]]
    IN  IF Len(tags) <= MaxTracked + 1 THEN kept
        ELSE [RaiseFloor(kept, kept.marker[evicted]) EXCEPT
                 !.tags   = Tail(tags),
                 !.marker = [@ EXCEPT ![evicted] = NoMarker],
                 !.unread = @ \ {evicted}]

\* remember: track `t`, most recently used.
Remember(k, t, marker) ==
    LET tags    == Append(RemoveFirst(k.tags, t), t)
        evicted == Head(tags)
        kept    == [k EXCEPT !.tags = tags, !.marker = [@ EXCEPT ![t] = marker]]
    IN  IF Len(tags) <= MaxTracked THEN kept
        ELSE [RaiseFloor(kept, kept.marker[evicted]) EXCEPT
                 !.tags   = Tail(tags),
                 !.marker = [@ EXCEPT ![evicted] = NoMarker],
                 !.unread = @ \ {evicted}]

Touch(k, t) == Remember(k, t, k.marker[t])

Unlog(k, t) ==
    [k EXCEPT !.logged = RemoveFirst(@, t), !.logOnly = [@ EXCEPT ![t] = NoMarker]]

\* set: what this instance wrote, and what the log said while `t` was untracked.
Set(k, t, marker) == Remember(Unlog(k, t), t, MergeMarkers(marker, k.logOnly[t]))

\* Mutant of TakePendingRows: the log's word stays where it is.
TakePendingOnly(k, t) == [k EXCEPT !.pending = [@ EXCEPT ![t] = NoMarker]]

\* takePendingRows, and what is taken merged into what `t` is known as.
PendingRows(k, t) == MergeMarkers(k.logOnly[t], k.pending[t])
TakePendingRows(k, t) == [Unlog(k, t) EXCEPT !.pending = [@ EXCEPT ![t] = NoMarker]]

\* Mutant: whatever the log says is kept, needed or not.
RememberLoggedAlways(k, t, marker, oldest) ==
    [Unlog(k, t) EXCEPT !.logged = Append(@, t), !.logOnly = [@ EXCEPT ![t] = marker]]

\* rememberLogged: keep the log's word on `t`, unless no entry from `oldest` on
\* needs it.
RememberLogged(k, t, marker, oldest) ==
    LET unlogged == Unlog(k, t)
        logged   == Append(unlogged.logged, t)
        kept     == [unlogged EXCEPT !.logged = logged,
                                     !.logOnly = [@ EXCEPT ![t] = marker]]
        dropped  == Head(logged)
    IN  CASE KnownBy(marker, now) <= oldest -> RaiseFloor(unlogged, marker)
          [] KnownBy(marker, now) > oldest /\ Len(logged) <= MaxTracked -> kept
          [] OTHER -> RaiseFloor(Unlog(kept, dropped), kept.logOnly[dropped])

\* pruneLogged, of one tag and then of each as the log's word on it came.
PruneOne(k, t, oldest) ==
    IF KnownBy(k.logOnly[t], now) <= oldest THEN RaiseFloor(Unlog(k, t), k.logOnly[t]) ELSE k

PruneLogged(k, oldest) ==
    LET pruned[n \in 0 .. Len(k.logged)] ==
            IF n = 0 THEN k ELSE PruneOne(pruned[n - 1], k.logged[n], oldest)
    IN  pruned[Len(k.logged)]

\* One row of a query, in sync: to the tracked marker, the read in flight or the
\* log's word, and only the last is looked at again.
ApplyRow(k, r, oldest) ==
    LET t == TagOf[r]
    IN  CASE r \in k.applied -> k
          [] r \notin k.applied /\ t \in Tracked(k) ->
               [k EXCEPT !.marker[t] = MergeMarkers(@, MarkerOf(r)),
                         !.applied = @ \cup {r}]
          [] r \notin k.applied /\ t \notin Tracked(k) /\ reading[t] # "none" ->
               [k EXCEPT !.pending[t] = MergeMarkers(@, MarkerOf(r)),
                         !.applied = @ \cup {r}]
          [] OTHER ->
               RememberLogged(k, t, MergeMarkers(k.logOnly[t], MarkerOf(r)), oldest)

\* All rows of a query, as they come; and what the instance is told by them.
ApplyAll(k, rows, oldest) ==
    LET applied[n \in 0 .. Len(rows)] ==
            IF n = 0 THEN k ELSE ApplyRow(applied[n - 1], rows[n], oldest)
    IN  applied[Len(rows)]

ToldRow(all, r) == [all EXCEPT ![TagOf[r]] = MergeMarkers(@, MarkerOf(r))]
ToldAll(all, rows) ==
    LET heard[n \in 0 .. Len(rows)] ==
            IF n = 0 THEN all ELSE ToldRow(heard[n - 1], rows[n])
    IN  heard[Len(rows)]

\* forget, of what is known.
Forgotten(k) ==
    LET ofTracked == RaiseFloors(k, k.tags, k.marker)
        ofLogged  == RaiseFloors(ofTracked, k.logged, k.logOnly)
    IN  [NothingKnown EXCEPT !.pending = k.pending,
                             !.floor   = Later(ofLogged.floor, now),
                             !.later   = ofLogged.later]

\* knownMarker.
KnownMarker(k, t) ==
    IF t \in Tracked(k) THEN k.marker[t] ELSE MergeMarkers(k.logOnly[t], k.pending[t])

--------------------------------------------------------------------------------
(* The table, and the revalidations that write it. *)

Tick ==
    /\ now < MaxNow
    /\ now' = now + 1
    /\ UNCHANGED <<tableVars, known, reading, refreshVars, told>>

\* write, up to where it waits. Clocks are fine enough that two revalidations of
\* a tag are never stamped alike.
Revalidate(r, durations) ==
    LET t      == TagOf[r]
        marker == MarkerFor(now, durations)
    IN  /\ writes[r].row = "unsent"
        /\ \A s \in Revalidations : TagOf[s] = t => writes[s].at < now
        /\ writes' = [writes EXCEPT ![r] = [@ EXCEPT !.at = now, !.durations = durations,
                                                    !.row = "sent"]]
        /\ IF r \in Own
           THEN /\ known' = Set(known, t, ApplyMarker(known.marker[t], marker))
                /\ told' = [told EXCEPT ![t] = MergeMarkers(@, marker)]
           ELSE UNCHANGED <<known, told>>
        /\ UNCHANGED <<now, table, versions, reading, refreshVars>>

\* The UpdateItem and the log row's put land in either order, or never.
LandRow(r) ==
    /\ writes[r].row = "sent"
    /\ table' = [table EXCEPT ![TagOf[r]] = ApplyMarker(@, MarkerOf(r))]
    /\ versions' = [versions EXCEPT ![TagOf[r]] = @ \cup {table'[TagOf[r]]}]
    /\ writes' = [writes EXCEPT ![r].row  = "landed",
                                ![r].left = IF r \in Own THEN table'[TagOf[r]] ELSE @]
    /\ UNCHANGED <<now, known, reading, refreshVars, told>>

LandLogRow(r) ==
    /\ writes[r].row # "unsent"
    /\ writes[r].logAt = Absent
    /\ writes' = [writes EXCEPT ![r] = [@ EXCEPT !.logAt = now]]
    /\ UNCHANGED <<now, table, versions, known, reading, refreshVars, told>>

\* Reads are eventually consistent: an old version is one no read returns any
\* more once it has been replicated, and no read from before is in flight.
Replicate(t) ==
    /\ reading[t] = "none"
    /\ versions[t] # {table[t]}
    /\ versions' = [versions EXCEPT ![t] = {table[t]}]
    /\ UNCHANGED <<now, writes, table, known, reading, refreshVars, told>>

\* The row this instance's own write left, merged as it is answered.
AnswerRow(r) ==
    /\ r \in Own
    /\ writes[r].row = "landed"
    /\ LET t == TagOf[r]
       IN  /\ known' = Set(known, t, MergeMarkers(known.marker[t], writes[r].left))
           /\ told' = [told EXCEPT ![t] = MergeMarkers(@, writes[r].left)]
    /\ writes' = [writes EXCEPT ![r] = [@ EXCEPT !.row = "answered", !.left = NoMarker]]
    /\ UNCHANGED <<now, table, versions, reading, refreshVars>>

--------------------------------------------------------------------------------
(* Reads: ensure, track, startRead and readInto. *)

\* A use of a tag: ensure or track.
Use(t) ==
    /\ t \in Tracked(known)
    /\ known' = Touch(known, t)
    /\ UNCHANGED <<now, tableVars, reading, refreshVars, told>>

Ensure(t) ==
    /\ t \notin Tracked(known)
    /\ reading[t] = "none"
    /\ reading' = [reading EXCEPT ![t] = "first"]
    /\ UNCHANGED <<now, tableVars, known, refreshVars, told>>

\* A read begun before a forget is made again, once, answered or failed.
ReadAgain(t) ==
    /\ reading[t] = "outdated"
    /\ reading' = [reading EXCEPT ![t] = "again"]
    /\ UNCHANGED <<now, tableVars, known, refreshVars, told>>

ResumeRead(t) ==
    /\ reading[t] \in {"first", "again"}
    /\ \E found \in versions[t] :
          /\ known' = [Remember(TakePendingRows(known, t), t,
                               MergeMarkers(MergeMarkers(known.marker[t], found),
                                            PendingRows(known, t)))
                         EXCEPT !.unread = @ \ {t}]
          /\ told' = [told EXCEPT ![t] = MergeMarkers(@, found)]
    /\ reading' = [reading EXCEPT ![t] = "none"]
    /\ UNCHANGED <<now, tableVars, refreshVars>>

\* A failed read leaves the tag tracked, as it was or with an empty marker.
FailRead(t) ==
    /\ reading[t] \in {"first", "again"}
    /\ known' = [Remember(TakePendingRows(known, t), t,
                          MergeMarkers(known.marker[t], PendingRows(known, t)))
                    EXCEPT !.unread = @ \cup {t}]
    /\ reading' = [reading EXCEPT ![t] = "none"]
    /\ UNCHANGED <<now, tableVars, refreshVars, told>>

--------------------------------------------------------------------------------
(* Refreshes: refresh, sync and forget. *)

\* forget: a first read in flight is outdated.
Forget(at) ==
    /\ known' = Forgotten(known)
    /\ reading' = [t \in Tags |-> IF reading[t] = "first" THEN "outdated" ELSE reading[t]]
    /\ cursor' = at - Lookback
    /\ lastLogRead' = at
    /\ refreshing' = Absent

RefreshPastGap ==
    /\ refreshing = Absent
    /\ now - lastLogRead > MaxGap
    /\ Forget(now)
    /\ UNCHANGED <<now, tableVars, prunedAgainst, told>>

\* A query, and beside it the re-read of the tags whose read failed and of those
\* due, which may be any.
Refresh ==
    /\ refreshing = Absent
    /\ now - lastLogRead <= MaxGap
    /\ refreshing' = now
    /\ \E due \in SUBSET Tracked(known) :
          /\ known.unread \subseteq due
          /\ reading' = [t \in Tags |-> IF t \in due /\ reading[t] = "none"
                                        THEN "first" ELSE reading[t]]
    /\ UNCHANGED <<now, tableVars, known, cursor, lastLogRead, prunedAgainst, told>>

\* The rows a query that started at `at` may have returned, by now, in the order
\* of their keys: all from before it, and of those since any.
Answers(at) ==
    LET since  == {r \in Revalidations : writes[r].logAt # Absent /\ writes[r].logAt >= cursor}
        before == {r \in since : writes[r].logAt < at}
    IN  {rows \in UNION {SetToSeqs(before \cup more) : more \in SUBSET since} :
            \A i, j \in DOMAIN rows : i < j => writes[rows[i]].logAt <= writes[rows[j]].logAt}

\* The rest of sync, with the rows. `oldest` is what oldestEntry answers, which
\* depends on the entries held: no later than the oldest, past now with none.
ApplyRows(oldest) ==
    /\ refreshing # Absent
    /\ \E rows \in Answers(refreshing) :
          LET applied == ApplyAll(known, rows, oldest)
          IN  /\ known' = [IF oldest > prunedAgainst
                           THEN PruneLogged(applied, oldest) ELSE applied
                           EXCEPT !.applied =
                               {r \in @ : writes[r].logAt >= refreshing - Lookback}]
              /\ told' = ToldAll(told, rows)
    /\ prunedAgainst' = oldest
    /\ lastLogRead' = refreshing
    /\ cursor' = IF refreshing - Lookback > cursor THEN refreshing - Lookback ELSE cursor
    /\ refreshing' = Absent
    /\ UNCHANGED <<now, tableVars, reading>>

\* More rows than one query reads: of these tags, or of others.
ForgetTruncated ==
    /\ refreshing # Absent
    /\ Forget(refreshing)
    /\ UNCHANGED <<now, tableVars, prunedAgainst, told>>

FailQuery ==
    /\ refreshing # Absent
    /\ refreshing' = Absent
    /\ UNCHANGED <<now, tableVars, known, reading, cursor, lastLogRead, prunedAgainst, told>>

\* completeSince is asked: by a lookup in the 'use cache' handler.
AskCompleteSince ==
    /\ known' = PassedFloors(known)
    /\ UNCHANGED <<now, tableVars, reading, refreshVars, told>>

TableStep ==
    \/ \E r \in Revalidations :
          \/ \E durations \in Profiles[r] : Revalidate(r, durations)
          \/ LandRow(r)
          \/ LandLogRow(r)
          \/ AnswerRow(r)
    \/ \E t \in Tags : Replicate(t)

ReadStep ==
    \E t \in Tags :
        \/ Use(t)
        \/ Ensure(t)
        \/ ReadAgain(t)
        \/ ResumeRead(t)
        \/ FailRead(t)

RefreshStep ==
    \/ RefreshPastGap
    \/ Refresh
    \/ \E oldest \in OldestEntries : ApplyRows(oldest)
    \/ ForgetTruncated
    \/ FailQuery

Next ==
    \/ Tick
    \/ TableStep
    \/ ReadStep
    \/ RefreshStep
    \/ AskCompleteSince

Spec == Init /\ [][Next]_vars

--------------------------------------------------------------------------------
\* Every variable stays within its type, and the Maps within their bound.
TypeOK ==
    /\ now \in Nat
    /\ writes \in [Revalidations -> Write]
    /\ table \in [Tags -> Marker] /\ versions \in [Tags -> SUBSET Marker]
    /\ known \in Knowledge
    /\ Len(known.tags) <= MaxTracked /\ Len(known.logged) <= MaxTracked
    /\ Cardinality(known.later) <= MaxTracked
    /\ reading \in [Tags -> Reads]
    /\ cursor \in Int /\ lastLogRead \in Nat /\ prunedAgainst \in Int
    /\ refreshing \in Stamp
    /\ told \in [Tags -> Marker]

\* `marker` has later revalidations of both kinds than `of` has.
Covers(marker, of) == marker.revalidatedAt >= of.revalidatedAt /\ marker.staleAt >= of.staleAt

\* `marker` holds back every entry completeSince lets be judged at least as much
\* as `of` does.
Judges(marker, of) ==
    \/ Covers(marker, of)
    \/ \A createdAt \in CompleteSince(known) .. now :
          Severity(MarkerState(marker, createdAt, now)) >=
          Severity(MarkerState(of, createdAt, now))

\* Whatever the instance was told of a tag - by its own writes, the log and the
\* table, in any order, across reads, evictions, prunings and forgets - it still
\* holds somewhere, or completeSince is past it.
NothingLetGo ==
    \A t \in Tags : Judges(MergeMarkers(known.marker[t], PendingRows(known, t)), told[t])

\* completeSince as its comment has it (aws-cache-store.ts:782-788): an entry
\* created at or after it is judged by every revalidation the instance was told.
JudgedByAllTold ==
    \A t \in Tags : Judges(KnownMarker(known, t), told[t])

\* completeSince never moves back: an entry it does not vouch for it never will.
CompleteSinceNeverMovesBack ==
    [][CompleteSince(known)' >= CompleteSince(known)]_vars

\* No row in logOnly is known by what it was last pruned against, which is what
\* lets sync skip the pruning (aws-cache-store.ts, prunedAgainst).
PrunedStaysPruned ==
    \A t \in Logged(known) : KnownBy(known.logOnly[t], now) > prunedAgainst

\* What is known of a tag is in one place: tracked, or from the log alone, and
\* rows wait only for a read in flight.
KnownInOnePlace ==
    \A t \in Tags :
        /\ t \in Tracked(known) => t \notin Logged(known)
        /\ known.pending[t] # NoMarker => reading[t] # "none"
        /\ t \notin Tracked(known) => known.marker[t] = NoMarker
        /\ t \notin Logged(known) => known.logOnly[t] = NoMarker

\* The manifest's maps agree with each other, whatever is read, pruned or let go of.
ManifestConsistent == TypeOK /\ KnownInOnePlace /\ PrunedStaysPruned
================================================================================
