------------------------------- MODULE TagRefresh ------------------------------
(***************************************************************************)
(* When an instance asks the revalidation log, and who waits for the       *)
(* answer: refresh, catchUp and behind of TrackedTagMarkers in             *)
(* src/adapter/aws-cache-store.ts, and refreshTags of                      *)
(* src/adapter/use-cache-common.ts.                                        *)
(*                                                                         *)
(* An instance keeps up with the log in the background while it serves     *)
(* steady traffic. One that sat idle, or that Lambda froze, possibly with  *)
(* a query in flight, is behind: its next request waits. What a query says *)
(* is RevalidationLog's and TrackedTagMarkers' business; here it is as of  *)
(* when it ran.                                                            *)
(***************************************************************************)
EXTENDS Integers, FiniteSets

CONSTANTS
    Requests,
    Intervals,  \* the values of refreshIntervalMs; these are all natural numbers
    Grace,      \* TAG_REFRESH_GRACE_MS
    TickEvery,  \* REFRESH_TICK_MS, which is not zero
    Pause,      \* REFRESH_PAUSE_MS
    MaxRefresh, \* how long a refresh may run, its process running: the timeouts
    MaxFreezes, \* bound: how often the process is frozen
    MaxNow      \* bound: the last time the clock shows

ASSUME TimesAssumption == /\ Intervals \subseteq Nat /\ Grace \in Nat /\ TickEvery \in Nat \ {0}
                         /\ Pause \in Nat /\ MaxRefresh \in Nat
ASSUME BoundsAssumption == MaxFreezes \in Nat /\ MaxNow \in Nat

VARIABLES
    canFreeze,   \* of Lambda, where an instance serves one request at a time
    interval,    \* refreshIntervalMs
    now,
    freezes,     \* how often the process was frozen, and whether it is
    frozen,
    requests,    \* by request: where it stands
    oldest,      \* the timestamp of the oldest entry held, in any handler's store
    registered,  \* entryStores: whether a handler has registered one
    refreshing,  \* the refresh in flight, and the timer while it is
    lastRefresh,
    settledAt,
    asOf         \* when the last refresh to settle asked the log

config      == <<canFreeze, interval>>
processVars == <<now, freezes, frozen>>
storeVars   == <<oldest, registered>>
refreshVars == <<refreshing, lastRefresh, settledAt, asOf>>
vars == <<config, processVars, requests, storeVars, refreshVars>>

None == -1
Time == Nat \cup {None}

\* `phase` "waiting": for the refresh in flight, and if `again` for another call
\* of refresh after it. `caughtUp` is caughtUpRender. `begun` is when the entry
\* it generates was begun. `stale` is how long ago, when it was last let go, the
\* log had last been asked about the entries it may judge.
Request == [phase : {"away", "waiting", "resumed", "rendering"}, again : BOOLEAN,
            caughtUp : BOOLEAN, waits : Nat, begun : Time,
            stale : Time]
Away == [phase |-> "away", again |-> FALSE, caughtUp |-> FALSE, waits |-> 0,
         begun |-> None, stale |-> None]

\* `ran` is how long it has run with its process running, `asked` when the log
\* ran its query; then lastTick and pausedWhileRefreshing.
Refreshes     == [inFlight : BOOLEAN, ran : Nat, asked : Time, tick : Nat, paused : BOOLEAN]
NotRefreshing == [inFlight |-> FALSE, ran |-> 0, asked |-> None, tick |-> 0, paused |-> FALSE]

Init ==
    /\ canFreeze \in BOOLEAN /\ interval \in Intervals
    /\ now = 0 /\ freezes = 0 /\ frozen = FALSE
    /\ requests = [q \in Requests |-> Away]
    /\ oldest = None /\ registered = FALSE
    /\ refreshing = NotRefreshing
    /\ lastRefresh = -interval
    /\ settledAt = 0
    /\ asOf = 0

Later(a, b) == IF a >= b THEN a ELSE b

Overdue(at) == now - at > interval + Grace

Behind == interval = 0 \/ Overdue(settledAt)

\* Mutant: a tick that came late is looked for, one overdue is not.
PausedByLateTick == canFreeze /\ refreshing.paused

PausedSinceRefreshStarted ==
    canFreeze /\ (refreshing.paused \/ now - refreshing.tick > Pause)

HoldsEntries == oldest # None

--------------------------------------------------------------------------------
(* The process. *)

\* A refresh in flight has settled once it has run as long as it may, and who
\* waited for it resumes at once.
Tick ==
    /\ now < MaxNow
    /\ \A q \in Requests : requests[q].phase # "resumed"
    /\ refreshing.inFlight /\ ~frozen => refreshing.ran < MaxRefresh
    /\ now' = now + 1
    /\ refreshing' = [refreshing EXCEPT !.ran = IF refreshing.inFlight /\ ~frozen
                                                THEN @ + 1 ELSE @]
    /\ UNCHANGED <<config, freezes, frozen, requests, storeVars, lastRefresh, settledAt, asOf>>

\* Lambda freezes the process once no invocation runs, whatever is in flight.
Freeze ==
    /\ canFreeze /\ ~frozen /\ freezes < MaxFreezes
    /\ \A q \in Requests : requests[q].phase = "away"
    /\ frozen' = TRUE
    /\ freezes' = freezes + 1
    /\ UNCHANGED <<config, now, requests, storeVars, refreshVars>>

Thaw ==
    /\ frozen
    /\ frozen' = FALSE
    /\ UNCHANGED <<config, now, freezes, requests, storeVars, refreshVars>>

--------------------------------------------------------------------------------
(* refresh. *)

\* A call that finds none in flight, and the last one long enough ago. With no
\* store registered and no tag tracked, which is not kept here, there is nothing
\* to catch up on.
StartRefresh(stores) ==
    /\ lastRefresh' = now
    /\ \/ /\ ~stores
          /\ UNCHANGED refreshing
       \/ refreshing' = [NotRefreshing EXCEPT !.inFlight = TRUE,
                                              !.tick = IF canFreeze THEN now ELSE 0]

\* What a call of refresh does, but for what it leaves to wait for.
Refresh(stores) ==
    /\ \/ /\ refreshing.inFlight \/ now - lastRefresh < interval
          /\ UNCHANGED <<refreshing, lastRefresh>>
       \/ /\ ~refreshing.inFlight /\ now - lastRefresh >= interval
          /\ StartRefresh(stores)
    /\ UNCHANGED <<settledAt, asOf>>

\* A request let go on. What the log said before the oldest entry was begun
\* applies to none.
LetGo(request) ==
    [request EXCEPT !.phase = "rendering", !.again = FALSE, !.waits = 0,
                    !.stale = IF HoldsEntries THEN now - Later(asOf, oldest) ELSE 0]

\* Mutant: whoever is behind calls refresh again, paused or not.
WaitedForTwice(request) ==
    IF refreshing'.inFlight
    THEN [request EXCEPT !.phase = "waiting", !.waits = @ + 1, !.again = Behind]
    ELSE LetGo(request)

\* A request that waits for what refresh returns: a refresh from before a freeze
\* says nothing of what ran meanwhile, so it calls refresh again after it.
WaitedFor(request) ==
    IF refreshing'.inFlight
    THEN [request EXCEPT !.phase = "waiting", !.waits = @ + 1,
                         !.again = refreshing.inFlight /\ Behind /\ PausedSinceRefreshStarted]
    ELSE LetGo(request)

\* DynamoDB runs the query, whether or not the process runs.
AskLog ==
    /\ refreshing.inFlight /\ refreshing.asked = None
    /\ refreshing' = [refreshing EXCEPT !.asked = now]
    /\ UNCHANGED <<config, processVars, requests, storeVars, lastRefresh, settledAt, asOf>>

\* The timer, at any time from when it is due.
TimerTicks ==
    /\ canFreeze /\ ~frozen /\ refreshing.inFlight
    /\ now - refreshing.tick >= TickEvery
    /\ refreshing' = [refreshing EXCEPT !.tick = now,
                                        !.paused = @ \/ now - refreshing.tick > Pause]
    /\ UNCHANGED <<config, processVars, requests, storeVars, lastRefresh, settledAt, asOf>>

Resumed(request) ==
    IF request.phase = "waiting" THEN [request EXCEPT !.phase = "resumed"] ELSE request

\* Mutant: a request of the log that is never answered never times out.
AnsweredAsOf == {refreshing.asked} \ {None}

\* What a refresh that settles now knows the log as of: when it was asked, or
\* when the refresh started if it failed, which counts too.
SettledAsOf == {lastRefresh} \cup ({refreshing.asked} \ {None})

\* Mutant: the timer is not stopped.
StillTicking == [NotRefreshing EXCEPT !.tick = refreshing.tick]

\* stopTicking, and none in flight.
StopTicking == NotRefreshing

\* `finally`, and whoever waits resumes.
Settle ==
    /\ refreshing.inFlight /\ ~frozen
    /\ \E at \in SettledAsOf : asOf' = Later(asOf, at)
    /\ settledAt' = Later(settledAt, IF PausedSinceRefreshStarted THEN lastRefresh ELSE now)
    /\ refreshing' = StopTicking
    /\ requests' = [q \in Requests |-> Resumed(requests[q])]
    /\ UNCHANGED <<config, processVars, storeVars, lastRefresh>>

--------------------------------------------------------------------------------
(* Requests: a page through catchUp, anything else straight to its lookups. *)

Arrives(q) ==
    /\ ~frozen
    /\ requests[q].phase = "away"
    /\ canFreeze => \A p \in Requests : requests[p].phase = "away"

\* catchUp of an instance behind that holds nothing: not caught up.
ArriveEmpty(q) ==
    /\ Arrives(q)
    /\ interval > 0 /\ Behind /\ ~HoldsEntries
    /\ requests' = [requests EXCEPT ![q] = [Away EXCEPT !.phase = "rendering"]]
    /\ UNCHANGED <<config, processVars, storeVars, refreshVars>>

\* catchUp of an instance behind.
ArriveBehind(q) ==
    /\ Arrives(q)
    /\ interval > 0 /\ Behind /\ HoldsEntries
    /\ Refresh(registered)
    /\ requests' = [requests EXCEPT ![q] = WaitedFor([@ EXCEPT !.caughtUp = TRUE])]
    /\ UNCHANGED <<config, processVars, storeVars>>

\* catchUp of one that keeps up: the refresh is started, not waited for.
ArriveCurrent(q) ==
    /\ Arrives(q)
    /\ interval > 0 /\ ~Behind
    /\ Refresh(registered)
    /\ requests' = [requests EXCEPT ![q] = LetGo([@ EXCEPT !.caughtUp = TRUE])]
    /\ UNCHANGED <<config, processVars, storeVars>>

\* A page with an interval of 0, which refreshTags asks for, or a route handler.
ArriveUncaught(q, caughtUp) ==
    /\ Arrives(q)
    /\ caughtUp => interval = 0
    /\ requests' = [requests EXCEPT ![q] =
                       [Away EXCEPT !.phase = "rendering", !.caughtUp = caughtUp]]
    /\ UNCHANGED <<config, processVars, storeVars, refreshVars>>

\* After the refresh it waited for, a request is let go on, or calls again.
Resume(q) ==
    /\ requests[q].phase = "resumed"
    /\ \/ /\ requests[q].again
          /\ Refresh(registered)
          /\ requests' = [requests EXCEPT ![q] = WaitedFor(@)]
       \/ /\ ~requests[q].again
          /\ requests' = [requests EXCEPT ![q] = LetGo(@)]
          /\ UNCHANGED refreshVars
    /\ UNCHANGED <<config, processVars, storeVars>>

\* behindInRender.
BehindInRender(q) == ~(interval # 0 /\ requests[q].caughtUp) /\ Behind

\* refreshTags, in a 'use cache' lookup: the first one creates the handler.
\* A caught-up render waits no more, and keeps what it was let go with.
RefreshTags(q) ==
    /\ requests[q].phase = "rendering"
    /\ registered' = TRUE
    /\ Refresh(TRUE)
    /\ requests' = [requests EXCEPT ![q] =
           CASE BehindInRender(q) /\ HoldsEntries       -> WaitedFor(@)
             [] ~BehindInRender(q) /\ @.caughtUp /\ interval # 0 -> @
             [] OTHER                                   -> LetGo(@)]
    /\ UNCHANGED <<config, processVars, oldest>>

\* The remote handler's refreshTags waits whether behind or not: its entries
\* may be older than the instance.
RefreshTagsBlocking(q) ==
    /\ requests[q].phase = "rendering"
    /\ Refresh(registered)
    /\ requests' = [requests EXCEPT ![q] = WaitedFor(@)]
    /\ UNCHANGED <<config, processVars, storeVars>>

\* A lookup misses and generates an entry, stamped with when it began.
BeginEntry(q) ==
    /\ requests[q].phase = "rendering" /\ registered
    /\ requests[q].begun = None
    /\ requests' = [requests EXCEPT ![q] = [@ EXCEPT !.begun = now]]
    /\ UNCHANGED <<config, processVars, storeVars, refreshVars>>

StoreEntry(q) ==
    /\ requests[q].phase = "rendering"
    /\ requests[q].begun # None
    /\ oldest' = IF HoldsEntries /\ oldest <= requests[q].begun
                 THEN oldest ELSE requests[q].begun
    /\ requests' = [requests EXCEPT ![q] = [@ EXCEPT !.begun = None]]
    /\ UNCHANGED <<config, processVars, registered, refreshVars>>

\* The oldest entry is evicted, dropped or replaced.
DropOldest ==
    /\ ~frozen /\ HoldsEntries
    /\ oldest' \in {None} \cup oldest + 1 .. now
    /\ UNCHANGED <<config, processVars, requests, registered, refreshVars>>

Leave(q) ==
    /\ requests[q].phase = "rendering"
    /\ requests' = [requests EXCEPT ![q] = Away]
    /\ UNCHANGED <<config, processVars, storeVars, refreshVars>>

Next ==
    \/ Tick \/ Freeze \/ Thaw
    \/ AskLog \/ TimerTicks \/ Settle
    \/ DropOldest
    \/ \E q \in Requests :
          \/ ArriveEmpty(q) \/ ArriveBehind(q) \/ ArriveCurrent(q)
          \/ \E caughtUp \in BOOLEAN : ArriveUncaught(q, caughtUp)
          \/ Resume(q) \/ RefreshTags(q) \/ RefreshTagsBlocking(q)
          \/ BeginEntry(q) \/ StoreEntry(q) \/ Leave(q)

\* A request of the log settles or times out, and the event loop runs what waits.
Fairness ==
    /\ WF_vars(Settle)
    /\ \A q \in Requests : WF_vars(Resume(q))

Spec == Init /\ [][Next]_vars /\ Fairness

--------------------------------------------------------------------------------
\* Every variable stays within its type.
TypeOK ==
    /\ canFreeze \in BOOLEAN /\ interval \in Intervals
    /\ now \in Nat /\ freezes \in 0 .. MaxFreezes /\ frozen \in BOOLEAN
    /\ requests \in [Requests -> Request]
    /\ \A q \in Requests : requests[q].again => requests[q].phase \in {"waiting", "resumed"}
    /\ oldest \in Time /\ registered \in BOOLEAN
    /\ refreshing \in Refreshes /\ refreshing.ran <= MaxRefresh
    /\ ~refreshing.inFlight => refreshing = NotRefreshing
    /\ lastRefresh \in Int /\ settledAt \in Nat /\ asOf \in Nat

\* How stale the log's answer may be that a request is let go with: "within about
\* 2 s (the interval, plus a second's grace ..., plus the query)" of
\* docs/caching-guide.md, and the pauses too short to tell from a slow query.
\* With an interval of 0 every check waits for the log.
Window == (IF interval = 0 THEN 0 ELSE interval + Grace) + MaxRefresh + MaxFreezes * Pause

\* A request that is let go to judge entries, waiting or not, does so by what the
\* log said no longer ago than the window, or its entries are that recent -
\* across idle spells and freezes with a refresh in flight, and a failed refresh
\* taken for one that asked as it started.
LetGoCurrent == \A q \in Requests : requests[q].stale <= Window

\* settledAt vouches for no more than what was asked: one that spanned a freeze
\* counts from its start (refresh's finally).
SettledIsAsked == settledAt - asOf <= MaxRefresh + MaxFreezes * Pause
RefreshConsistent == TypeOK /\ SettledIsAsked

\* On Lambda a call waits for two refreshes at most: one from before the freeze,
\* and a fresh one after it (refresh).
AtMostTwoWaits == canFreeze => \A q \in Requests : requests[q].waits <= 2

\* A request that waits is let go on, failed refreshes or not.
EveryWaitEnds ==
    \A q \in Requests :
        requests[q].phase = "waiting" ~> requests[q].phase = "rendering"
================================================================================
