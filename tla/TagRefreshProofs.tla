--------------------------- MODULE TagRefreshProofs ---------------------------
(***************************************************************************)
(* How recent the log's answer is that an instance judges entries by,      *)
(* proved for every interval, every pause and any number of freezes, and   *)
(* how often a request waits for it.                                       *)
(***************************************************************************)
EXTENDS TagRefresh, TLAPS

\* How long the process was frozen while the refresh in flight ran.
FrozenFor == now - lastRefresh - refreshing.ran

\* Nothing is stamped ahead of the clock, and a refresh is younger than the last.
ClockAhead ==
    /\ asOf <= now /\ settledAt <= now /\ lastRefresh <= now /\ oldest <= now
    /\ \A q \in Requests : requests[q].begun <= now
    /\ refreshing.inFlight =>
          /\ settledAt <= lastRefresh
          /\ refreshing.asked # None => lastRefresh <= refreshing.asked /\ refreshing.asked <= now
          /\ canFreeze => refreshing.tick <= now

\* On Lambda an instance serves one request at a time, and is frozen without one.
OneAtATime ==
    /\ frozen => canFreeze /\ freezes > 0 /\ \A q \in Requests : requests[q].phase = "away"
    /\ canFreeze => \A p, q \in Requests :
          requests[p].phase # "away" /\ requests[q].phase # "away" => p = q

\* Entries are of a registered store; and if the last refresh was none, there being
\* nothing to catch up on, they came after it.
EntriesFollow ==
    /\ HoldsEntries => registered
    /\ \A q \in Requests : requests[q].begun # None => registered
    /\ refreshing.inFlight \/ lastRefresh <= asOf
       \/ /\ HoldsEntries => lastRefresh <= oldest
          /\ \A q \in Requests : requests[q].begun # None => lastRefresh <= requests[q].begun

\* A refresh that was not found paused was frozen for a pause per freeze at most, the
\* last one perhaps not over, or not yet found.
FreezesAreFound ==
    refreshing.inFlight =>
        /\ ~canFreeze => FrozenFor = 0
        /\ canFreeze /\ ~refreshing.paused =>
              \/ ~frozen /\ FrozenFor <= freezes * Pause
              \/ FrozenFor + Pause <= freezes * Pause + (now - refreshing.tick)

\* Who waits once, or has done so, waits for what is recent enough.
WaitsForCurrent == \A q \in Requests :
    /\ requests[q].phase = "waiting" =>
          /\ refreshing.inFlight
          /\ ~requests[q].again => FrozenFor + MaxRefresh <= Window
    /\ requests[q].phase = "resumed" /\ ~requests[q].again => now - asOf <= Window

\* On Lambda: for a refresh another request left, then for its own.
WaitsCounted == \A q \in Requests :
    /\ requests[q].phase \in {"away", "rendering"} => requests[q].waits = 0
    /\ canFreeze => /\ requests[q].waits <= 2
                    /\ requests[q].again => requests[q].waits <= 1
                    /\ requests[q].phase = "resumed" => ~refreshing.inFlight

IInv ==
    /\ TypeOK /\ SettledIsAsked /\ LetGoCurrent
    /\ ClockAhead /\ OneAtATime /\ EntriesFollow /\ FreezesAreFound
    /\ WaitsForCurrent /\ WaitsCounted

--------------------------------------------------------------------------------
USE DEF None, Time

\* What one more freeze adds.
LEMMA PausesAddUp ==
    ASSUME NEW n \in Nat
    PROVE  n * Pause \in Nat /\ (n + 1) * Pause = n * Pause + Pause
BY TimesAssumption

LEMMA FewerPauses ==
    ASSUME NEW m \in Nat, NEW n \in 0 .. m
    PROVE  n * Pause <= m * Pause
BY TimesAssumption

\* The assumptions on the constants, and the types of what they make up.
LEMMA Durations ==
    ASSUME TypeOK
    PROVE  /\ interval \in Nat /\ Grace \in Nat /\ Pause \in Nat /\ MaxRefresh \in Nat
           /\ freezes * Pause \in Nat /\ MaxFreezes * Pause \in Nat
           /\ freezes * Pause <= MaxFreezes * Pause
           /\ Window \in Nat
BY TimesAssumption, BoundsAssumption, PausesAddUp, FewerPauses DEF TypeOK, Window

LEMMA Starts == Init => IInv
<1> SUFFICES ASSUME Init PROVE IInv
  OBVIOUS
<1>1. TypeOK
  <2>1. Away \in Request /\ NotRefreshing \in Refreshes
    BY DEF Away, Request, NotRefreshing, Refreshes
  <2>2. interval \in Intervals /\ interval \in Nat /\ lastRefresh \in Int
    BY TimesAssumption DEF Init
  <2>3. \A q \in Requests : requests[q] = Away
    BY DEF Init
  <2>4. 0 \in 0 .. MaxFreezes /\ NotRefreshing.ran <= MaxRefresh
    BY TimesAssumption, BoundsAssumption DEF NotRefreshing
  <2>5. requests \in [Requests -> Request]
    BY <2>1 DEF Init
  <2>6. QED
    BY <2>1, <2>2, <2>3, <2>4, <2>5 DEF Init, TypeOK, Away
<1>2. QED
  <2>1. \A q \in Requests : requests[q] = Away
    BY DEF Init
  <2>2. QED
    BY <1>1, <2>1, Durations DEF Init, IInv, SettledIsAsked, LetGoCurrent, ClockAhead, OneAtATime,
       EntriesFollow, FreezesAreFound, WaitsForCurrent, WaitsCounted, Away, NotRefreshing,
       HoldsEntries

LEMMA TickKeeps == IInv /\ Tick => IInv'
<1> SUFFICES ASSUME IInv, Tick PROVE IInv'
  OBVIOUS
<1> USE DEF Tick, config, storeVars
<1>0. TypeOK
  BY DEF IInv
<1>1. refreshing' \in Refreshes /\ refreshing'.ran \in Nat /\ refreshing.ran \in Nat
      /\ refreshing'.inFlight = refreshing.inFlight /\ refreshing'.asked = refreshing.asked
      /\ refreshing'.tick = refreshing.tick /\ refreshing'.paused = refreshing.paused
      /\ refreshing'.ran = IF refreshing.inFlight /\ ~frozen THEN refreshing.ran + 1 ELSE refreshing.ran
  BY <1>0 DEF TypeOK, Refreshes
<1>2. TypeOK'
  <2>1. refreshing'.ran <= MaxRefresh
    BY <1>0, <1>1, TimesAssumption DEF TypeOK
  <2>2. ~refreshing'.inFlight => refreshing' = NotRefreshing
    BY <1>0, <1>1 DEF TypeOK, Refreshes, NotRefreshing
  <2>3. QED
    BY <1>0, <1>1, <2>1, <2>2 DEF TypeOK
<1>3. SettledIsAsked' /\ LetGoCurrent' /\ ClockAhead' /\ OneAtATime' /\ EntriesFollow'
  BY <1>0, <1>1 DEF IInv, SettledIsAsked, LetGoCurrent, ClockAhead, OneAtATime, EntriesFollow,
     HoldsEntries, TypeOK, Request, Refreshes, Window
<1>4. FreezesAreFound'
  BY <1>0, <1>1, Durations DEF IInv, FreezesAreFound, FrozenFor, TypeOK, Refreshes, OneAtATime
<1>5. WaitsForCurrent'
  BY <1>0, <1>1 DEF IInv, WaitsForCurrent, OneAtATime, FrozenFor, TypeOK, Window
<1>6. WaitsCounted'
  BY <1>0, <1>1 DEF IInv, WaitsCounted
<1>7. QED
  BY <1>2, <1>3, <1>4, <1>5, <1>6 DEF IInv
LEMMA FreezeKeeps == IInv /\ Freeze => IInv'
<1> SUFFICES ASSUME IInv, Freeze PROVE IInv'
  OBVIOUS
<1> USE DEF Freeze, config, storeVars, refreshVars
<1>0. TypeOK
  BY DEF IInv
<1>1. freezes + 1 \in 0 .. MaxFreezes /\ freezes \in Nat
  BY <1>0, BoundsAssumption DEF TypeOK
<1>2. TypeOK'
  BY <1>0, <1>1 DEF TypeOK
<1>3. SettledIsAsked' /\ LetGoCurrent' /\ ClockAhead' /\ OneAtATime' /\ EntriesFollow'
  BY <1>0, <1>1 DEF IInv, SettledIsAsked, LetGoCurrent, ClockAhead, OneAtATime, EntriesFollow,
     HoldsEntries, Window
<1>4. FreezesAreFound'
  <2>1. freezes' * Pause = freezes * Pause + Pause /\ freezes * Pause \in Int /\ Pause \in Nat
    BY <1>1, PausesAddUp, TimesAssumption
  <2>2. refreshing.inFlight => refreshing.ran \in Nat /\ refreshing.tick \in Nat
    BY <1>0 DEF TypeOK, Refreshes
  <2>3. refreshing.inFlight /\ canFreeze => refreshing.tick <= now
    BY DEF IInv, ClockAhead
  <2>4. FrozenFor \in Int /\ FrozenFor' = FrozenFor /\ now \in Nat
    BY <1>0 DEF FrozenFor, TypeOK, Refreshes
  <2>5. QED
    BY <2>1, <2>2, <2>3, <2>4 DEF IInv, FreezesAreFound
<1>5. WaitsForCurrent' /\ WaitsCounted'
  BY <1>0 DEF IInv, WaitsForCurrent, WaitsCounted, FrozenFor, Window
<1>6. QED
  BY <1>2, <1>3, <1>4, <1>5 DEF IInv

LEMMA ThawKeeps == IInv /\ Thaw => IInv'
<1> SUFFICES ASSUME IInv, Thaw PROVE IInv'
  OBVIOUS
<1> USE DEF Thaw, config, storeVars, refreshVars, IInv
<1>1. TypeOK' /\ SettledIsAsked' /\ LetGoCurrent' /\ ClockAhead' /\ OneAtATime' /\ EntriesFollow'
  BY DEF TypeOK, SettledIsAsked, LetGoCurrent, ClockAhead, OneAtATime, EntriesFollow,
     HoldsEntries, Window
<1>2. FreezesAreFound' /\ WaitsForCurrent' /\ WaitsCounted'
  BY DEF FreezesAreFound, WaitsForCurrent, WaitsCounted, FrozenFor, Window
<1>3. QED
  BY <1>1, <1>2

LEMMA AskLogKeeps == IInv /\ AskLog => IInv'
<1> SUFFICES ASSUME IInv, AskLog PROVE IInv'
  OBVIOUS
<1> USE DEF AskLog, config, storeVars, processVars
<1>0. TypeOK
  BY DEF IInv
<1>1. /\ refreshing' \in Refreshes /\ refreshing'.ran = refreshing.ran /\ refreshing'.inFlight
      /\ refreshing'.asked = now /\ refreshing'.tick = refreshing.tick
      /\ refreshing'.paused = refreshing.paused
  BY <1>0 DEF TypeOK, Refreshes
<1>2. TypeOK'
  BY <1>0, <1>1 DEF TypeOK
<1>3. SettledIsAsked' /\ LetGoCurrent' /\ ClockAhead' /\ OneAtATime' /\ EntriesFollow'
  BY <1>0, <1>1 DEF IInv, SettledIsAsked, LetGoCurrent, ClockAhead, OneAtATime, EntriesFollow,
     HoldsEntries, Window, TypeOK
<1>4. FreezesAreFound' /\ WaitsForCurrent' /\ WaitsCounted'
  BY <1>0, <1>1 DEF IInv, FreezesAreFound, WaitsForCurrent, WaitsCounted, FrozenFor, Window
<1>5. QED
  BY <1>2, <1>3, <1>4 DEF IInv

LEMMA TimerTicksKeeps == IInv /\ TimerTicks => IInv'
<1> SUFFICES ASSUME IInv, TimerTicks PROVE IInv'
  OBVIOUS
<1> USE DEF TimerTicks, config, storeVars, processVars
<1>0. TypeOK
  BY DEF IInv
<1>1. /\ refreshing' \in Refreshes /\ refreshing'.ran = refreshing.ran /\ refreshing'.inFlight
      /\ refreshing'.asked = refreshing.asked /\ refreshing'.tick = now
      /\ ~refreshing'.paused => ~refreshing.paused /\ now - refreshing.tick <= Pause
  <2>1. PICK found \in BOOLEAN : found <=> refreshing.paused \/ now - refreshing.tick > Pause
    OBVIOUS
  <2>2. refreshing' = [refreshing EXCEPT !.tick = now, !.paused = found]
    BY <1>0, <2>1 DEF TypeOK, Refreshes
  <2>3. refreshing.tick \in Nat /\ now \in Nat /\ refreshing \in Refreshes /\ Pause \in Nat
    BY <1>0, TimesAssumption DEF TypeOK, Refreshes
  <2>4. refreshing' \in Refreshes /\ refreshing'.paused = found
    BY <2>1, <2>2, <2>3 DEF Refreshes
  <2>5. /\ refreshing'.ran = refreshing.ran /\ refreshing'.inFlight = refreshing.inFlight
        /\ refreshing'.asked = refreshing.asked /\ refreshing'.tick = now
    BY <2>2, <2>3 DEF Refreshes
  <2>6. QED
    BY <2>1, <2>3, <2>4, <2>5
<1>2. TypeOK'
  BY <1>0, <1>1 DEF TypeOK
<1>3. SettledIsAsked' /\ LetGoCurrent' /\ ClockAhead' /\ OneAtATime' /\ EntriesFollow'
  BY <1>0, <1>1 DEF IInv, SettledIsAsked, LetGoCurrent, ClockAhead, OneAtATime, EntriesFollow,
     HoldsEntries, Window, TypeOK
<1>4. FreezesAreFound'
  <2>1. FrozenFor \in Int /\ FrozenFor' = FrozenFor /\ now \in Nat
    BY <1>0, <1>1 DEF FrozenFor, TypeOK, Refreshes
  <2>2. refreshing.tick \in Nat
    BY <1>0 DEF TypeOK, Refreshes
  <2>3. QED
    BY <1>0, <1>1, <2>1, <2>2, Durations DEF IInv, FreezesAreFound
<1>5. WaitsForCurrent' /\ WaitsCounted'
  BY <1>0, <1>1 DEF IInv, WaitsForCurrent, WaitsCounted, FrozenFor, Window
<1>6. QED
  BY <1>2, <1>3, <1>4, <1>5 DEF IInv

\* Whoever waited resumes, and by then the log is known as of when the refresh started.
LEMMA SettleKeeps == IInv /\ Settle => IInv'
<1> SUFFICES ASSUME IInv, Settle PROVE IInv'
  OBVIOUS
<1> USE DEF Settle, config, storeVars, processVars
<1>0. TypeOK
  BY DEF IInv
<1>1. PICK at \in SettledAsOf : asOf' = Later(asOf, at)
  OBVIOUS
<1>2. /\ at \in Nat /\ lastRefresh <= at /\ at <= now /\ lastRefresh \in Nat
      /\ refreshing.ran \in Nat /\ refreshing.ran <= MaxRefresh /\ refreshing.tick \in Nat
  <2>1. /\ refreshing.ran \in Nat /\ refreshing.ran <= MaxRefresh /\ refreshing.tick \in Nat
        /\ refreshing.asked \in Time /\ lastRefresh \in Int /\ settledAt \in Nat /\ now \in Nat
    BY <1>0 DEF TypeOK, Refreshes
  <2>2. /\ settledAt <= lastRefresh /\ lastRefresh <= now
        /\ refreshing.asked # None => lastRefresh <= refreshing.asked /\ refreshing.asked <= now
    BY DEF IInv, ClockAhead
  <2>3. at = lastRefresh \/ (at = refreshing.asked /\ refreshing.asked # None)
    BY DEF SettledAsOf
  <2>4. QED
    BY <2>1, <2>2, <2>3
<1>3. asOf' \in Nat /\ asOf <= asOf' /\ lastRefresh <= asOf' /\ asOf' <= now
  BY <1>0, <1>1, <1>2 DEF Later, TypeOK, IInv, ClockAhead
<1>4. settledAt' \in Nat /\ settledAt' <= now /\ settledAt' \in {lastRefresh, now}
  BY <1>0, <1>2 DEF Later, TypeOK, IInv, ClockAhead
<1>5. /\ refreshing' \in Refreshes /\ ~refreshing'.inFlight /\ refreshing'.ran = 0
      /\ refreshing' = NotRefreshing
  BY DEF StopTicking, NotRefreshing, Refreshes
<1>6. \A q \in Requests :
         /\ requests'[q] = Resumed(requests[q]) /\ requests[q] \in Request
         /\ Resumed(requests[q]) \in Request
         /\ requests'[q].begun = requests[q].begun /\ requests'[q].stale = requests[q].stale
         /\ requests'[q].waits = requests[q].waits /\ requests'[q].again = requests[q].again
         /\ \/ requests[q].phase = "waiting" /\ requests'[q].phase = "resumed"
            \/ requests[q].phase # "waiting" /\ requests'[q].phase = requests[q].phase
  BY <1>0 DEF Resumed, TypeOK, Request
<1>7. TypeOK'
  <2>1. requests' \in [Requests -> Request]
    BY <1>6
  <2>2. refreshing'.ran <= MaxRefresh
    BY <1>5, TimesAssumption
  <2>3. \A q \in Requests : requests'[q].again => requests'[q].phase \in {"waiting", "resumed"}
    BY <1>0, <1>6 DEF TypeOK
  <2>4. QED
    BY <1>0, <1>3, <1>4, <1>5, <2>1, <2>2, <2>3 DEF TypeOK
<1>8. SettledIsAsked'
  <2>1. CASE PausedSinceRefreshStarted
    <3>1. settledAt' = Later(settledAt, lastRefresh)
      BY <2>1
    <3>2. settledAt' <= asOf'
      BY <1>0, <1>2, <1>3, <3>1 DEF Later, IInv, ClockAhead, TypeOK
    <3>3. QED
      BY <1>0, <1>3, <1>4, <3>2, Durations DEF SettledIsAsked
  <2>2. CASE ~PausedSinceRefreshStarted
    <3>1. FrozenFor <= freezes * Pause
      BY <1>0, <1>2, <2>2, Durations DEF IInv, FreezesAreFound, PausedSinceRefreshStarted, FrozenFor,
         TypeOK
    <3>2. QED
      BY <1>0, <1>2, <1>3, <1>4, <3>1, Durations DEF SettledIsAsked, FrozenFor, TypeOK
  <2>3. QED
    BY <2>1, <2>2
<1>9. LetGoCurrent' /\ ClockAhead' /\ OneAtATime'
  <2>1. LetGoCurrent' /\ ClockAhead'
    BY <1>0, <1>3, <1>4, <1>5, <1>6 DEF IInv, LetGoCurrent, ClockAhead, Window
  <2>2. OneAtATime'
    BY <1>6 DEF IInv, OneAtATime
  <2>3. QED
    BY <2>1, <2>2
<1>10. EntriesFollow' /\ FreezesAreFound'
  BY <1>3, <1>5, <1>6 DEF IInv, EntriesFollow, FreezesAreFound, HoldsEntries
<1>11. WaitsForCurrent'
  <2>1. SUFFICES ASSUME NEW q \in Requests, requests'[q].phase = "resumed", ~requests'[q].again
                 PROVE  now' - asOf' <= Window'
    BY <1>6 DEF WaitsForCurrent
  <2>2. Window' = Window
    BY DEF Window
  <2>3. CASE requests[q].phase = "waiting"
    BY <1>0, <1>2, <1>3, <1>6, <2>1, <2>2, <2>3, Durations DEF IInv, WaitsForCurrent, FrozenFor, TypeOK
  <2>4. CASE requests[q].phase # "waiting"
    BY <1>0, <1>3, <1>6, <2>1, <2>2, <2>4, Durations DEF IInv, WaitsForCurrent, TypeOK
  <2>5. QED
    BY <2>3, <2>4
<1>12. WaitsCounted'
  BY <1>5, <1>6 DEF IInv, WaitsCounted
<1>13. QED
  BY <1>7, <1>8, <1>9, <1>10, <1>11, <1>12 DEF IInv
\* A request arrives to render at once, or leaves, and nothing else changes.
LEMMA PlainKeeps ==
    ASSUME IInv, NEW q \in Requests, NEW r \in Request,
           canFreeze /\ r.phase # "away" => \A p \in Requests \ {q} : requests[p].phase = "away",
           frozen => r.phase = "away",
           r.phase \in {"away", "rendering"}, ~r.again, r.waits = 0, r.begun = None,
           r.stale = None,
           requests' = [requests EXCEPT ![q] = r],
           UNCHANGED <<config, processVars, storeVars, refreshVars>>
    PROVE  IInv'
<1> USE DEF config, processVars, storeVars, refreshVars
<1>0. TypeOK
  BY DEF IInv
<1>1. requests'[q] = r /\ \A p \in Requests \ {q} : requests'[p] = requests[p]
  BY <1>0 DEF TypeOK
<1>2. TypeOK'
  BY <1>0, <1>1 DEF TypeOK
<1>3. SettledIsAsked' /\ LetGoCurrent' /\ ClockAhead'
  BY <1>0, <1>1, Durations DEF IInv, SettledIsAsked, LetGoCurrent, ClockAhead, TypeOK, Window
<1>4. OneAtATime'
  BY <1>0, <1>1 DEF IInv, OneAtATime
<1>5. EntriesFollow' /\ FreezesAreFound'
  BY <1>0, <1>1 DEF IInv, EntriesFollow, FreezesAreFound, FrozenFor, HoldsEntries
<1>6. WaitsForCurrent'
  BY <1>1 DEF IInv, WaitsForCurrent, FrozenFor, Window
<1>7. WaitsCounted'
  BY <1>1 DEF IInv, WaitsCounted
<1>8. QED
  BY <1>2, <1>3, <1>4, <1>5, <1>6, <1>7 DEF IInv

LEMMA ArrivesPlainKeeps ==
    ASSUME IInv, NEW q \in Requests,
           \/ ArriveEmpty(q)
           \/ \E caughtUp \in BOOLEAN : ArriveUncaught(q, caughtUp)
    PROVE  IInv'
<1> DEFINE Rendering(caughtUp) == [Away EXCEPT !.phase = "rendering", !.caughtUp = caughtUp]
<1>1. \A caughtUp \in BOOLEAN :
         /\ Rendering(caughtUp) \in Request /\ Rendering(caughtUp).phase = "rendering"
         /\ ~Rendering(caughtUp).again /\ Rendering(caughtUp).waits = 0
         /\ Rendering(caughtUp).begun = None /\ Rendering(caughtUp).stale = None
  BY DEF Away, Request
<1>2. [Away EXCEPT !.phase = "rendering"] = Rendering(FALSE)
  <2>1. [Away EXCEPT !.phase = "rendering"]
           = [[Away EXCEPT !.phase = "rendering"] EXCEPT !.caughtUp = Away.caughtUp]
    BY DEF Away
  <2>2. Away.caughtUp = FALSE
    BY DEF Away
  <2>3. QED
    BY <2>1, <2>2, Zenon DEF Rendering
<1> HIDE DEF Rendering
<1>3. \A caughtUp \in BOOLEAN :
         /\ Arrives(q) /\ requests' = [requests EXCEPT ![q] = Rendering(caughtUp)]
         /\ UNCHANGED <<config, processVars, storeVars, refreshVars>>
         => IInv'
  <2>1. Arrives(q) => ~frozen /\ (canFreeze => \A p \in Requests \ {q} : requests[p].phase = "away")
    BY DEF Arrives
  <2>2. QED
    BY <1>1, <2>1, PlainKeeps
<1>4. CASE ArriveEmpty(q)
  BY <1>2, <1>3, <1>4 DEF ArriveEmpty
<1>5. CASE \E caughtUp \in BOOLEAN : ArriveUncaught(q, caughtUp)
  BY <1>3, <1>5 DEF ArriveUncaught, Rendering
<1>6. QED
  BY <1>4, <1>5

LEMMA LeaveKeeps ==
    ASSUME IInv, NEW q \in Requests, Leave(q)
    PROVE  IInv'
<1>1. /\ Away \in Request /\ Away.phase = "away" /\ ~Away.again /\ Away.waits = 0
      /\ Away.begun = None /\ Away.stale = None
  BY DEF Away, Request
<1>2. QED
  BY <1>1, PlainKeeps DEF Leave

LEMMA BeginEntryKeeps ==
    ASSUME IInv, NEW q \in Requests, BeginEntry(q)
    PROVE  IInv'
<1> USE DEF BeginEntry, config, processVars, storeVars, refreshVars
<1>0. TypeOK
  BY DEF IInv
<1>1. /\ requests'[q] \in Request /\ requests'[q].phase = "rendering" /\ requests'[q].begun = now
      /\ requests'[q].again = requests[q].again /\ requests'[q].waits = requests[q].waits
      /\ requests'[q].stale = requests[q].stale
      /\ \A p \in Requests \ {q} : requests'[p] = requests[p]
  BY <1>0 DEF TypeOK, Request
<1>2. TypeOK'
  BY <1>0, <1>1 DEF TypeOK
<1>3. SettledIsAsked' /\ LetGoCurrent' /\ ClockAhead'
  BY <1>0, <1>1 DEF IInv, SettledIsAsked, LetGoCurrent, ClockAhead, TypeOK, Window
<1>4. OneAtATime'
  BY <1>0, <1>1 DEF IInv, OneAtATime
<1>5. EntriesFollow' /\ FreezesAreFound'
  BY <1>0, <1>1 DEF IInv, EntriesFollow, FreezesAreFound, FrozenFor, HoldsEntries, ClockAhead
<1>6. WaitsForCurrent'
  BY <1>1 DEF IInv, WaitsForCurrent, FrozenFor, Window
<1>7. WaitsCounted'
  BY <1>1 DEF IInv, WaitsCounted
<1>8. QED
  BY <1>2, <1>3, <1>4, <1>5, <1>6, <1>7 DEF IInv

LEMMA StoreEntryKeeps ==
    ASSUME IInv, NEW q \in Requests, StoreEntry(q)
    PROVE  IInv'
<1> USE DEF StoreEntry, config, processVars, refreshVars
<1>0. TypeOK
  BY DEF IInv
<1>1. /\ requests'[q] \in Request /\ requests'[q].phase = "rendering" /\ requests'[q].begun = None
      /\ requests'[q].again = requests[q].again /\ requests'[q].waits = requests[q].waits
      /\ requests'[q].stale = requests[q].stale
      /\ \A p \in Requests \ {q} : requests'[p] = requests[p]
  BY <1>0 DEF TypeOK, Request
<1>2. /\ oldest' \in Nat /\ requests[q].begun \in Nat
      /\ oldest' = requests[q].begun \/ (HoldsEntries /\ oldest' = oldest)
  BY <1>0 DEF TypeOK, Request, HoldsEntries
<1>3. TypeOK'
  BY <1>0, <1>1, <1>2 DEF TypeOK
<1>4. SettledIsAsked' /\ LetGoCurrent' /\ ClockAhead'
  BY <1>0, <1>1, <1>2 DEF IInv, SettledIsAsked, LetGoCurrent, ClockAhead, TypeOK, Window
<1>5. OneAtATime'
  BY <1>0, <1>1 DEF IInv, OneAtATime
<1>6. EntriesFollow' /\ FreezesAreFound'
  BY <1>0, <1>1, <1>2 DEF IInv, EntriesFollow, FreezesAreFound, FrozenFor, HoldsEntries
<1>7. WaitsForCurrent'
  BY <1>1 DEF IInv, WaitsForCurrent, FrozenFor, Window
<1>8. WaitsCounted'
  BY <1>1 DEF IInv, WaitsCounted
<1>9. QED
  BY <1>3, <1>4, <1>5, <1>6, <1>7, <1>8 DEF IInv

LEMMA DropOldestKeeps == IInv /\ DropOldest => IInv'
<1> SUFFICES ASSUME IInv, DropOldest PROVE IInv'
  OBVIOUS
<1> USE DEF DropOldest, config, processVars, refreshVars
<1>0. TypeOK
  BY DEF IInv
<1>1. oldest' \in Time /\ (oldest' # None => oldest < oldest' /\ oldest' <= now) /\ oldest # None
      /\ oldest \in Nat /\ now \in Nat
  BY <1>0 DEF TypeOK, HoldsEntries
<1>2. TypeOK'
  BY <1>0, <1>1 DEF TypeOK
<1>3. SettledIsAsked' /\ LetGoCurrent' /\ ClockAhead' /\ OneAtATime'
  BY <1>0, <1>1 DEF IInv, SettledIsAsked, LetGoCurrent, ClockAhead, OneAtATime, Window
<1>4. EntriesFollow' /\ FreezesAreFound' /\ WaitsForCurrent' /\ WaitsCounted'
  BY <1>0, <1>1 DEF IInv, EntriesFollow, FreezesAreFound, WaitsForCurrent, WaitsCounted, FrozenFor,
     HoldsEntries, Window, TypeOK
<1>5. QED
  BY <1>2, <1>3, <1>4 DEF IInv
--------------------------------------------------------------------------------
(* A call of refresh, and what it leaves a request to wait for. *)

\* What a call does to the refresh in flight: it finds one, or it is too soon for
\* another; there is nothing to catch up on; or it starts one.
LEMMA RefreshDoes ==
    ASSUME TypeOK, NEW stores \in BOOLEAN, Refresh(stores)
    PROVE  /\ refreshing' \in Refreshes /\ refreshing'.ran <= MaxRefresh
           /\ ~refreshing'.inFlight => refreshing' = NotRefreshing
           /\ lastRefresh' \in Int
           /\ \/ /\ refreshing.inFlight \/ now - lastRefresh < interval
                 /\ refreshing' = refreshing /\ lastRefresh' = lastRefresh
              \/ /\ ~refreshing.inFlight /\ ~stores
                 /\ refreshing' = refreshing /\ lastRefresh' = now
              \/ /\ ~refreshing.inFlight /\ refreshing'.inFlight
                 /\ refreshing'.ran = 0 /\ refreshing'.asked = None /\ ~refreshing'.paused
                 /\ refreshing'.tick = IF canFreeze THEN now ELSE 0
                 /\ lastRefresh' = now
<1> DEFINE t == IF canFreeze THEN now ELSE 0
           started == [NotRefreshing EXCEPT !.inFlight = TRUE, !.tick = t]
<1>1. /\ started \in Refreshes /\ started.ran = 0 /\ started.asked = None /\ started.paused = FALSE
      /\ started.tick = t /\ started.inFlight = TRUE
  <2>1. t \in Nat
    BY DEF TypeOK
  <2>2. QED
    BY <2>1 DEF NotRefreshing, Refreshes
<1>2. now \in Nat /\ lastRefresh \in Int /\ MaxRefresh \in Nat
  BY TimesAssumption DEF TypeOK
<1> HIDE DEF started
<1>3. \/ /\ refreshing.inFlight \/ now - lastRefresh < interval
         /\ refreshing' = refreshing /\ lastRefresh' = lastRefresh
      \/ /\ ~refreshing.inFlight /\ ~stores /\ refreshing' = refreshing /\ lastRefresh' = now
      \/ ~refreshing.inFlight /\ refreshing' = started /\ lastRefresh' = now
  BY DEF Refresh, StartRefresh, started
<1>4. QED
  BY <1>1, <1>2, <1>3 DEF TypeOK

\* A request is let go by something recent: the instance keeps up, or the last
\* refresh, which is over, was less than an interval ago, or it holds nothing.
LEMMA LetGoByRecent ==
    ASSUME IInv, NEW stores \in BOOLEAN, registered => stores, Refresh(stores),
           ~refreshing'.inFlight \/ ~Behind, HoldsEntries
    PROVE  now - Later(asOf, oldest) <= Window
<1>0. /\ TypeOK /\ now \in Nat /\ asOf \in Nat /\ oldest \in Nat /\ settledAt \in Nat
      /\ lastRefresh \in Int /\ interval \in Nat
  BY Durations DEF IInv, TypeOK, HoldsEntries
<1>1. CASE ~Behind
  <2>1. interval # 0 /\ now - settledAt <= interval + Grace
    BY <1>0, <1>1, Durations DEF Behind, Overdue
  <2>2. now - asOf <= Window
    BY <1>0, <2>1, Durations DEF IInv, SettledIsAsked, Window
  <2>3. QED
    BY <1>0, <2>2, Durations DEF Later
<1>2. CASE ~refreshing'.inFlight
  <2>1. registered
    BY DEF IInv, EntriesFollow
  <2>2. ~refreshing.inFlight /\ now - lastRefresh < interval
    BY <1>0, <1>2, <2>1, RefreshDoes
  <2>3. lastRefresh <= asOf \/ lastRefresh <= oldest
    BY <2>2 DEF IInv, EntriesFollow
  <2>4. QED
    BY <1>0, <2>2, <2>3, Durations DEF Later, Window
<1>3. QED
  BY <1>1, <1>2

\* A request that waits once waits for a refresh no freeze made old: it started
\* it, or it keeps up, or it found no pause.
LEMMA WaitsOnceForRecent ==
    ASSUME IInv, NEW stores \in BOOLEAN, Refresh(stores), ~frozen, refreshing'.inFlight,
           ~(refreshing.inFlight /\ Behind /\ PausedSinceRefreshStarted),
           UNCHANGED now
    PROVE  FrozenFor' + MaxRefresh <= Window
<1>0. /\ TypeOK /\ now \in Nat /\ settledAt \in Nat /\ lastRefresh \in Int /\ interval \in Nat
      /\ refreshing.ran \in Nat /\ refreshing.tick \in Nat /\ refreshing \in Refreshes
  BY Durations DEF IInv, TypeOK, Refreshes
<1>1. CASE ~refreshing.inFlight
  <2>1. refreshing'.ran = 0 /\ lastRefresh' = now
    BY <1>0, <1>1, RefreshDoes
  <2>2. QED
    BY <1>0, <2>1, Durations DEF FrozenFor, Window
<1>2. CASE refreshing.inFlight /\ ~Behind
  <2>1. refreshing' = refreshing /\ lastRefresh' = lastRefresh
    BY <1>0, <1>2, RefreshDoes
  <2>2. interval # 0 /\ now - settledAt <= interval + Grace /\ settledAt <= lastRefresh
    BY <1>0, <1>2, Durations DEF Behind, Overdue, IInv, ClockAhead
  <2>3. QED
    BY <1>0, <2>1, <2>2, Durations DEF FrozenFor, Window
<1>3. CASE refreshing.inFlight /\ ~PausedSinceRefreshStarted
  <2>1. refreshing' = refreshing /\ lastRefresh' = lastRefresh
    BY <1>0, <1>3, RefreshDoes
  <2>2. FrozenFor <= freezes * Pause
    BY <1>0, <1>3, Durations DEF PausedSinceRefreshStarted, IInv, FreezesAreFound, FrozenFor
  <2>3. QED
    BY <1>0, <2>1, <2>2, Durations DEF FrozenFor, Window
<1>4. QED
  BY <1>1, <1>2, <1>3

\* The parts of the invariant a call leaves as they were, whoever makes it.
LEMMA RefreshKeeps ==
    ASSUME IInv, NEW stores \in BOOLEAN, registered => stores, Refresh(stores), ~frozen,
           UNCHANGED <<config, processVars, oldest>>,
           \A q \in Requests : requests'[q].begun = requests[q].begun,
           registered' = registered \/ (registered' /\ stores)
    PROVE  SettledIsAsked' /\ ClockAhead' /\ EntriesFollow' /\ FreezesAreFound'
<1> USE DEF config, processVars
<1>0. /\ TypeOK /\ now \in Nat /\ settledAt \in Nat /\ lastRefresh \in Int /\ interval \in Nat
      /\ asOf \in Nat /\ refreshing.ran \in Nat /\ refreshing.tick \in Nat /\ refreshing \in Refreshes
  BY Durations DEF IInv, TypeOK, Refreshes
<1>1. UNCHANGED <<settledAt, asOf>>
  BY DEF Refresh
<1>2. SettledIsAsked'
  BY <1>1 DEF IInv, SettledIsAsked
<1>3. ClockAhead'
  BY <1>0, <1>1, RefreshDoes DEF IInv, ClockAhead
<1>4. EntriesFollow'
  BY <1>0, <1>1, RefreshDoes DEF IInv, EntriesFollow, HoldsEntries
<1>5. FreezesAreFound'
  <2>1. CASE refreshing' = refreshing /\ lastRefresh' = lastRefresh
    BY <2>1 DEF IInv, FreezesAreFound, FrozenFor
  <2>2. CASE ~refreshing'.inFlight
    BY <2>2 DEF FreezesAreFound
  <2>3. CASE refreshing'.ran = 0 /\ lastRefresh' = now
    BY <1>0, <2>3, Durations DEF FreezesAreFound, FrozenFor
  <2>4. QED
    BY <1>0, <2>1, <2>2, <2>3, RefreshDoes
<1>6. QED
  BY <1>2, <1>3, <1>4, <1>5
\* What a request is let go with.
LEMMA LetGoIs ==
    ASSUME IInv, NEW x \in Request
    PROVE  /\ LetGo(x) \in Request /\ LetGo(x).phase = "rendering" /\ LetGo(x).again = FALSE
           /\ LetGo(x).waits = 0 /\ LetGo(x).begun = x.begun
           /\ LetGo(x).stale = IF HoldsEntries THEN now - Later(asOf, oldest) ELSE 0
<1>1. (IF HoldsEntries THEN now - Later(asOf, oldest) ELSE 0) \in Nat
  BY DEF IInv, TypeOK, ClockAhead, Later, HoldsEntries
<1>2. QED
  BY <1>1 DEF LetGo, Request

\* A call by request q, of state x, which is let go, or waits, or goes on as it was.
Called(q, stores, x, r) ==
    /\ registered => stores
    /\ Refresh(stores)
    /\ ~frozen
    /\ UNCHANGED <<config, processVars, oldest>>
    /\ registered' = registered \/ (registered' = TRUE /\ stores)
    /\ requests' = [requests EXCEPT ![q] = r]
    /\ canFreeze => \A p \in Requests \ {q} : requests[p].phase = "away"
    /\ x.begun = requests[q].begun /\ x.stale = requests[q].stale /\ x.waits = requests[q].waits
    /\ canFreeze => x.waits <= 1 /\ (refreshing.inFlight => x.waits = 0)
    /\ \/ r = WaitedFor(x)
       \/ r = LetGo(x) /\ (~refreshing'.inFlight \/ ~Behind \/ ~HoldsEntries)
       \/ r = x /\ x.phase = "rendering" /\ ~x.again /\ x.waits = 0

LEMMA CallKeeps ==
    ASSUME IInv, NEW q \in Requests, NEW stores \in BOOLEAN, NEW x \in Request, NEW r \in Request,
           Called(q, stores, x, r)
    PROVE  IInv'
<1> USE DEF Called, config, processVars
<1>0. TypeOK
  BY DEF IInv
<1>1. requests'[q] = r /\ \A p \in Requests \ {q} : requests'[p] = requests[p]
  BY <1>0 DEF TypeOK
<1>2. /\ r.begun = x.begun
      /\ \/ /\ r.phase = "waiting" /\ refreshing'.inFlight /\ r.waits = x.waits + 1 /\ r.stale = x.stale
            /\ r.again = (refreshing.inFlight /\ Behind /\ PausedSinceRefreshStarted)
         \/ /\ r.phase = "rendering" /\ r.again = FALSE /\ r.waits = 0
            /\ r.stale <= Window \/ r.stale = x.stale
  <2>1. CASE r = LetGo(x) /\ (~refreshing'.inFlight \/ ~Behind \/ ~HoldsEntries)
    <3>1. HoldsEntries => now - Later(asOf, oldest) <= Window
      BY <2>1, LetGoByRecent
    <3>2. /\ r.phase = "rendering" /\ r.again = FALSE /\ r.waits = 0 /\ r.begun = x.begun
          /\ r.stale = IF HoldsEntries THEN now - Later(asOf, oldest) ELSE 0
      BY <2>1, LetGoIs
    <3>3. r.stale <= Window
      BY <1>0, <3>1, <3>2, Durations
    <3>4. QED
      BY <3>2, <3>3
  <2>2. CASE r = WaitedFor(x) /\ refreshing'.inFlight
    <3>1. PICK twice \in BOOLEAN :
             twice = (refreshing.inFlight /\ Behind /\ PausedSinceRefreshStarted)
      BY <1>0 DEF Behind, PausedSinceRefreshStarted, TypeOK, Refreshes
    <3>2. r = [x EXCEPT !.phase = "waiting", !.waits = @ + 1, !.again = twice]
      BY <2>2, <3>1 DEF WaitedFor
    <3>3. QED
      BY <2>2, <3>1, <3>2 DEF Request
  <2>3. CASE r = x /\ x.phase = "rendering" /\ ~x.again /\ x.waits = 0
    BY <2>3 DEF Request
  <2>4. QED
    BY <2>1, <2>2, <2>3 DEF WaitedFor
<1>3. \A p \in Requests : requests'[p].begun = requests[p].begun
  BY <1>1, <1>2
<1>4. SettledIsAsked' /\ ClockAhead' /\ EntriesFollow' /\ FreezesAreFound'
  BY <1>3, RefreshKeeps
<1>5. UNCHANGED <<settledAt, asOf>>
  BY DEF Refresh
<1>6. TypeOK'
  BY <1>0, <1>1, <1>2, <1>5, RefreshDoes DEF TypeOK
<1>7. LetGoCurrent'
  BY <1>1, <1>2 DEF IInv, LetGoCurrent, Window
<1>8. OneAtATime'
  BY <1>1 DEF IInv, OneAtATime
<1>9. WaitsForCurrent'
  <2>1. ASSUME NEW p \in Requests \ {q}
        PROVE  /\ requests'[p].phase = "waiting" =>
                     /\ refreshing'.inFlight
                     /\ ~requests'[p].again => FrozenFor' + MaxRefresh <= Window
               /\ requests'[p].phase = "resumed" /\ ~requests'[p].again => now' - asOf' <= Window
    <3>1. refreshing.inFlight => refreshing' = refreshing /\ lastRefresh' = lastRefresh
      BY <1>0, RefreshDoes
    <3>2. QED
      BY <1>1, <1>5, <3>1 DEF IInv, WaitsForCurrent, FrozenFor
  <2>2. r.phase = "waiting" /\ ~r.again => FrozenFor' + MaxRefresh <= Window
    BY <1>2, WaitsOnceForRecent
  <2>3. Window' = Window
    BY DEF Window
  <2>4. QED
    BY <1>1, <1>2, <2>1, <2>2, <2>3 DEF WaitsForCurrent
<1>10. WaitsCounted'
  <2>1. /\ r.phase \in {"away", "rendering"} => r.waits = 0
        /\ canFreeze => /\ r.waits <= 2
                        /\ r.again => r.waits <= 1
                        /\ r.phase # "resumed"
    BY <1>2 DEF Request
  <2>2. QED
    BY <1>1, <2>1 DEF IInv, WaitsCounted
<1>11. QED
  BY <1>4, <1>6, <1>7, <1>8, <1>9, <1>10 DEF IInv
\* What a request that calls refresh may become: typed, whether it waits or not.
LEMMA WaitedForIs ==
    ASSUME IInv, NEW x \in Request
    PROVE  WaitedFor(x) \in Request
<1>1. PICK twice \in BOOLEAN : twice = (refreshing.inFlight /\ Behind /\ PausedSinceRefreshStarted)
  BY DEF Behind, PausedSinceRefreshStarted, IInv, TypeOK, Refreshes
<1>2. x.waits + 1 \in Nat
  BY DEF Request
<1>3. [x EXCEPT !.phase = "waiting", !.waits = x.waits + 1, !.again = twice] \in Request
  BY <1>2 DEF Request
<1>4. QED
  BY <1>1, <1>3, LetGoIs DEF WaitedFor

LEMMA ArriveBehindKeeps ==
    ASSUME IInv, NEW q \in Requests, ArriveBehind(q)
    PROVE  IInv'
<1> DEFINE x == [requests[q] EXCEPT !.caughtUp = TRUE]
           r == WaitedFor(x)
<1>1. /\ x \in Request /\ x.begun = requests[q].begun /\ x.stale = requests[q].stale
      /\ x.waits = requests[q].waits /\ registered \in BOOLEAN
  BY DEF IInv, TypeOK, Request
<1>2. r \in Request
  BY <1>1, WaitedForIs
<1>3. requests[q].waits = 0
  BY DEF IInv, WaitsCounted, ArriveBehind, Arrives
<1> HIDE DEF x
<1>4. requests' = [requests EXCEPT ![q] = r]
  BY DEF ArriveBehind, x
<1> HIDE DEF r
<1>5. interval > 0 /\ Arrives(q) /\ Refresh(registered) /\ UNCHANGED <<config, processVars, storeVars>>
  BY DEF ArriveBehind
<1>6. Called(q, registered, x, r)
  BY <1>1, <1>3, <1>4, <1>5 DEF Arrives, storeVars, r, Called
<1>7. QED
  BY <1>1, <1>2, <1>6, CallKeeps

LEMMA ArriveCurrentKeeps ==
    ASSUME IInv, NEW q \in Requests, ArriveCurrent(q)
    PROVE  IInv'
<1> DEFINE x == [requests[q] EXCEPT !.caughtUp = TRUE]
           r == LetGo(x)
<1>1. /\ x \in Request /\ x.begun = requests[q].begun /\ x.stale = requests[q].stale
      /\ x.waits = requests[q].waits /\ registered \in BOOLEAN
  BY DEF IInv, TypeOK, Request
<1>2. r \in Request
  BY <1>1, LetGoIs
<1>3. requests[q].waits = 0
  BY DEF IInv, WaitsCounted, ArriveCurrent, Arrives
<1> HIDE DEF x
<1>4. requests' = [requests EXCEPT ![q] = r]
  BY DEF ArriveCurrent, x
<1> HIDE DEF r
<1>5. ~Behind /\ Arrives(q) /\ Refresh(registered) /\ UNCHANGED <<config, processVars, storeVars>>
  BY DEF ArriveCurrent
<1>6. Called(q, registered, x, r)
  BY <1>1, <1>3, <1>4, <1>5 DEF Arrives, storeVars, r, Called
<1>7. QED
  BY <1>1, <1>2, <1>6, CallKeeps

\* A request that resumed has settled what it waited for, and is let go on or
\* waits once more.
LEMMA ResumeKeeps ==
    ASSUME IInv, NEW q \in Requests, Resume(q)
    PROVE  IInv'
<1> USE DEF config, processVars, storeVars, refreshVars
<1>0. TypeOK /\ requests[q] \in Request /\ registered \in BOOLEAN
  BY DEF IInv, TypeOK
<1>1. ~frozen /\ (canFreeze => \A p \in Requests \ {q} : requests[p].phase = "away")
  BY DEF Resume, IInv, OneAtATime
<1>2. CASE requests[q].again
  <2> DEFINE r == WaitedFor(requests[q])
  <2>1. r \in Request
    BY <1>0, WaitedForIs
  <2>2. canFreeze => requests[q].waits <= 1 /\ ~refreshing.inFlight
    BY <1>2 DEF Resume, IInv, WaitsCounted
  <2>3. Refresh(registered) /\ requests' = [requests EXCEPT ![q] = r]
    BY <1>2 DEF Resume
  <2> HIDE DEF r
  <2>4. Called(q, registered, requests[q], r)
    BY <1>1, <2>2, <2>3 DEF Resume, r, Called
  <2>5. QED
    BY <1>0, <2>1, <2>4, CallKeeps
<1>3. CASE ~requests[q].again
  <2> DEFINE r == LetGo(requests[q])
  <2>1. requests' = [requests EXCEPT ![q] = r] /\ UNCHANGED refreshVars
    BY <1>3 DEF Resume
  <2>2. /\ r \in Request /\ r.phase = "rendering" /\ r.again = FALSE /\ r.waits = 0
        /\ r.begun = requests[q].begun
        /\ r.stale = IF HoldsEntries THEN now - Later(asOf, oldest) ELSE 0
    BY <1>0, LetGoIs
  <2> HIDE DEF r
  <2>3. now - asOf <= Window
    BY <1>3 DEF Resume, IInv, WaitsForCurrent
  <2>4. r.stale <= Window
    BY <1>0, <2>2, <2>3, Durations DEF Later, TypeOK, HoldsEntries
  <2>5. requests'[q] = r /\ \A p \in Requests \ {q} : requests'[p] = requests[p]
    BY <1>0, <2>1 DEF TypeOK
  <2>6. TypeOK'
    BY <1>0, <2>1, <2>2, <2>5 DEF TypeOK, Resume
  <2>7. SettledIsAsked' /\ LetGoCurrent' /\ ClockAhead'
    BY <1>0, <2>1, <2>2, <2>4, <2>5 DEF Resume, IInv, SettledIsAsked, LetGoCurrent, ClockAhead, Window
  <2>8. OneAtATime' /\ EntriesFollow' /\ FreezesAreFound'
    BY <1>0, <2>1, <2>2, <2>5 DEF Resume, IInv, OneAtATime, EntriesFollow, FreezesAreFound, FrozenFor,
       HoldsEntries
  <2>9. WaitsForCurrent' /\ WaitsCounted'
    BY <1>0, <2>1, <2>2, <2>5 DEF Resume, IInv, WaitsForCurrent, WaitsCounted, FrozenFor, Window
  <2>10. QED
    BY <2>6, <2>7, <2>8, <2>9 DEF IInv
<1>4. QED
  BY <1>2, <1>3

LEMMA RefreshTagsBlockingKeeps ==
    ASSUME IInv, NEW q \in Requests, RefreshTagsBlocking(q)
    PROVE  IInv'
<1> DEFINE r == WaitedFor(requests[q])
<1>1. requests[q] \in Request /\ registered \in BOOLEAN
  BY DEF IInv, TypeOK
<1>2. r \in Request /\ requests' = [requests EXCEPT ![q] = r]
  BY <1>1, WaitedForIs DEF RefreshTagsBlocking
<1>3. requests[q].waits = 0
  BY DEF IInv, WaitsCounted, RefreshTagsBlocking
<1>4. ~frozen /\ (canFreeze => \A p \in Requests \ {q} : requests[p].phase = "away")
  BY DEF RefreshTagsBlocking, IInv, OneAtATime
<1> HIDE DEF r
<1>5. Called(q, registered, requests[q], r)
  BY <1>2, <1>3, <1>4 DEF RefreshTagsBlocking, storeVars, r, Called
<1>6. QED
  BY <1>1, <1>2, <1>5, CallKeeps

LEMMA RefreshTagsKeeps ==
    ASSUME IInv, NEW q \in Requests, RefreshTags(q)
    PROVE  IInv'
<1>1. requests[q] \in Request /\ registered \in BOOLEAN /\ TypeOK
  BY DEF IInv, TypeOK
<1>2. requests[q].waits = 0 /\ requests[q].phase = "rendering" /\ ~requests[q].again
  BY DEF IInv, WaitsCounted, RefreshTags, TypeOK
<1>3. ~frozen /\ (canFreeze => \A p \in Requests \ {q} : requests[p].phase = "away")
  BY DEF RefreshTags, IInv, OneAtATime
<1>4. PICK r : /\ requests' = [requests EXCEPT ![q] = r]
               /\ \/ r = WaitedFor(requests[q])
                  \/ r = LetGo(requests[q]) /\ (~Behind \/ ~HoldsEntries)
                  \/ r = requests[q]
  <2>1. CASE BehindInRender(q) /\ HoldsEntries
    BY <2>1 DEF RefreshTags
  <2>2. CASE ~BehindInRender(q) /\ requests[q].caughtUp /\ interval # 0
    BY <2>2 DEF RefreshTags
  <2>3. CASE /\ ~(BehindInRender(q) /\ HoldsEntries)
             /\ ~(~BehindInRender(q) /\ requests[q].caughtUp /\ interval # 0)
    <3>1. requests' = [requests EXCEPT ![q] = LetGo(requests[q])]
      BY <2>3 DEF RefreshTags
    <3>2. ~Behind \/ ~HoldsEntries
      BY <2>3 DEF BehindInRender
    <3>3. QED
      BY <3>1, <3>2
  <2>4. QED
    BY <2>1, <2>2, <2>3
<1>5. r \in Request
  BY <1>1, <1>4, WaitedForIs, LetGoIs
<1>6. Refresh(TRUE) /\ registered' = TRUE /\ UNCHANGED <<config, processVars, oldest>>
  BY DEF RefreshTags
<1>7. Called(q, TRUE, requests[q], r)
  <2>1. registered' = registered \/ (registered' = TRUE /\ TRUE)
    BY <1>6
  <2>2. /\ canFreeze => requests[q].waits <= 1 /\ (refreshing.inFlight => requests[q].waits = 0)
        /\ \/ r = WaitedFor(requests[q])
           \/ r = LetGo(requests[q]) /\ (~refreshing'.inFlight \/ ~Behind \/ ~HoldsEntries)
           \/ r = requests[q] /\ requests[q].phase = "rendering" /\ ~requests[q].again /\ requests[q].waits = 0
    BY <1>2, <1>4
  <2>3. QED
    BY <1>3, <1>4, <1>6, <2>1, <2>2 DEF Called
<1>8. QED
  BY <1>1, <1>5, <1>7, CallKeeps
--------------------------------------------------------------------------------
LEMMA StepKeeps == IInv /\ [Next]_vars => IInv'
<1> SUFFICES ASSUME IInv, [Next]_vars PROVE IInv'
  OBVIOUS
<1>1. CASE Tick \/ Freeze \/ Thaw
  BY <1>1, TickKeeps, FreezeKeeps, ThawKeeps
<1>2. CASE AskLog \/ TimerTicks \/ Settle
  BY <1>2, AskLogKeeps, TimerTicksKeeps, SettleKeeps
<1>3. CASE DropOldest
  BY <1>3, DropOldestKeeps
<1>4. ASSUME NEW q \in Requests,
             \/ ArriveEmpty(q) \/ ArriveBehind(q) \/ ArriveCurrent(q)
             \/ \E caughtUp \in BOOLEAN : ArriveUncaught(q, caughtUp)
      PROVE  IInv'
  BY <1>4, ArrivesPlainKeeps, ArriveBehindKeeps, ArriveCurrentKeeps
<1>5. ASSUME NEW q \in Requests,
             \/ Resume(q) \/ RefreshTags(q) \/ RefreshTagsBlocking(q)
             \/ BeginEntry(q) \/ StoreEntry(q) \/ Leave(q)
      PROVE  IInv'
  BY <1>5, ResumeKeeps, RefreshTagsKeeps, RefreshTagsBlockingKeeps, BeginEntryKeeps,
     StoreEntryKeeps, LeaveKeeps
<1>6. CASE UNCHANGED vars
  BY <1>6 DEF vars, config, processVars, storeVars, refreshVars, IInv, TypeOK, SettledIsAsked,
     LetGoCurrent, ClockAhead, OneAtATime, EntriesFollow, FreezesAreFound, WaitsForCurrent,
     WaitsCounted, FrozenFor, HoldsEntries, Window
<1>7. QED
  BY <1>1, <1>2, <1>3, <1>4, <1>5, <1>6 DEF Next

\* Every reachable state satisfies the invariant, on Lambda and in a container, whatever
\* the requests and the freezes (TrackedTagMarkers: refresh, behindInRender, startTicking).
THEOREM Invariance == Spec => []IInv
BY Starts, StepKeeps, PTL DEF Spec

\* Every variable keeps its type, and settledAt vouches for no more than what the log
\* was asked, but for the time a refresh may run and the pauses too short to find:
\* for every interval, grace and pause, any number of requests and of freezes.
THEOREM RefreshStaysConsistent == Spec => []RefreshConsistent
<1>1. IInv => RefreshConsistent
  BY DEF IInv, RefreshConsistent
<1>2. QED
  BY <1>1, Invariance, PTL

\* No request is let go to judge entries by what the log said longer ago than the
\* window, however the instance idled, was frozen, or lost the refresh it waited for.
THEOREM LetGoStaysCurrent == Spec => []LetGoCurrent
<1>1. IInv => LetGoCurrent
  BY DEF IInv
<1>2. QED
  BY <1>1, Invariance, PTL

\* On Lambda no call of a request waits for more than two refreshes.
THEOREM WaitsStayTwo == Spec => []AtMostTwoWaits
<1>1. IInv => AtMostTwoWaits
  BY DEF IInv, WaitsCounted, AtMostTwoWaits
<1>2. QED
  BY <1>1, Invariance, PTL
================================================================================
