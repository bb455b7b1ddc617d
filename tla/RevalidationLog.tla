----------------------------- MODULE RevalidationLog ----------------------------
(***************************************************************************)
(* The revalidation log of src/adapter/aws-cache-store.ts: instances put a *)
(* row for each revalidation of a tag under their own wall clock, and      *)
(* another instance follows the log with a cursor, one query at a time.    *)
(*                                                                         *)
(* Nothing but timing ties the two together, so time is the state here:    *)
(* how long a put takes, how late a row shows to a query, how far clocks   *)
(* are apart, how long a row lives, how long the follower sits idle. What  *)
(* the follower does with a row it reads is TrackedTagMarkers' business.   *)
(***************************************************************************)
EXTENDS Integers, FiniteSets

CONSTANTS
    Revalidations, \* the revalidations run in a behaviour
    TagOf,         \* by revalidation: its tag
    \* The constants of the code, in units of time.
    MaxPut,        \* MAX_LOG_PUT_MS
    Lookback,      \* REVALIDATION_LOG_LOOKBACK_MS
    Ttl,           \* REVALIDATION_LOG_TTL_MS
    MaxGap,        \* MAX_REVALIDATION_LOG_GAP_MS
    PutAttempts,   \* LOG_PUT_ATTEMPTS
    MaxRows,       \* what REVALIDATION_LOG_MAX_PAGES pages hold
    \* The environment.
    Skew,          \* how far a writer's wall clock is from the follower's
    Lag,           \* how long a query may miss a row after it was stored
    MaxQuery,      \* how long after its refresh starts a query may still run
    MaxNow         \* bound: the last time the clock shows

ASSUME DurationsAssumption ==
    /\ MaxPut \in Nat /\ Lookback \in Nat /\ Ttl \in Nat /\ MaxGap \in Nat
    /\ Skew \in Nat /\ Lag \in Nat /\ MaxQuery \in Nat
ASSUME CountsAssumption == PutAttempts \in Nat \ {0} /\ MaxRows \in Nat /\ MaxNow \in Nat

\* What the code counts on, in the words of its comments. "half the lookback,
\* leaving the rest for writers' clocks and eventually consistent queries":
LookbackCovers == MaxPut + Skew + Lag <= Lookback
\* "its TTL less a margin":
LogOutlivesGap == Lookback + MaxGap + MaxQuery < Ttl

VARIABLES
    now,          \* the follower's Date.now()
    puts,         \* by revalidation: where its putLogRow stands
    log,          \* the rows in the table
    cursor,       \* where the follower's next query starts
    lastLogRead,  \* when its last successful query started, or it started over
    query,        \* its refresh in flight
    heard,        \* the revalidations it has read since it last started over
    base          \* where its cursor was when it last started over

writerVars   == <<puts, log>>
followerVars == <<cursor, lastLogRead, query, heard, base>>
vars == <<now, puts, log, cursor, lastLogRead, query, heard, base>>

Row   == [rev : Revalidations, at : Int, landed : Int]
Put   == [phase : {"idle", "sending", "stored", "recorded", "failed"},
          begun : Int, at : Int, landed : Int, attempt : Nat, tries : Nat]
Query == [phase : {"none", "sent", "answered"}, at : Int,
          revs : SUBSET Revalidations, truncated : BOOLEAN]

NoPut   == [phase |-> "idle", begun |-> 0, at |-> 0, landed |-> 0,
            attempt |-> 0, tries |-> 0]
FailedPut == [NoPut EXCEPT !.phase = "failed"]
NoQuery == [phase |-> "none", at |-> 0, revs |-> {}, truncated |-> FALSE]

\* The follower is constructed at time 0.
Init ==
    /\ now = 0
    /\ puts = [r \in Revalidations |-> NoPut]
    /\ log = {}
    /\ cursor = -Lookback
    /\ lastLogRead = 0
    /\ query = NoQuery
    /\ heard = {}
    /\ base = -Lookback

\* Time passes: requests are slow, a process is frozen.
Tick ==
    /\ now < MaxNow
    /\ now' = now + 1
    /\ UNCHANGED <<writerVars, followerVars>>

--------------------------------------------------------------------------------
(* The writers: TrackedTagMarkers.putLogRow, and RevalidationLog.put in it. *)

\* A put under a fresh timestamp of the writer's clock.
FreshPut(attempt, skew) ==
    [phase |-> "sending", begun |-> now, at |-> now + skew, landed |-> now,
     attempt |-> attempt, tries |-> 1]

BeginPut(r) ==
    /\ puts[r].phase = "idle"
    /\ \E skew \in -Skew .. Skew : puts' = [puts EXCEPT ![r] = FreshPut(1, skew)]
    /\ UNCHANGED <<now, log, followerVars>>

KeyTaken(r) == \E row \in log : TagOf[row.rev] = TagOf[r] /\ row.at = puts[r].at

\* Mutant: the put carries no attribute_not_exists condition.
StoreRowAnyway(r) ==
    /\ puts[r].phase = "sending"
    /\ log' = {row \in log : TagOf[row.rev] # TagOf[r] \/ row.at # puts[r].at}
                \cup {[rev |-> r, at |-> puts[r].at, landed |-> now]}
    /\ puts' = [puts EXCEPT ![r] = [@ EXCEPT !.phase = "stored", !.landed = now]]
    /\ UNCHANGED <<now, followerVars>>

\* DynamoDB stores the row, its key being free.
StoreRow(r) ==
    /\ puts[r].phase = "sending"
    /\ ~KeyTaken(r)
    /\ log' = log \cup {[rev |-> r, at |-> puts[r].at, landed |-> now]}
    /\ puts' = [puts EXCEPT ![r] = [@ EXCEPT !.phase = "stored", !.landed = now]]
    /\ UNCHANGED <<now, followerVars>>

NextKey(put) == [put EXCEPT !.at = put.at + 1, !.tries = put.tries + 1]

\* Mutant: one key too many is tried.
CollideOnceMore(r) ==
    /\ puts[r].phase = "sending"
    /\ KeyTaken(r)
    /\ \/ /\ puts[r].tries <= PutAttempts
          /\ puts' = [puts EXCEPT ![r] = NextKey(@)]
       \/ /\ puts[r].tries > PutAttempts
          /\ puts' = [puts EXCEPT ![r] = FailedPut]
    /\ UNCHANGED <<now, log, followerVars>>

\* ConditionalCheckFailedException: the row moves to the next millisecond.
Collide(r) ==
    /\ puts[r].phase = "sending"
    /\ KeyTaken(r)
    /\ \/ /\ puts[r].tries < PutAttempts
          /\ puts' = [puts EXCEPT ![r] = NextKey(@)]
       \/ /\ puts[r].tries >= PutAttempts
          /\ puts' = [puts EXCEPT ![r] = FailedPut]
    /\ UNCHANGED <<now, log, followerVars>>

\* The response is lost and the SDK sends the request again.
Resend(r) ==
    /\ puts[r].phase = "stored"
    /\ puts' = [puts EXCEPT ![r] = [@ EXCEPT !.phase = "sending"]]
    /\ UNCHANGED <<now, log, followerVars>>

\* Mutant: however long the put took, its row counts as recorded.
AnswerPutHoweverSlow(r) ==
    /\ puts[r].phase = "stored"
    /\ puts' = [puts EXCEPT ![r] = [@ EXCEPT !.phase = "recorded",
                                            !.attempt = 0, !.tries = 0]]
    /\ UNCHANGED <<now, log, followerVars>>

\* The writer is answered. A slow put is made again under a fresh timestamp,
\* one slow twice is a failure.
AnswerPut(r) ==
    /\ puts[r].phase = "stored"
    /\ \/ /\ now - puts[r].begun <= MaxPut
          /\ puts' = [puts EXCEPT ![r] = [@ EXCEPT !.phase = "recorded",
                                                  !.attempt = 0, !.tries = 0]]
       \/ /\ now - puts[r].begun > MaxPut
          /\ puts[r].attempt < 2
          /\ \E skew \in -Skew .. Skew :
                puts' = [puts EXCEPT ![r] = FreshPut(2, skew)]
       \/ /\ now - puts[r].begun > MaxPut
          /\ puts[r].attempt >= 2
          /\ puts' = [puts EXCEPT ![r] = FailedPut]
    /\ UNCHANGED <<now, log, followerVars>>

\* Any other error, whether or not the row was stored.
FailPut(r) ==
    /\ puts[r].phase \in {"sending", "stored"}
    /\ puts' = [puts EXCEPT ![r] = FailedPut]
    /\ UNCHANGED <<now, log, followerVars>>

\* DynamoDB deletes a row some time after its `ttl`.
ExpireRow(row) ==
    /\ row.at + Ttl <= now
    /\ log' = log \ {row}
    /\ UNCHANGED <<now, puts, followerVars>>

--------------------------------------------------------------------------------
(* The follower: TrackedTagMarkers.sync. *)

\* forget, as far as following the log goes.
Forget(at) ==
    /\ heard' = {}
    /\ cursor' = at - Lookback
    /\ base' = at - Lookback
    /\ lastLogRead' = at
    /\ query' = NoQuery

\* A refresh that finds the log may no longer hold all it has not read.
RefreshPastGap ==
    /\ query.phase = "none"
    /\ now - lastLogRead > MaxGap
    /\ Forget(now)
    /\ UNCHANGED <<now, writerVars>>

\* Mutant: the cursor is followed however long ago it was moved.
RefreshPastAnyGap ==
    /\ query.phase = "none"
    /\ query' = [NoQuery EXCEPT !.phase = "sent", !.at = now]
    /\ UNCHANGED <<now, writerVars, cursor, lastLogRead, heard, base>>

Refresh ==
    /\ query.phase = "none"
    /\ now - lastLogRead <= MaxGap
    /\ query' = [NoQuery EXCEPT !.phase = "sent", !.at = now]
    /\ UNCHANGED <<now, writerVars, cursor, lastLogRead, heard, base>>

\* DynamoDB runs the query: eventually consistent, so a row stored less than
\* Lag ago may or may not be in it.
AnswerQuery ==
    /\ query.phase = "sent"
    /\ now - query.at <= MaxQuery
    /\ LET since   == {row \in log : row.at >= cursor}
           settled == {row \in since : row.landed + Lag <= now}
       IN  \E rows \in SUBSET since :
              /\ settled \subseteq rows
              /\ query' = [query EXCEPT !.phase = "answered",
                                        !.revs = {row.rev : row \in rows},
                                        !.truncated = Cardinality(rows) > MaxRows]
    /\ UNCHANGED <<now, writerVars, cursor, lastLogRead, heard, base>>

\* Mutant: the cursor moves to the query, and nothing behind it is read again.
ApplyRowsNoLookback ==
    /\ query.phase = "answered"
    /\ ~query.truncated
    /\ heard' = heard \cup query.revs
    /\ lastLogRead' = query.at
    /\ cursor' = query.at
    /\ query' = NoQuery
    /\ UNCHANGED <<now, writerVars, base>>

\* The follower resumes with the rows, however much later: advance.
ApplyRows ==
    /\ query.phase = "answered"
    /\ ~query.truncated
    /\ heard' = heard \cup query.revs
    /\ lastLogRead' = query.at
    /\ cursor' = IF query.at - Lookback > cursor THEN query.at - Lookback ELSE cursor
    /\ query' = NoQuery
    /\ UNCHANGED <<now, writerVars, base>>

ForgetTruncated ==
    /\ query.phase = "answered"
    /\ query.truncated
    /\ Forget(query.at)
    /\ UNCHANGED <<now, writerVars>>

\* A failed query changes nothing: the next refresh asks from the same cursor.
FailQuery ==
    /\ query.phase \in {"sent", "answered"}
    /\ query' = NoQuery
    /\ UNCHANGED <<now, writerVars, cursor, lastLogRead, heard, base>>

WriterStep(r) ==
    \/ BeginPut(r)
    \/ StoreRow(r)
    \/ Collide(r)
    \/ Resend(r)
    \/ AnswerPut(r)
    \/ FailPut(r)

FollowerStep ==
    \/ RefreshPastGap
    \/ Refresh
    \/ AnswerQuery
    \/ ApplyRows
    \/ ForgetTruncated
    \/ FailQuery

Next ==
    \/ Tick
    \/ \E r \in Revalidations : WriterStep(r)
    \/ \E row \in log : ExpireRow(row)
    \/ FollowerStep

Spec == Init /\ [][Next]_vars

--------------------------------------------------------------------------------
\* Every variable stays within its type, and a put within its attempts.
TypeOK ==
    /\ now \in Nat
    /\ puts \in [Revalidations -> Put]
    /\ \A r \in Revalidations : puts[r].attempt <= 2 /\ puts[r].tries <= PutAttempts
    /\ log \subseteq Row /\ IsFiniteSet(log)
    /\ cursor \in Int /\ lastLogRead \in Int /\ base \in Int
    /\ query \in Query
    /\ heard \subseteq Revalidations

\* The log's promise: a revalidation whose writer was told it is recorded
\* (putLogRow) is never behind the cursor of an instance following the log
\* unless the instance has read it - however the put, its retries, the queries,
\* their answers and the clocks interleave.
NothingMissed ==
    \A r \in Revalidations :
        puts[r].phase = "recorded" /\ base <= puts[r].at /\ puts[r].at < cursor
        => r \in heard

\* A recorded revalidation's row is in the table until its ttl: two of one tag
\* in the same millisecond do not overwrite each other (RevalidationLog.put).
RecordedStands ==
    \A r \in Revalidations :
        puts[r].phase = "recorded" =>
            \/ puts[r].at + Ttl <= now
            \/ \E row \in log : row.rev = r /\ row.at = puts[r].at

\* The log implements the feed: a refinement in which the horizon is the cursor.
Feed == INSTANCE RevalidationFeed WITH
            recorded <- {<<r, puts[r].at>> :
                            r \in {s \in Revalidations : puts[s].phase = "recorded"}},
            start    <- base,
            horizon  <- cursor

ImplementsFeed == Feed!FeedSpec

--------------------------------------------------------------------------------
(* Why NothingMissed holds: an invariant the steps preserve. *)

Stored(r) == puts[r].phase \in {"stored", "recorded"}
InTime(r) == puts[r].landed <= puts[r].begun + MaxPut

\* The cursor trails the last query by the lookback, and a query in flight began
\* within the gap the log covers.
FollowerInTime ==
    /\ lastLogRead <= now
    /\ cursor = lastLogRead - Lookback
    /\ base <= cursor
    /\ query.phase # "none" => /\ lastLogRead <= query.at
                               /\ query.at <= now
                               /\ query.at - lastLogRead <= MaxGap

\* A put began no later than its row says, give or take the clocks, and one that
\* was accepted was stored soon after.
PutsInTime ==
    \A r \in Revalidations : puts[r].phase \notin {"idle", "failed"} =>
        /\ puts[r].begun <= now
        /\ puts[r].begun <= puts[r].at + Skew
        /\ puts[r].landed <= now
        /\ puts[r].phase = "recorded" => InTime(r)

\* A stored row is in the table until its ttl.
RowsStand ==
    \A r \in Revalidations : Stored(r) =>
        \/ puts[r].at + Ttl <= now
        \/ [rev |-> r, at |-> puts[r].at, landed |-> puts[r].landed] \in log

\* An answer has every row that had settled when its refresh began.
AnswerShows ==
    query.phase = "answered" =>
        \A r \in Revalidations :
            Stored(r) /\ cursor <= puts[r].at /\ puts[r].landed + Lag < query.at
            => r \in query.revs

\* Below the cursor, a row stored in time has been read, accepted or not.
HeardBelowCursor ==
    \A r \in Revalidations :
        Stored(r) /\ InTime(r) /\ base <= puts[r].at /\ puts[r].at < cursor
        => r \in heard

IInv ==
    /\ TypeOK
    /\ FollowerInTime
    /\ PutsInTime
    /\ RowsStand
    /\ AnswerShows
    /\ HeardBelowCursor
================================================================================
