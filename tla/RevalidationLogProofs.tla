-------------------------- MODULE RevalidationLogProofs -------------------------
(***************************************************************************)
(* The revalidation log keeps its promise for every lookback, time to      *)
(* live, lag and skew whose sums the code's comments rely on: an instance  *)
(* that follows the log misses nothing, so the log implements the feed.    *)
(***************************************************************************)
EXTENDS RevalidationLog, FiniteSetTheorems, TLAPS

\* A put under a fresh timestamp is a put, begun now.
LEMMA FreshPutType ==
    ASSUME NEW s \in -Skew .. Skew, NEW a \in Nat, now \in Nat
    PROVE  /\ FreshPut(a, s) \in Put
           /\ FreshPut(a, s).phase = "sending"
           /\ FreshPut(a, s).begun = now
           /\ FreshPut(a, s).begun <= FreshPut(a, s).at + Skew
           /\ FreshPut(a, s).landed = now
           /\ FreshPut(a, s).attempt = a
           /\ FreshPut(a, s).tries = 1
BY DurationsAssumption DEF FreshPut, Put

LEMMA NextKeyType ==
    ASSUME NEW p \in Put
    PROVE  LET q == NextKey(p)
           IN  /\ q \in Put /\ q.attempt = p.attempt /\ q.tries = p.tries + 1
               /\ q.phase = p.phase /\ q.at = p.at + 1
               /\ q.begun = p.begun /\ q.landed = p.landed
<1>1. p.at + 1 \in Int /\ p.tries + 1 \in Nat
  BY DEF Put
<1>2. \A a \in Int, n \in Nat :
         LET q == [p EXCEPT !.at = a, !.tries = n]
         IN  /\ q \in Put /\ q.attempt = p.attempt /\ q.tries = n
             /\ q.phase = p.phase /\ q.at = a
             /\ q.begun = p.begun /\ q.landed = p.landed
  BY DEF Put
<1>3. QED
  BY <1>1, <1>2 DEF NextKey

LEMMA NoPutType == NoPut \in Put /\ FailedPut \in Put /\ NoQuery \in Query
BY DEF NoPut, FailedPut, NoQuery, Put, Query

\* What a writer's step keeps of its own put, whichever step it is: it is the
\* only thing besides the log a writer changes.
PutKept(r) ==
    /\ puts'[r] \in Put
    /\ puts'[r].attempt <= 2
    /\ puts'[r].tries <= PutAttempts

\* A stored put is one this step stored, in time or not, or was stored before.
StoredBefore(r) ==
    /\ Stored(r)
    /\ puts'[r].at = puts[r].at
    /\ puts'[r].begun = puts[r].begun
    /\ puts'[r].landed = puts[r].landed

StoredNow(r) ==
    /\ puts'[r].at = puts[r].at
    /\ puts'[r].begun = puts[r].begun
    /\ puts'[r].landed = now
    /\ puts[r].phase = "sending"
    /\ puts'[r].phase = "stored"
    /\ [rev |-> r, at |-> puts[r].at, landed |-> now] \in log'

LEMMA WriterStepEffect ==
    ASSUME IInv, NEW r \in Revalidations, WriterStep(r)
    PROVE  /\ \A s \in Revalidations \ {r} : puts'[s] = puts[s]
           /\ puts' = [puts EXCEPT ![r] = puts'[r]]
           /\ log \subseteq log'
           /\ log' \subseteq Row /\ IsFiniteSet(log')
           /\ PutKept(r)
           /\ PutsInTime'
           /\ Stored(r)' => StoredBefore(r) \/ StoredNow(r)
           /\ UNCHANGED <<now, followerVars>>
<1> USE DurationsAssumption, CountsAssumption DEF IInv, TypeOK, PutKept, Stored
<1>t. puts[r] \in Put /\ puts[r].attempt <= 2 /\ puts[r].tries <= PutAttempts
      /\ now \in Int
  OBVIOUS
<1>p. PutsInTime
  OBVIOUS
<1>1. CASE BeginPut(r)
  <2>1. PICK skew \in -Skew .. Skew : puts' = [puts EXCEPT ![r] = FreshPut(1, skew)]
    BY <1>1 DEF BeginPut
  <2>2. puts'[r] = FreshPut(1, skew)
    BY <2>1
  <2>3. PutKept(r) /\ puts'[r].phase = "sending"
    BY <2>2, FreshPutType
  <2>4. PutsInTime'
    BY <1>1, <1>p, <2>1, <2>2, FreshPutType DEF PutsInTime, BeginPut, InTime
  <2>5. QED
    BY <1>1, <2>1, <2>3, <2>4 DEF BeginPut
<1>2. CASE StoreRow(r)
  <2> DEFINE p == [puts[r] EXCEPT !.phase = "stored", !.landed = now]
  <2>1. puts' = [puts EXCEPT ![r] = p]
    BY <1>2 DEF StoreRow
  <2>2. /\ p \in Put /\ p.attempt = puts[r].attempt /\ p.tries = puts[r].tries
        /\ p.phase = "stored" /\ p.at = puts[r].at /\ p.begun = puts[r].begun
        /\ p.landed = now
    BY <1>t DEF Put
  <2> HIDE DEF p
  <2>3. puts'[r] = p
    BY <2>1
  <2>4. PutKept(r)
    BY <1>t, <2>2, <2>3
  <2>5. [rev |-> r, at |-> puts[r].at, landed |-> now] \in Row
    BY <1>t DEF Put, Row
  <2>6. log' = log \cup {[rev |-> r, at |-> puts[r].at, landed |-> now]}
    BY <1>2 DEF StoreRow
  <2>7. puts[r].phase = "sending" /\ UNCHANGED <<now, followerVars>>
    BY <1>2 DEF StoreRow
  <2>10. IsFiniteSet(log')
    BY <2>6, FS_AddElement
  <2>8. PutsInTime'
    BY <1>p, <1>t, <2>1, <2>2, <2>3, <2>7 DEF PutsInTime, InTime
  <2>9. QED
    BY <2>1, <2>2, <2>3, <2>4, <2>5, <2>6, <2>7, <2>8, <2>10 DEF StoredNow
<1>3. CASE Collide(r)
  <2>1. CASE puts[r].tries < PutAttempts
    <3> DEFINE p == NextKey(puts[r])
    <3>5. puts[r].at \in Int /\ puts[r].begun \in Int /\ puts[r].tries \in Nat
      BY <1>t DEF Put
    <3>1. puts' = [puts EXCEPT ![r] = p]
      BY <1>3, <2>1, <3>5 DEF Collide
    <3>2. /\ p \in Put /\ p.attempt = puts[r].attempt /\ p.tries = puts[r].tries + 1
          /\ p.phase = puts[r].phase /\ p.at = puts[r].at + 1
          /\ p.begun = puts[r].begun /\ p.landed = puts[r].landed
      BY <1>t, NextKeyType
    <3> HIDE DEF p
    <3>3. puts'[r] = p
      BY <3>1
    <3>4. puts[r].phase = "sending" /\ UNCHANGED <<now, followerVars, log>>
      BY <1>3 DEF Collide
    <3>6. PutsInTime'
      BY <1>p, <3>1, <3>2, <3>3, <3>4, <3>5 DEF PutsInTime, InTime
    <3>7. PutKept(r)
      BY <1>t, <2>1, <3>2, <3>3, <3>5
    <3>8. QED
      BY <3>1, <3>2, <3>3, <3>4, <3>6, <3>7
  <2>2. CASE ~(puts[r].tries < PutAttempts)
    <3>1. puts' = [puts EXCEPT ![r] = FailedPut] /\ UNCHANGED <<now, followerVars, log>>
      BY <1>3, <2>2 DEF Collide
    <3>2. PutKept(r) /\ ~Stored(r)'
      BY <3>1, NoPutType DEF FailedPut, NoPut
    <3>3. PutsInTime'
      BY <1>p, <3>1, <3>2 DEF PutsInTime, InTime, FailedPut, NoPut
    <3>4. QED
      BY <3>1, <3>2, <3>3
  <2>3. QED
    BY <2>1, <2>2
<1>4. CASE Resend(r)
  <2> DEFINE p == [puts[r] EXCEPT !.phase = "sending"]
  <2>1. puts' = [puts EXCEPT ![r] = p] /\ UNCHANGED <<now, followerVars, log>>
    BY <1>4 DEF Resend
  <2>2. /\ p \in Put /\ p.attempt = puts[r].attempt /\ p.tries = puts[r].tries
        /\ p.phase = "sending" /\ p.at = puts[r].at /\ p.begun = puts[r].begun
        /\ p.landed = puts[r].landed
    BY <1>t DEF Put
  <2> HIDE DEF p
  <2>3. puts'[r] = p /\ puts[r].phase = "stored"
    BY <1>4, <2>1 DEF Resend
  <2>4. PutsInTime'
    BY <1>p, <1>t, <2>1, <2>2, <2>3 DEF PutsInTime, InTime
  <2>5. QED
    BY <1>t, <2>1, <2>2, <2>3, <2>4
<1>5. CASE AnswerPut(r)
  <2>0. puts[r].phase = "stored" /\ UNCHANGED <<now, followerVars, log>>
    BY <1>5 DEF AnswerPut
  <2>1. CASE /\ now - puts[r].begun <= MaxPut
             /\ puts' = [puts EXCEPT ![r] = [@ EXCEPT !.phase = "recorded",
                                                     !.attempt = 0, !.tries = 0]]
    <3> DEFINE p == [puts[r] EXCEPT !.phase = "recorded", !.attempt = 0, !.tries = 0]
    <3>1. /\ p \in Put /\ p.attempt = 0 /\ p.tries = 0
          /\ p.phase = "recorded" /\ p.at = puts[r].at /\ p.begun = puts[r].begun
          /\ p.landed = puts[r].landed
      BY <1>t DEF Put
    <3>2. puts' = [puts EXCEPT ![r] = p]
      BY <2>1
    <3> HIDE DEF p
    <3>3. puts'[r] = p
      BY <3>2
    <3>4. puts[r].begun \in Int /\ puts[r].landed \in Int
      BY <1>t DEF Put
    <3>5. PutsInTime'
      BY <1>p, <2>0, <2>1, <3>1, <3>2, <3>3, <3>4 DEF PutsInTime, InTime
    <3>6. QED
      BY <2>0, <3>1, <3>2, <3>3, <3>5 DEF StoredBefore
  <2>2. CASE /\ puts[r].attempt < 2
             /\ \E skew \in -Skew .. Skew :
                    puts' = [puts EXCEPT ![r] = FreshPut(2, skew)]
    <3>1. PICK skew \in -Skew .. Skew : puts' = [puts EXCEPT ![r] = FreshPut(2, skew)]
      BY <2>2
    <3>2. puts'[r] = FreshPut(2, skew)
      BY <3>1
    <3>3. PutKept(r) /\ puts'[r].phase = "sending"
      BY <3>2, FreshPutType
    <3>4. PutsInTime'
      BY <1>p, <2>0, <3>1, <3>2, FreshPutType DEF PutsInTime, InTime
    <3>5. QED
      BY <2>0, <3>1, <3>2, <3>3, <3>4
  <2>3. CASE puts' = [puts EXCEPT ![r] = FailedPut]
    <3>1. PutKept(r) /\ ~Stored(r)'
      BY <2>3, NoPutType DEF FailedPut, NoPut
    <3>2. PutsInTime'
      BY <1>p, <2>0, <2>3, <3>1 DEF PutsInTime, InTime, FailedPut, NoPut
    <3>3. QED
      BY <2>0, <2>3, <3>1, <3>2
  <2>4. QED
    BY <1>5, <2>1, <2>2, <2>3 DEF AnswerPut
<1>6. CASE FailPut(r)
  <2>1. puts' = [puts EXCEPT ![r] = FailedPut] /\ UNCHANGED <<now, followerVars, log>>
    BY <1>6 DEF FailPut
  <2>2. PutKept(r) /\ ~Stored(r)'
    BY <2>1, NoPutType DEF FailedPut, NoPut
  <2>3. PutsInTime'
    BY <1>p, <2>1, <2>2 DEF PutsInTime, InTime, FailedPut, NoPut
  <2>4. QED
    BY <2>1, <2>2, <2>3
<1>7. QED
  BY <1>1, <1>2, <1>3, <1>4, <1>5, <1>6 DEF WriterStep

--------------------------------------------------------------------------------
\* A writer's step preserves the invariant: what is put now is in time to be
\* read, or too late to be accepted.
LEMMA WriterStepKeeps ==
    ASSUME IInv, NEW r \in Revalidations, WriterStep(r), LookbackCovers
    PROVE  IInv'
<1> USE DurationsAssumption DEF IInv
<1>e. /\ \A s \in Revalidations \ {r} : puts'[s] = puts[s]
      /\ puts' = [puts EXCEPT ![r] = puts'[r]]
      /\ log \subseteq log' /\ log' \subseteq Row /\ IsFiniteSet(log')
      /\ PutKept(r)
      /\ PutsInTime'
      /\ Stored(r)' => StoredBefore(r) \/ StoredNow(r)
      /\ UNCHANGED <<now, followerVars>>
  BY WriterStepEffect
<1>u. /\ now' = now /\ cursor' = cursor /\ lastLogRead' = lastLogRead
      /\ query' = query /\ heard' = heard /\ base' = base
  BY <1>e DEF followerVars
<1>t. /\ now \in Int /\ cursor \in Int /\ lastLogRead \in Int /\ query \in Query
      /\ \A s \in Revalidations : puts[s] \in Put
  BY DEF TypeOK
<1>i. puts[r].at \in Int /\ puts[r].begun \in Int /\ puts[r].landed \in Int
  BY <1>t DEF Put
<1>1. TypeOK'
  BY <1>e, <1>u DEF TypeOK, PutKept
<1>2. FollowerInTime'
  BY <1>u DEF FollowerInTime
<1>3. RowsStand'
  <2> SUFFICES ASSUME NEW s \in Revalidations, Stored(s)'
               PROVE  \/ puts'[s].at + Ttl <= now'
                      \/ [rev |-> s, at |-> puts'[s].at, landed |-> puts'[s].landed] \in log'
    BY DEF RowsStand
  <2>1. CASE s # r
    BY <1>e, <1>u, <2>1 DEF RowsStand, Stored
  <2>2. CASE s = r /\ StoredBefore(r)
    BY <1>e, <1>u, <2>2 DEF RowsStand, StoredBefore
  <2>3. CASE s = r /\ StoredNow(r)
    BY <1>e, <2>3 DEF StoredNow
  <2>4. QED
    BY <1>e, <2>1, <2>2, <2>3
<1>4. AnswerShows'
  <2> SUFFICES ASSUME NEW s \in Revalidations, Stored(s)', query.phase = "answered",
                      cursor <= puts'[s].at, puts'[s].landed + Lag < query.at
               PROVE  s \in query.revs
    BY <1>u DEF AnswerShows
  <2>1. CASE s # r
    BY <1>e, <1>u, <2>1 DEF AnswerShows, Stored
  <2>2. CASE s = r /\ StoredBefore(r)
    BY <1>e, <1>u, <2>2 DEF AnswerShows, StoredBefore
  <2>3. CASE s = r /\ StoredNow(r)
    <3>1. query.at <= now /\ query.at \in Int
      BY <1>t DEF FollowerInTime, Query
    <3>2. QED
      BY <1>t, <2>3, <3>1 DEF StoredNow
  <2>4. QED
    BY <1>e, <2>1, <2>2, <2>3
<1>5. HeardBelowCursor'
  <2> SUFFICES ASSUME NEW s \in Revalidations, Stored(s)', InTime(s)',
                      base <= puts'[s].at, puts'[s].at < cursor
               PROVE  s \in heard
    BY <1>u DEF HeardBelowCursor
  <2>1. CASE s # r
    BY <1>e, <1>u, <2>1 DEF HeardBelowCursor, Stored, InTime
  <2>2. CASE s = r /\ StoredBefore(r)
    BY <1>e, <1>u, <2>2 DEF HeardBelowCursor, StoredBefore, InTime
  \* Stored only now and already below the cursor: its put took too long.
  <2>3. CASE s = r /\ StoredNow(r)
    <3>1. puts[r].begun <= puts[r].at + Skew
      BY <2>3 DEF PutsInTime, StoredNow
    <3>2. cursor = lastLogRead - Lookback /\ lastLogRead <= now
      BY DEF FollowerInTime
    <3>3. puts[r].at < cursor /\ now <= puts[r].begun + MaxPut
      BY <2>3 DEF StoredNow, InTime
    <3>4. QED
      BY <1>t, <1>i, <3>1, <3>2, <3>3 DEF LookbackCovers
  <2>4. QED
    BY <1>e, <2>1, <2>2, <2>3
<1>6. QED
  BY <1>e, <1>1, <1>2, <1>3, <1>4, <1>5

\* Time passing and rows expiring preserve it: nothing is due at a given time
\* but a row's end, which is past for good once it is.
LEMMA EnvironmentKeeps ==
    ASSUME IInv, Tick \/ \E row \in log : ExpireRow(row)
    PROVE  IInv'
<1> USE DurationsAssumption DEF IInv, followerVars, writerVars
<1>t. /\ now \in Int /\ lastLogRead \in Int /\ query \in Query
      /\ \A r \in Revalidations : /\ puts[r].at \in Int /\ puts[r].begun \in Int
                                   /\ puts[r].landed \in Int
  BY DEF TypeOK, Put
<1>1. CASE Tick
  <2>0. now' = now + 1 /\ UNCHANGED <<writerVars, followerVars>>
    BY <1>1 DEF Tick
  <2>1. TypeOK'
    BY <2>0 DEF TypeOK
  <2>2. FollowerInTime'
    BY <1>t, <2>0 DEF FollowerInTime, Query
  <2>3. PutsInTime'
    BY <1>t, <2>0 DEF PutsInTime, InTime
  <2>4. RowsStand'
    BY <1>t, <2>0 DEF RowsStand, Stored
  <2>5. AnswerShows' /\ HeardBelowCursor'
    BY <2>0 DEF AnswerShows, HeardBelowCursor, Stored, InTime
  <2>6. QED
    BY <2>1, <2>2, <2>3, <2>4, <2>5
<1>2. ASSUME NEW row \in log, ExpireRow(row)
      PROVE  IInv'
  <2>0. /\ row.at + Ttl <= now /\ log' = log \ {row}
        /\ now' = now /\ puts' = puts /\ UNCHANGED followerVars
    BY <1>2 DEF ExpireRow
  <2>1. TypeOK'
    BY <2>0, FS_RemoveElement DEF TypeOK
  <2>2. RowsStand'
    <3> SUFFICES ASSUME NEW r \in Revalidations, Stored(r), ~(puts[r].at + Ttl <= now)
                 PROVE  [rev |-> r, at |-> puts[r].at, landed |-> puts[r].landed] \in log'
      BY <2>0 DEF RowsStand, Stored
    <3>1. [rev |-> r, at |-> puts[r].at, landed |-> puts[r].landed] \in log
      BY DEF RowsStand
    <3>2. QED
      BY <2>0, <3>1
  <2>3. FollowerInTime' /\ PutsInTime' /\ AnswerShows' /\ HeardBelowCursor'
    BY <2>0 DEF FollowerInTime, PutsInTime, AnswerShows, HeardBelowCursor, Stored, InTime
  <2>4. QED
    BY <2>1, <2>2, <2>3
<1>3. QED
  BY <1>1, <1>2

\* Starting over leaves nothing between the base and the cursor.
LEMMA ForgetKeeps ==
    ASSUME IInv, NEW at \in Int, Forget(at), UNCHANGED <<now, writerVars>>,
           lastLogRead <= at, at <= now
    PROVE  IInv'
<1> USE DurationsAssumption DEF IInv, Forget, writerVars
<1>t. /\ now \in Int
      /\ \A r \in Revalidations : puts[r].at \in Int
  BY DEF TypeOK, Put
<1>1. TypeOK'
  BY NoPutType DEF TypeOK
<1>2. FollowerInTime'
  BY DEF FollowerInTime, NoQuery
<1>3. PutsInTime' /\ RowsStand'
  BY DEF PutsInTime, RowsStand, Stored, InTime
<1>4. AnswerShows'
  BY DEF AnswerShows, NoQuery
<1>5. HeardBelowCursor'
  BY <1>t DEF HeardBelowCursor
<1>6. QED
  BY <1>1, <1>2, <1>3, <1>4, <1>5

\* A follower's step preserves the invariant: an answer shows what had settled,
\* and what it may not show yet is past the next cursor.
LEMMA FollowerStepKeeps ==
    ASSUME IInv, FollowerStep, LookbackCovers, LogOutlivesGap
    PROVE  IInv'
<1> USE DurationsAssumption DEF IInv, writerVars
<1>t. /\ now \in Int /\ cursor \in Int /\ lastLogRead \in Int /\ base \in Int
      /\ query \in Query /\ query.at \in Int /\ log \subseteq Row
      /\ \A r \in Revalidations : /\ puts[r].at \in Int /\ puts[r].begun \in Int
                                   /\ puts[r].landed \in Int
  BY DEF TypeOK, Put, Query
<1>1. CASE RefreshPastGap
  BY <1>1, <1>t, ForgetKeeps DEF RefreshPastGap, FollowerInTime
<1>2. CASE Refresh
  <2>0. /\ UNCHANGED <<now, writerVars, cursor, lastLogRead, heard, base>>
        /\ now - lastLogRead <= MaxGap
        /\ query' = [NoQuery EXCEPT !.phase = "sent", !.at = now]
    BY <1>2 DEF Refresh
  <2>1. query' \in Query /\ query'.phase = "sent" /\ query'.at = now
    BY <1>t, <2>0 DEF Query, NoQuery
  <2>2. TypeOK'
    BY <2>0, <2>1 DEF TypeOK
  <2>3. FollowerInTime'
    BY <1>t, <2>0, <2>1 DEF FollowerInTime
  <2>4. PutsInTime' /\ RowsStand' /\ HeardBelowCursor'
    BY <2>0 DEF PutsInTime, RowsStand, HeardBelowCursor, Stored, InTime
  <2>5. AnswerShows'
    BY <2>1 DEF AnswerShows
  <2>6. QED
    BY <2>2, <2>3, <2>4, <2>5
<1>3. CASE AnswerQuery
  <2>0. /\ query.phase = "sent" /\ now - query.at <= MaxQuery
        /\ UNCHANGED <<now, writerVars, cursor, lastLogRead, heard, base>>
    BY <1>3 DEF AnswerQuery
  <2>1. PICK rows \in SUBSET log :
           /\ \A row \in log : row.at >= cursor /\ row.landed + Lag <= now => row \in rows
           /\ query' = [query EXCEPT !.phase = "answered",
                                     !.revs = {row.rev : row \in rows},
                                     !.truncated = Cardinality(rows) > MaxRows]
    BY <1>3 DEF AnswerQuery
  <2>2. {row.rev : row \in rows} \subseteq Revalidations
    BY <1>t DEF Row
  <2>3. /\ query' \in Query /\ query'.phase = "answered" /\ query'.at = query.at
        /\ query'.revs = {row.rev : row \in rows}
    <3> DEFINE more == Cardinality(rows) > MaxRows
    <3>1. more \in BOOLEAN
      BY FS_Subset, FS_CardinalityType, CountsAssumption DEF TypeOK
    <3>2. query' = [query EXCEPT !.phase = "answered",
                                 !.revs = {row.rev : row \in rows}, !.truncated = more]
      BY <2>1
    <3> HIDE DEF more
    <3>3. QED
      BY <1>t, <2>2, <3>1, <3>2 DEF Query
  <2>4. TypeOK'
    BY <2>0, <2>3 DEF TypeOK
  <2>5. FollowerInTime'
    BY <1>t, <2>0, <2>3 DEF FollowerInTime
  <2>6. PutsInTime' /\ RowsStand' /\ HeardBelowCursor'
    BY <2>0 DEF PutsInTime, RowsStand, HeardBelowCursor, Stored, InTime
  \* The cursor is within the gap of now, so no row past it has expired.
  <2>7. AnswerShows'
    <3> SUFFICES ASSUME NEW r \in Revalidations, Stored(r), cursor <= puts[r].at,
                        puts[r].landed + Lag < query.at
                 PROVE  r \in {row.rev : row \in rows}
      BY <2>0, <2>3 DEF AnswerShows, Stored
    <3>1. /\ cursor = lastLogRead - Lookback /\ query.at <= now
          /\ query.at - lastLogRead <= MaxGap
      BY <2>0 DEF FollowerInTime
    <3>2. ~(puts[r].at + Ttl <= now)
      BY <1>t, <2>0, <3>1 DEF LogOutlivesGap
    <3> DEFINE row == [rev |-> r, at |-> puts[r].at, landed |-> puts[r].landed]
    <3>3. row \in log
      BY <3>2 DEF RowsStand
    <3>4. row \in rows
      BY <1>t, <2>1, <3>1, <3>3
    <3>5. QED
      BY <3>4
  <2>8. QED
    BY <2>4, <2>5, <2>6, <2>7
<1>4. CASE ApplyRows
  <2>0. /\ query.phase = "answered" /\ UNCHANGED <<now, writerVars, base>>
        /\ heard' = heard \cup query.revs /\ lastLogRead' = query.at
        /\ query' = NoQuery
    BY <1>4 DEF ApplyRows
  <2>f. /\ cursor = lastLogRead - Lookback /\ lastLogRead <= query.at
        /\ query.at <= now /\ base <= cursor
    BY <2>0 DEF FollowerInTime
  <2>1. cursor' = query.at - Lookback /\ cursor <= cursor'
    BY <1>4, <1>t, <2>f DEF ApplyRows
  <2>2. TypeOK'
    BY <1>t, <2>0, <2>1, NoPutType DEF TypeOK, Query
  <2>3. FollowerInTime'
    BY <1>t, <2>0, <2>1, <2>f DEF FollowerInTime, NoQuery
  <2>4. PutsInTime' /\ RowsStand'
    BY <2>0 DEF PutsInTime, RowsStand, Stored, InTime
  <2>5. AnswerShows'
    BY <2>0 DEF AnswerShows, NoQuery
  <2>6. HeardBelowCursor'
    <3> SUFFICES ASSUME NEW r \in Revalidations, Stored(r), InTime(r),
                        base <= puts[r].at, puts[r].at < cursor'
                 PROVE  r \in heard'
      BY <2>0 DEF HeardBelowCursor, Stored, InTime
    <3>1. CASE puts[r].at < cursor
      BY <2>0, <3>1 DEF HeardBelowCursor
    <3>2. CASE cursor <= puts[r].at
      <4>1. puts[r].begun <= puts[r].at + Skew
        BY DEF PutsInTime, Stored
      <4>2. puts[r].landed + Lag < query.at
        BY <1>t, <2>1, <4>1 DEF InTime, LookbackCovers
      <4>3. QED
        BY <2>0, <3>2, <4>2 DEF AnswerShows
    <3>3. QED
      BY <1>t, <3>1, <3>2
  <2>7. QED
    BY <2>2, <2>3, <2>4, <2>5, <2>6
<1>5. CASE ForgetTruncated
  BY <1>5, <1>t, ForgetKeeps DEF ForgetTruncated, FollowerInTime
<1>6. CASE FailQuery
  <2>0. query' = NoQuery /\ UNCHANGED <<now, writerVars, cursor, lastLogRead, heard, base>>
    BY <1>6 DEF FailQuery
  <2>1. TypeOK'
    BY <2>0, NoPutType DEF TypeOK
  <2>2. FollowerInTime' /\ AnswerShows'
    BY <2>0 DEF FollowerInTime, AnswerShows, NoQuery
  <2>3. PutsInTime' /\ RowsStand' /\ HeardBelowCursor'
    BY <2>0 DEF PutsInTime, RowsStand, HeardBelowCursor, Stored, InTime
  <2>4. QED
    BY <2>1, <2>2, <2>3
<1>7. QED
  BY <1>1, <1>2, <1>3, <1>4, <1>5, <1>6 DEF FollowerStep

--------------------------------------------------------------------------------
\* IInv is inductive: the follower's cursor and the writers' puts stay in the
\* relation the lookback and the time to live were chosen for.
THEOREM Inductive ==
    ASSUME LookbackCovers, LogOutlivesGap
    PROVE  Spec => []IInv
<1>1. Init => IInv
  <2> SUFFICES ASSUME Init PROVE IInv
    OBVIOUS
  <2> USE DurationsAssumption, CountsAssumption DEF Init
  <2>1. TypeOK
    <3>1. \A r \in Revalidations : puts[r] = NoPut
      OBVIOUS
    <3>2. NoPut.attempt = 0 /\ NoPut.tries = 0
      BY DEF NoPut
    <3>3. IsFiniteSet(log)
      BY FS_EmptySet
    <3>4. QED
      BY <3>1, <3>2, <3>3, NoPutType DEF TypeOK, Row
  <2>2. FollowerInTime /\ AnswerShows
    BY DEF FollowerInTime, AnswerShows, NoQuery
  <2>3. PutsInTime /\ RowsStand /\ HeardBelowCursor
    BY DEF PutsInTime, RowsStand, HeardBelowCursor, Stored, NoPut
  <2>4. QED
    BY <2>1, <2>2, <2>3 DEF IInv
<1>2. IInv /\ [Next]_vars => IInv'
  <2> SUFFICES ASSUME IInv, [Next]_vars PROVE IInv'
    OBVIOUS
  <2>1. CASE UNCHANGED vars
    BY <2>1 DEF vars, IInv, TypeOK, FollowerInTime, PutsInTime, RowsStand, AnswerShows,
                HeardBelowCursor, Stored, InTime
  <2>2. CASE Tick \/ \E row \in log : ExpireRow(row)
    BY <2>2, EnvironmentKeeps
  <2>3. CASE \E r \in Revalidations : WriterStep(r)
    BY <2>3, WriterStepKeeps
  <2>4. CASE FollowerStep
    BY <2>4, FollowerStepKeeps
  <2>5. QED
    BY <2>1, <2>2, <2>3, <2>4 DEF Next
<1>3. QED
  BY <1>1, <1>2, PTL DEF Spec

\* Every variable keeps its type, whatever the durations are, and a put its
\* attempts.
THEOREM TypeCorrect ==
    ASSUME LookbackCovers, LogOutlivesGap
    PROVE  Spec => []TypeOK
BY Inductive, PTL DEF IInv

LEMMA NothingMissedFollows == IInv => NothingMissed
BY DEF IInv, NothingMissed, HeardBelowCursor, PutsInTime, Stored

\* A revalidation whose writer was told it is recorded is never behind the
\* cursor of an instance that has not read it.
THEOREM LogMissesNothing ==
    ASSUME LookbackCovers, LogOutlivesGap
    PROVE  Spec => []NothingMissed
BY Inductive, NothingMissedFollows, PTL

LEMMA RecordedStandsFollows == IInv => RecordedStands
<1> SUFFICES ASSUME IInv, NEW r \in Revalidations, puts[r].phase = "recorded",
                    ~(puts[r].at + Ttl <= now)
             PROVE  \E row \in log : row.rev = r /\ row.at = puts[r].at
  BY DEF RecordedStands
<1>1. [rev |-> r, at |-> puts[r].at, landed |-> puts[r].landed] \in log
  BY DEF IInv, RowsStand, Stored
<1>2. QED
  BY <1>1

\* The row of a recorded revalidation is in the table until its ttl: no other
\* revalidation of the tag overwrites it.
THEOREM RecordedRowsStand ==
    ASSUME LookbackCovers, LogOutlivesGap
    PROVE  Spec => []RecordedStands
BY Inductive, RecordedStandsFollows, PTL

--------------------------------------------------------------------------------
(* The log implements the feed. *)

Filed == {<<r, puts[r].at>> : r \in {s \in Revalidations : puts[s].phase = "recorded"}}

\* A writer files its revalidation at most: what is recorded stays recorded.
LEMMA WriterRecords ==
    ASSUME IInv, NEW r \in Revalidations, WriterStep(r)
    PROVE  \/ Filed' = Filed
           \/ /\ puts'[r].phase = "recorded"
              /\ Filed' = Filed \cup {<<r, puts'[r].at>>}
<1>e. /\ \A s \in Revalidations \ {r} : puts'[s] = puts[s]
      /\ PutKept(r)
  BY WriterStepEffect
<1>1. puts[r].phase # "recorded"
  BY DEF WriterStep, BeginPut, StoreRow, Collide, Resend, AnswerPut, FailPut
<1>2. CASE puts'[r].phase # "recorded"
  <2>1. \A s \in Revalidations : /\ puts'[s].phase = "recorded" <=> puts[s].phase = "recorded"
                                 /\ puts[s].phase = "recorded" => puts'[s] = puts[s]
    BY <1>e, <1>1, <1>2
  <2>2. QED
    BY <2>1 DEF Filed
<1>3. CASE puts'[r].phase = "recorded"
  <2>1. \A s \in Revalidations \ {r} : puts'[s] = puts[s]
    BY <1>e
  <2>2. QED
    BY <1>1, <1>3, <2>1 DEF Filed
<1>4. QED
  BY <1>2, <1>3

\* Every step of the log is a step of the feed, or none of it.
LEMMA StepIsFeedStep ==
    ASSUME IInv, IInv', [Next]_vars
    PROVE  [Feed!FeedNext]_(Feed!feedVars)
<1> USE DEF Feed!FeedNext, Feed!feedVars
<1>t. /\ cursor \in Int /\ lastLogRead \in Int /\ base \in Int /\ now \in Int
      /\ Lookback \in Int
      /\ \A r \in Revalidations : puts[r].at \in Int
  BY DurationsAssumption DEF IInv, TypeOK, Put
<1>f. /\ lastLogRead <= now /\ cursor = lastLogRead - Lookback /\ base <= cursor
      /\ query.phase # "none" => lastLogRead <= query.at /\ query.at \in Int
  BY DEF IInv, TypeOK, FollowerInTime, Query
<1>1. ASSUME UNCHANGED <<puts, heard, base, cursor>>
      PROVE  UNCHANGED Feed!feedVars
  BY <1>1
<1>2. CASE UNCHANGED vars
  BY <1>1, <1>2 DEF vars
<1>3. CASE Tick \/ \E row \in log : ExpireRow(row)
  BY <1>1, <1>3 DEF Tick, ExpireRow, writerVars, followerVars
<1>4. ASSUME NEW r \in Revalidations, WriterStep(r)
      PROVE  [Feed!FeedNext]_(Feed!feedVars)
  <2>1. heard' = heard /\ base' = base /\ cursor' = cursor
    BY <1>4, WriterStepEffect DEF followerVars
  <2>2. CASE Filed' = Filed
    BY <2>1, <2>2 DEF Filed
  <2>3. CASE puts'[r].phase = "recorded" /\ Filed' = Filed \cup {<<r, puts'[r].at>>}
    <3>1. base' <= puts'[r].at /\ puts'[r].at < cursor' => r \in heard'
      BY <2>3 DEF IInv, HeardBelowCursor, PutsInTime, Stored, InTime
    <3>4. Feed!Missing(puts'[r].at, r) = (base <= puts'[r].at /\ puts'[r].at < cursor /\ r \notin heard)
      BY DEF Feed!Missing
    <3>5. ~Feed!Missing(puts'[r].at, r)
      BY <2>1, <3>1, <3>4
    <3> DEFINE filed == <<r, puts'[r].at>>
    <3>6. filed \in Filed' /\ filed[1] = r /\ filed[2] = puts'[r].at
      BY <2>3
    <3>7. \E g \in Filed' : /\ g[1] \in Revalidations
                            /\ ~Feed!Missing(g[2], g[1])
                            /\ Filed' = Filed \cup {g}
      BY <2>3, <3>5, <3>6
    <3>2. Feed!Record
      BY <2>1, <3>7 DEF Filed, Feed!Record
    <3>3. QED
      BY <3>2
  <2>4. QED
    BY <1>4, <2>2, <2>3, WriterRecords
<1>5. CASE ApplyRows
  <2>1. /\ heard \subseteq heard' /\ base' = base /\ puts' = puts
    BY <1>5 DEF ApplyRows, writerVars
  <2>2. cursor <= cursor'
    BY <1>5, <1>t, <1>f DEF ApplyRows
  <2>3. \A g \in Filed : base <= g[2] /\ g[2] < cursor' => g[1] \in heard'
    <3> SUFFICES ASSUME NEW r \in Revalidations, puts[r].phase = "recorded",
                        base <= puts[r].at, puts[r].at < cursor'
                 PROVE  r \in heard'
      BY DEF Filed
    <3>1. QED
      BY <2>1 DEF IInv, HeardBelowCursor, PutsInTime, Stored, InTime
  <2>4. Feed!Hear
    BY <2>1, <2>2, <2>3 DEF Feed!Hear, Filed
  <2>5. QED
    BY <2>4
<1>6. ASSUME NEW at \in Int, Forget(at), puts' = puts, lastLogRead <= at
      PROVE  Feed!StartOver
  BY <1>6, <1>t, <1>f DEF Forget, Feed!StartOver
<1>7. CASE RefreshPastGap \/ ForgetTruncated
  BY <1>6, <1>7, <1>t, <1>f DEF RefreshPastGap, ForgetTruncated, writerVars
<1>8. CASE Refresh \/ AnswerQuery \/ FailQuery
  BY <1>1, <1>8 DEF Refresh, AnswerQuery, FailQuery, writerVars
<1>9. QED
  BY <1>2, <1>3, <1>4, <1>5, <1>7, <1>8 DEF Next, FollowerStep

\* The revalidation log implements the feed an instance relies on.
THEOREM LogImplementsFeed ==
    ASSUME LookbackCovers, LogOutlivesGap
    PROVE  Spec => ImplementsFeed
<1>1. Init => Feed!FeedInit
  BY DurationsAssumption DEF Init, Feed!FeedInit, NoPut
<1>2. IInv /\ IInv' /\ [Next]_vars => [Feed!FeedNext]_(Feed!feedVars)
  BY StepIsFeedStep
<1>3. Spec => []IInv
  BY Inductive
<1>4. QED
  BY <1>1, <1>2, <1>3, PTL DEF Spec, ImplementsFeed, Feed!FeedSpec
================================================================================
