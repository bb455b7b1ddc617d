-------------------------- MODULE ServerRuntimeProofs --------------------------
(***************************************************************************)
(* That no work a request registered is abandoned, and that nothing of a   *)
(* failure is in another's answer, proved for any number of requests, of   *)
(* failures and of work.                                                   *)
(***************************************************************************)
EXTENDS ServerRuntime, TLAPS

\* The headers a request has collected say nothing of a body it is not to send: of a
\* file's only while it is that file that answers, and not before it is loaded.
HeadIsOfFile == \A r \in Requests :
    LET q == req[r]
    IN  /\ q.head.status # 0 /\ q.head.describes \in {"none", q.file}
        /\ q.phase \in {"idle", "route", "stream", "load"} => q.head.describes = "none"
        /\ q.phase \in {"idle", "route", "stream"} => q.file = "none" /\ q.head.status = 200
        /\ q.phase = "load" => q.file \in Files

\* Nor what a matched rule said of an answer that came to be another.
HeadIsNotCached == \A r \in Requests :
    LET q == req[r]
    IN  /\ q.head.status = 500 => q.head.cache = "no-store"
        /\ q.target \in {"unmatched", "foreign"} => q.head.cache = "no-store"
        /\ q.phase \in {"idle", "route"} => q.target = "none" /\ q.wire = NoHead
        /\ q.phase = "stream" => q.target = "stream"

\* A failed load is not kept, and each one since a request arrived is counted.
FailuresCounted ==
    /\ \A f \in Files : modules[f] # "failed" /\ fails[f] <= broken
    /\ \A r \in Requests, f \in Files : req[r].seen[f] <= fails[f]

\* Once no connection is left, every request under way is waited for.
ShutdownKnows ==
    /\ server \in {"draining", "stopped"} => InFlight \subseteq awaited
    /\ server = "stopped" => \A r \in awaited : In(r, "done")

IInv ==
    /\ WorkIsDone /\ NothingInherited
    /\ HeadIsOfFile /\ HeadIsNotCached /\ FailuresCounted /\ ShutdownKnows

\* The conjuncts that are of one request.
Sound(r, q) ==
    /\ q \in Request /\ Len(q.work) <= MaxWork[r]
    /\ q.out \in {"piping", "ended"} => q.wire # NoHead
    /\ q.phase = "done" => \A i \in DOMAIN q.work : q.work[i] # "pending"
    /\ q.wire.describes \in {"none", q.wire.by}
    /\ q.wire.status = 500 => q.wire.cache = "no-store"
    /\ q.wire.status = 404 /\ q.target \in {"unmatched", "foreign"} => q.wire.cache = "no-store"
    /\ q.head.status # 0 /\ q.head.describes \in {"none", q.file}
    /\ q.phase \in {"idle", "route", "stream", "load"} => q.head.describes = "none"
    /\ q.phase \in {"idle", "route", "stream"} => q.file = "none" /\ q.head.status = 200
    /\ q.phase = "load" => q.file \in Files
    /\ q.head.status = 500 => q.head.cache = "no-store"
    /\ q.target \in {"unmatched", "foreign"} => q.head.cache = "no-store"
    /\ q.phase \in {"idle", "route"} => q.target = "none" /\ q.wire = NoHead
    /\ q.phase = "stream" => q.target = "stream"

Counted(q) ==
    /\ \A f \in Files : q.seen[f] <= fails[f]
    /\ q.phase = "load" /\ q.told = "failed" => fails[q.file] > q.seen[q.file]

--------------------------------------------------------------------------------
\* The invariant, request by request.
ByRequest ==
    /\ server \in {"open", "closing", "draining", "stopped"} /\ awaited \subseteq Outer
    /\ modules \in [Files -> {"absent", "loading", "loaded", "failed"}]
    /\ fails \in [Files -> 0 .. MaxBroken] /\ broken \in 0 .. MaxBroken
    /\ req \in [Requests -> Request]
    /\ \A r \in Requests : Sound(r, req[r]) /\ Counted(req[r])
    /\ \A f \in Files : modules[f] # "failed" /\ fails[f] <= broken
    /\ AcceptedIsCommitted /\ StopsClean /\ ShutdownKnows

LEMMA Parts == IInv <=> ByRequest
<1> USE DEF ByRequest, IInv, WorkIsDone, NothingInherited, TypeOK
<1>1. ASSUME req \in [Requests -> Request]
      PROVE  (/\ NothingAbandoned /\ ErrorsAreTheirOwn /\ HeadIsOfFile /\ HeadIsNotCached
              /\ \A r \in Requests : /\ req[r].out \in {"piping", "ended"} => req[r].wire # NoHead
                                     /\ Len(req[r].work) <= MaxWork[r])
             <=> \A r \in Requests : Sound(r, req[r])
  BY <1>1 DEF Sound, NothingAbandoned, ErrorsAreTheirOwn, HeadIsOfFile, HeadIsNotCached, In, Pending
<1>2. (FailuresCounted /\ FailureIsFresh)
      <=> /\ \A r \in Requests : Counted(req[r])
          /\ \A f \in Files : modules[f] # "failed" /\ fails[f] <= broken
  BY DEF Counted, FailuresCounted, FailureIsFresh, In
<1>3. QED
  BY <1>1, <1>2

LEMMA HeadsOfNothing ==
    /\ NoHead \in Heads /\ NoHead.status = 0 /\ NoHead.describes = "none" /\ NoHead.by = "none"
    /\ FailedHead \in Heads /\ FailedHead.status = 500 /\ FailedHead.cache = "no-store"
    /\ FailedHead.describes = "none" /\ FailedHead.by = "none"
<1>1. NoHead \in Heads /\ NoHead.status = 0 /\ NoHead.describes = "none" /\ NoHead.by = "none"
  BY DEF NoHead, Heads
<1>2. /\ FailedHead \in Heads /\ FailedHead.status = 500 /\ FailedHead.cache = "no-store"
      /\ FailedHead.describes = NoHead.describes /\ FailedHead.by = NoHead.by
  <2> DEFINE head == [NoHead EXCEPT !.status = 500]
  <2>1. /\ head \in Heads /\ head.status = 500
        /\ head.describes = NoHead.describes /\ head.by = NoHead.by
    BY <1>1 DEF Heads
  <2>2. FailedHead = [head EXCEPT !.cache = "no-store"]
    BY DEF FailedHead
  <2> HIDE DEF head
  <2>3. QED
    BY <2>1, <2>2 DEF Heads
<1>3. QED
  BY <1>1, <1>2

LEMMA FreshIsSound ==
    /\ Fresh \in Request
    /\ \A r \in Requests, asks \in SUBSET Targets :
          LET q == [Fresh EXCEPT !.asks = asks]
          IN  Sound(r, q) /\ q.seen = [f \in Files |-> 0] /\ q.phase = "idle" /\ q.accepted = {}
<1> DEFINE head == [NoHead EXCEPT !.status = 200]
<1>1. head \in Heads /\ head.status = 200 /\ head.describes = "none"
  BY HeadsOfNothing DEF Heads
<1> HIDE DEF head
<1>2. /\ Fresh \in Request /\ Fresh.head = head /\ Fresh.wire = NoHead /\ Fresh.phase = "idle"
      /\ Fresh.out = "unsent" /\ Fresh.work = <<>> /\ Fresh.file = "none" /\ Fresh.target = "none"
      /\ Fresh.seen = [f \in Files |-> 0] /\ Fresh.accepted = {}
  <2>1. [f \in Files |-> 0] \in [Files -> 0 .. MaxBroken]
    BY RuntimeAssumption
  <2>2. QED
    BY <1>1, <2>1, HeadsOfNothing DEF Fresh, Request, Phases, head
<1>3. ASSUME NEW r \in Requests, NEW asks \in SUBSET Targets
      PROVE  LET q == [Fresh EXCEPT !.asks = asks]
             IN  Sound(r, q) /\ q.seen = [f \in Files |-> 0] /\ q.phase = "idle" /\ q.accepted = {}
  <2> DEFINE q == [Fresh EXCEPT !.asks = asks]
  <2>1. /\ q \in Request /\ q.head = head /\ q.wire = NoHead /\ q.phase = "idle"
        /\ q.out = "unsent" /\ q.work = <<>> /\ q.file = "none" /\ q.target = "none"
        /\ q.seen = [f \in Files |-> 0] /\ q.accepted = {}
    BY <1>2 DEF Request
  <2> HIDE DEF q
  <2>2. Sound(r, q)
    BY <1>1, <2>1, HeadsOfNothing, RuntimeAssumption DEF Sound
  <2>3. QED
    BY <2>1, <2>2 DEF q
<1>4. QED
  BY <1>2, <1>3

\* What Begun changes.
LEMMA BegunIs ==
    ASSUME NEW q \in Request, NEW head \in Heads, NEW by \in Files \cup {"none"}
    PROVE  LET e == Begun(q, head, by)
           IN  /\ e \in Request
               /\ e.phase = q.phase /\ e.target = q.target /\ e.file = q.file /\ e.told = q.told
               /\ e.head = q.head /\ e.work = q.work /\ e.drained = q.drained /\ e.seen = q.seen
               /\ e.accepted = q.accepted
               /\ q.out # "unsent" => e = q
               /\ q.out = "unsent" => \/ e.out = "destroyed" /\ e.wire = FailedHead
                                      \/ e.out = "piping" /\ e.wire = [head EXCEPT !.by = by]
<1> DEFINE sent == [head EXCEPT !.by = by]
<1>1. FailedHead \in Heads /\ sent \in Heads
  BY HeadsOfNothing DEF Heads
<1> HIDE DEF sent
<1>2. CASE q.out # "unsent"
  BY <1>2 DEF Begun
<1>3. CASE q.out = "unsent" /\ q.refuses
  <2>1. Begun(q, head, by) = [q EXCEPT !.out = "destroyed", !.settled = TRUE, !.wire = FailedHead]
    BY <1>3 DEF Begun, Destroyed
  <2>2. QED
    BY <1>1, <1>3, <2>1 DEF Request
<1>4. CASE q.out = "unsent" /\ ~q.refuses
  <2>1. Begun(q, head, by) = [q EXCEPT !.out = "piping", !.wire = sent]
    BY <1>4 DEF Begun, sent
  <2>2. QED
    BY <1>1, <1>4, <2>1 DEF Request, sent
<1>5. QED
  BY <1>2, <1>3, <1>4
--------------------------------------------------------------------------------
(* A step of one request. *)

\* Request r is as `new` after it, and nothing it was done with is undone.
Moves(r, new) ==
    /\ Set(r, new) /\ Sound(r, new) /\ Counted(new)
    /\ UNCHANGED <<process, fails>>
    /\ \/ UNCHANGED modules
       \/ \E f \in Files : modules' = [modules EXCEPT ![f] = IF @ = "absent" THEN "loading" ELSE @]
    /\ broken' = broken \/ (broken < MaxBroken /\ broken' = broken + 1)
    /\ In(r, "done") => new.phase = "done" /\ new.target = req[r].target
    /\ In(r, "idle") /\ r \in Outer /\ new.phase # "idle" => server \in {"open", "closing"}
    /\ \A i \in new.accepted : \/ i \in req[r].accepted
                               \/ i # r /\ In(i, "done") /\ req[i].target # "foreign"

LEMMA MoveKeeps ==
    ASSUME IInv, NEW r \in Requests, NEW new, Moves(r, new)
    PROVE  IInv'
<1> USE DEF process
<1>1. /\ req \in [Requests -> Request] /\ modules \in [Files -> {"absent", "loading", "loaded", "failed"}]
      /\ broken \in Nat /\ fails \in [Files -> 0 .. MaxBroken] /\ MaxBroken \in Nat
      /\ \A p \in Requests : Sound(p, req[p]) /\ Counted(req[p])
      /\ \A f \in Files : modules[f] # "failed" /\ fails[f] <= broken
  BY Parts, RuntimeAssumption DEF ByRequest
<1>2. new \in Request /\ req' = [req EXCEPT ![r] = new] /\ fails' = fails /\ server' = server
      /\ awaited' = awaited
  BY DEF Moves, Set, Sound
<1>3. req'[r] = new /\ (\A p \in Requests \ {r} : req'[p] = req[p]) /\ req' \in [Requests -> Request]
  BY <1>1, <1>2
<1>4. /\ modules' \in [Files -> {"absent", "loading", "loaded", "failed"}]
      /\ \A f \in Files : modules'[f] # "failed"
  BY <1>1 DEF Moves
<1>5. broken' \in 0 .. MaxBroken /\ \A f \in Files : fails'[f] <= broken'
  BY <1>1, <1>2, Parts DEF Moves, ByRequest
<1>6. \A p \in Requests : Sound(p, req'[p])
  BY <1>1, <1>3 DEF Moves
<1>7. \A p \in Requests : Counted(req'[p])
  BY <1>1, <1>3 DEF Moves
<1>8. \A p \in Requests : Sound(p, req[p])' /\ Counted(req[p])'
  BY <1>2, <1>6, <1>7 DEF Sound, Counted
<1>9. AcceptedIsCommitted'
  <2>1. SUFFICES ASSUME NEW p \in Requests, NEW i \in req'[p].accepted
                 PROVE  In(i, "done")' /\ ~Pending(i)' /\ req'[i].target # "foreign"
    BY DEF AcceptedIsCommitted
  <2>2. i \in Requests
    BY <1>3 DEF Request, Requests
  <2>3. In(i, "done") /\ req[i].target # "foreign"
    BY <1>3, Parts DEF Moves, AcceptedIsCommitted, ByRequest
  <2>4. req'[i].phase = "done" /\ req'[i].target # "foreign"
    BY <1>3, <2>2, <2>3 DEF Moves, In
  <2>5. QED
    BY <1>6, <2>2, <2>4 DEF Sound, In, Pending
<1>10. \A p \in Outer : In(p, "done") => In(p, "done")'
  BY <1>3 DEF Moves, In, Requests
<1>11. server \in {"draining", "stopped"} => InFlight' \subseteq InFlight
  BY <1>3, <1>10 DEF Moves, InFlight, In, Requests
<1>12. StopsClean' /\ ShutdownKnows'
  BY <1>2, <1>10, <1>11, Parts DEF StopsClean, ShutdownKnows, ByRequest
<1>13. QED
  <2>1. /\ server' \in {"open", "closing", "draining", "stopped"} /\ awaited' \subseteq Outer
        /\ fails' \in [Files -> 0 .. MaxBroken]
    BY <1>2, Parts DEF ByRequest
  <2>2. ByRequest'
    BY <1>3, <1>4, <1>5, <1>8, <1>9, <1>12, <2>1 DEF ByRequest
  <2>3. QED
    BY <2>2, Parts, PTL
\* What Ended changes.
LEMMA EndedIs ==
    ASSUME NEW q \in Request, NEW head \in Heads, NEW by \in Files \cup {"none"}
    PROVE  LET e == Ended(q, head, by)
           IN  /\ e \in Request
               /\ e.phase = q.phase /\ e.target = q.target /\ e.file = q.file /\ e.told = q.told
               /\ e.head = q.head /\ e.work = q.work /\ e.drained = q.drained /\ e.seen = q.seen
               /\ e.accepted = q.accepted /\ e.out \in {"ended", "destroyed"}
               /\ q.out # "unsent" => e.wire = q.wire /\ (q.out = "destroyed" => e.out = "destroyed")
               /\ q.out = "unsent" => \/ e.out = "destroyed" /\ e.wire = FailedHead
                                      \/ e.out = "ended" /\ e.wire = [head EXCEPT !.by = by]
<1> DEFINE b == Begun(q, head, by)
           out == IF b.out = "piping" THEN "ended" ELSE b.out
<1>1. /\ b \in Request
      /\ b.phase = q.phase /\ b.target = q.target /\ b.file = q.file /\ b.told = q.told
      /\ b.head = q.head /\ b.work = q.work /\ b.drained = q.drained /\ b.seen = q.seen
      /\ b.accepted = q.accepted
      /\ q.out # "unsent" => b = q
      /\ q.out = "unsent" => \/ b.out = "destroyed" /\ b.wire = FailedHead
                             \/ b.out = "piping" /\ b.wire = [head EXCEPT !.by = by]
  BY BegunIs
<1>2. Ended(q, head, by) = [b EXCEPT !.out = out]
  BY DEF Ended
<1> HIDE DEF b
<1>3. /\ out \in {"ended", "destroyed"} /\ (b.out = "destroyed" => out = "destroyed")
      /\ (b.out = "piping" => out = "ended")
  BY <1>1 DEF Request
<1> HIDE DEF out
<1> DEFINE e == [b EXCEPT !.out = out]
<1>4. /\ e \in Request /\ e.out = out
      /\ e.phase = b.phase /\ e.target = b.target /\ e.file = b.file /\ e.told = b.told
      /\ e.head = b.head /\ e.wire = b.wire /\ e.work = b.work /\ e.drained = b.drained
      /\ e.seen = b.seen /\ e.accepted = b.accepted
  BY <1>1, <1>3 DEF Request
<1> HIDE DEF e
<1>5. b.out \in {"unsent", "piping", "ended", "destroyed"}
  BY <1>1 DEF Request
<1>6. Ended(q, head, by) = e
  BY <1>2 DEF e
<1>7. QED
  BY <1>1, <1>3, <1>4, <1>5, <1>6

LEMMA SentIs ==
    ASSUME NEW q \in Request, NEW head \in Heads, NEW by \in Files \cup {"none"},
           NEW e \in {Begun(q, head, by), Ended(q, head, by)}
    PROVE  /\ e \in Request /\ e.phase = q.phase /\ e.target = q.target /\ e.file = q.file
           /\ e.head = q.head /\ e.work = q.work /\ e.seen = q.seen /\ e.accepted = q.accepted
<1>1. CASE e = Begun(q, head, by)
  <2> DEFINE b == Begun(q, head, by)
  <2>1. /\ b \in Request
        /\ b.phase = q.phase /\ b.target = q.target /\ b.file = q.file /\ b.told = q.told
        /\ b.head = q.head /\ b.work = q.work /\ b.drained = q.drained /\ b.seen = q.seen
        /\ b.accepted = q.accepted
        /\ q.out # "unsent" => b = q
        /\ q.out = "unsent" => \/ b.out = "destroyed" /\ b.wire = FailedHead
                               \/ b.out = "piping" /\ b.wire = [head EXCEPT !.by = by]
    BY BegunIs
  <2> HIDE DEF b
  <2>2. e = b
    BY <1>1 DEF b
  <2>3. QED
    BY <2>1, <2>2
<1>2. CASE e = Ended(q, head, by)
  BY <1>2, EndedIs
<1>3. QED
  BY <1>1, <1>2

\* An answer that begins or ends a request's response, or finds it begun.
LEMMA AnsweredIsSound ==
    ASSUME IInv, NEW r \in Requests, NEW new \in Request,
           NEW head \in Heads, NEW by \in Files \cup {"none"},
           req[r].phase \notin {"idle", "done"},
           head.status # 0, head.status = 500 => head.cache = "no-store",
           head.describes \in {"none", by}, head.describes \in {"none", req[r].file},
           new.target \in {"unmatched", "foreign"} => head.cache = "no-store",
           new.target = req[r].target \/ req[r].phase = "route",
           \/ new.phase = "finish"
           \/ new.phase = req[r].phase /\ new.phase \in {"render", "stream", "finish"} /\ head = req[r].head,
           new.head = head, new.file = req[r].file, new.work = req[r].work,
           new.seen = req[r].seen, new.accepted = req[r].accepted,
           \E e \in {Begun(req[r], head, by), Ended(req[r], head, by)} :
              new.out = e.out /\ new.wire = e.wire
    PROVE  Sound(r, new) /\ Counted(new)
<1> DEFINE q == req[r]
           sent == [head EXCEPT !.by = by]
<1>1. q \in Request /\ Sound(r, q) /\ Counted(q)
  BY Parts DEF ByRequest
<1>2. \/ q.out # "unsent" /\ new.wire = q.wire /\ (new.out \in {"piping", "ended"} => q.out # "destroyed")
      \/ q.out = "unsent" /\ new.wire = FailedHead /\ new.out = "destroyed"
      \/ q.out = "unsent" /\ new.wire = sent
  BY <1>1, BegunIs, EndedIs
<1>3. /\ sent \in Heads /\ sent.status = head.status /\ sent.describes = head.describes
      /\ sent.cache = head.cache /\ sent.by = by
  BY DEF Heads
<1> HIDE DEF q, sent
<1>4. sent # NoHead
  BY <1>3, HeadsOfNothing
<1>5. Counted(new)
  BY <1>1 DEF Counted, q
<1>6. new.work = q.work /\ Len(q.work) <= MaxWork[r] /\ new.file = q.file
  BY <1>1 DEF q, Sound
<1>7. /\ new.out \in {"piping", "ended"} => new.wire # NoHead
      /\ new.wire.describes \in {"none", new.wire.by}
      /\ new.wire.status = 500 => new.wire.cache = "no-store"
      /\ new.wire.status = 404 /\ new.target \in {"unmatched", "foreign"} => new.wire.cache = "no-store"
  <2>1. CASE q.out = "unsent"
    BY <1>2, <1>3, <1>4, <1>6, <2>1, HeadsOfNothing
  <2>2. CASE q.out # "unsent"
    <3>1. new.wire = q.wire /\ (q.target = new.target \/ new.wire = NoHead)
      BY <1>1, <1>2, <1>6, <2>2 DEF Sound, q
    <3>2. new.out \in {"piping", "ended"} => q.out \in {"piping", "ended"}
      BY <1>1, <1>2, <1>6, <2>2 DEF Request
    <3>3. QED
      BY <1>1, <3>1, <3>2, HeadsOfNothing DEF Sound
  <2>3. QED
    BY <2>1, <2>2
<1>8. new.phase \in {"idle", "route", "stream", "load"} =>
         new.phase = "stream" /\ new.file = "none" /\ new.head.status = 200
         /\ new.head.describes = "none" /\ new.target = "stream"
  BY <1>1 DEF Sound, q
<1>9. QED
  BY <1>5, <1>6, <1>7, <1>8 DEF Sound, q

LEMMA FinishKeeps ==
    ASSUME IInv, NEW r \in Requests, NEW head \in Heads, NEW by \in Files \cup {"none"},
           req[r].phase \notin {"idle", "done"},
           head.status # 0, head.status = 500 => head.cache = "no-store",
           head.describes \in {"none", by}, head.describes \in {"none", req[r].file},
           req[r].target \in {"unmatched", "foreign"} => head.cache = "no-store",
           Finish(r, head, by), UNCHANGED <<process, loader>>,
           broken' = broken \/ (broken < MaxBroken /\ broken' = broken + 1)
    PROVE  IInv'
<1> DEFINE e == Ended(req[r], head, by)
           new == [e EXCEPT !.phase = "finish", !.head = head]
<1>1. req[r] \in Request
  BY Parts DEF ByRequest
<1>2. /\ e \in Request /\ e.target = req[r].target /\ e.file = req[r].file /\ e.work = req[r].work
      /\ e.seen = req[r].seen /\ e.accepted = req[r].accepted
  BY <1>1, EndedIs
<1> HIDE DEF e
<1>3. /\ new \in Request /\ new.target = e.target /\ new.file = e.file /\ new.work = e.work
      /\ new.seen = e.seen /\ new.accepted = e.accepted /\ new.out = e.out /\ new.wire = e.wire
      /\ new.phase = "finish" /\ new.head = head
  BY <1>2 DEF Request, Phases
<1> HIDE DEF new
<1>4. Sound(r, new) /\ Counted(new)
  BY <1>2, <1>3, AnsweredIsSound DEF e
<1>5. Set(r, new)
  BY DEF Finish, new, e
<1>6. Moves(r, new)
  BY <1>2, <1>3, <1>4, <1>5 DEF Moves, In, loader
<1>7. QED
  BY <1>6, MoveKeeps

\* A request that goes on to a file it loads, whose body it has not described yet.
LEMMA LoadKeeps ==
    ASSUME IInv, NEW r \in Requests, NEW f \in Files, NEW q \in Request,
           req[r].phase \notin {"idle", "done"},
           q.head.status # 0, q.head.status = 500 => q.head.cache = "no-store",
           q.head.describes = "none",
           q.target \in {"unmatched", "foreign"} => q.head.cache = "no-store",
           q.target = req[r].target \/ req[r].phase = "route",
           q.out = req[r].out, q.wire = req[r].wire, q.work = req[r].work, q.seen = req[r].seen,
           q.accepted = req[r].accepted,
           Load(r, f, q), UNCHANGED <<process, fails, broken>>
    PROVE  IInv'
<1> DEFINE told == IF modules[f] \in {"loaded", "failed"} THEN modules[f] ELSE "waiting"
           new == [q EXCEPT !.phase = "load", !.file = f, !.told = told]
<1>1. req[r] \in Request /\ Sound(r, req[r]) /\ Counted(req[r]) /\ modules[f] # "failed"
  BY Parts DEF ByRequest
<1>2. told \in {"loaded", "waiting"}
  BY <1>1
<1> HIDE DEF told
<1>3. /\ new \in Request /\ new.phase = "load" /\ new.file = f /\ new.told = told
      /\ new.head = q.head /\ new.target = q.target /\ new.out = q.out /\ new.wire = q.wire
      /\ new.work = q.work /\ new.seen = q.seen /\ new.accepted = q.accepted
  BY <1>2 DEF Request, Phases
<1> HIDE DEF new
<1>4. req[r].phase = "route" => req[r].wire = NoHead
  BY <1>1 DEF Sound
<1>5. Sound(r, new)
  BY <1>1, <1>3, <1>4, HeadsOfNothing DEF Sound
<1>6. Counted(new)
  BY <1>1, <1>2, <1>3 DEF Counted
<1>7. Moves(r, new)
  BY <1>3, <1>5, <1>6 DEF Load, Moves, In, new, told
<1>8. QED
  BY <1>7, MoveKeeps
--------------------------------------------------------------------------------
(* Each action. *)

LEMMA Start == Init => IInv
<1> SUFFICES ASSUME Init PROVE IInv
  OBVIOUS
<1>1. PICK asks \in Scenarios : req = [r \in Requests |-> [Fresh EXCEPT !.asks = asks[r]]]
  BY DEF Init
<1>2. \A r \in Requests : asks[r] \in SUBSET Targets
  BY RuntimeAssumption
<1>3. \A r \in Requests :
         /\ Sound(r, req[r]) /\ req[r].seen = [f \in Files |-> 0] /\ req[r].phase = "idle"
         /\ req[r].accepted = {}
  BY <1>1, <1>2, FreshIsSound
<1>4. req \in [Requests -> Request]
  BY <1>1, <1>3 DEF Sound
<1>5. \A r \in Requests : Counted(req[r])
  BY <1>3 DEF Counted, Init
<1>6. AcceptedIsCommitted /\ StopsClean /\ ShutdownKnows
  BY <1>3 DEF AcceptedIsCommitted, StopsClean, ShutdownKnows, Init
<1>7. ByRequest
  BY <1>3, <1>4, <1>5, <1>6, RuntimeAssumption DEF ByRequest, Init
<1>8. QED
  BY <1>7, Parts

\* What the invariant says of a request, to be cited where a step is about one.
LEMMA OfRequest ==
    ASSUME IInv, NEW r \in Requests
    PROVE  /\ req[r] \in Request /\ Sound(r, req[r]) /\ Counted(req[r])
           /\ fails \in [Files -> 0 .. MaxBroken]
           /\ req[r].head \in Heads
BY Parts DEF ByRequest, Request

LEMMA ClientStepsKeep ==
    ASSUME IInv, NEW r \in Requests, Arrive(r) \/ Delivered(r) \/ ClientLeaves(r)
    PROVE  IInv'
<1>1. req[r] \in Request /\ Sound(r, req[r]) /\ Counted(req[r]) /\ fails \in [Files -> 0 .. MaxBroken]
  BY OfRequest
<1>2. CASE Arrive(r)
  <2>1. PICK refuses \in BOOLEAN :
           /\ IF refuses THEN Breaks ELSE UNCHANGED broken
           /\ Set(r, [req[r] EXCEPT !.phase = "route", !.client = "here", !.refuses = refuses,
                                    !.seen = fails])
    BY <1>2 DEF Arrive
  <2> DEFINE new == [req[r] EXCEPT !.phase = "route", !.client = "here", !.refuses = refuses,
                                   !.seen = fails]
  <2>2. /\ new \in Request /\ new.phase = "route" /\ new.seen = fails /\ new.head = req[r].head
        /\ new.target = req[r].target /\ new.out = req[r].out /\ new.wire = req[r].wire
        /\ new.work = req[r].work /\ new.accepted = req[r].accepted /\ new.file = req[r].file
    BY <1>1 DEF Request, Phases
  <2>3. Set(r, new)
    BY <2>1
  <2> HIDE DEF new
  <2>4. In(r, "idle") /\ server \in {"open", "closing"} /\ UNCHANGED <<process, loader>>
    BY <1>2 DEF Arrive
  <2>5. Sound(r, new)
    BY <1>1, <2>2, <2>4 DEF Sound, In
  <2>6. Counted(new)
    BY <1>1, <2>2 DEF Counted
  <2>7. Moves(r, new)
    BY <2>1, <2>2, <2>3, <2>4, <2>5, <2>6 DEF Moves, In, loader, Breaks
  <2>8. QED
    BY <2>7, MoveKeeps
<1>3. CASE Delivered(r)
  <2> DEFINE new == [req[r] EXCEPT !.settled = TRUE, !.client = "served"]
  <2>1. /\ new \in Request /\ new.phase = req[r].phase /\ new.seen = req[r].seen
        /\ new.head = req[r].head /\ new.told = req[r].told
        /\ new.target = req[r].target /\ new.out = req[r].out /\ new.wire = req[r].wire
        /\ new.work = req[r].work /\ new.accepted = req[r].accepted /\ new.file = req[r].file
    BY <1>1 DEF Request
  <2>2. Set(r, new) /\ UNCHANGED <<process, loader, broken>>
    BY <1>3 DEF Delivered
  <2> HIDE DEF new
  <2>3. Sound(r, new) /\ Counted(new)
    BY <1>1, <2>1 DEF Sound, Counted
  <2>4. Moves(r, new)
    BY <2>1, <2>2, <2>3 DEF Moves, In, loader
  <2>5. QED
    BY <2>4, MoveKeeps
<1>4. CASE ClientLeaves(r)
  <2> DEFINE new == [Destroyed(req[r]) EXCEPT !.client = "gone"]
  <2>1. /\ new \in Request /\ new.phase = req[r].phase /\ new.seen = req[r].seen
        /\ new.head = req[r].head /\ new.told = req[r].told
        /\ new.target = req[r].target /\ new.out = "destroyed" /\ new.wire = req[r].wire
        /\ new.work = req[r].work /\ new.accepted = req[r].accepted /\ new.file = req[r].file
    BY <1>1 DEF Request, Destroyed
  <2>2. Set(r, new) /\ UNCHANGED <<process, loader>> /\ Breaks
    BY <1>4 DEF ClientLeaves
  <2> HIDE DEF new
  <2>3. Sound(r, new) /\ Counted(new)
    BY <1>1, <2>1 DEF Sound, Counted
  <2>4. Moves(r, new)
    BY <2>1, <2>2, <2>3 DEF Moves, In, loader, Breaks
  <2>5. QED
    BY <2>4, MoveKeeps
<1>5. QED
  BY <1>2, <1>3, <1>4

\* A request that only enters another phase, of those where nothing is asked of its head.
LEMMA EnterKeeps ==
    ASSUME IInv, NEW r \in Requests, NEW phase \in {"render", "error", "finish"},
           req[r].phase \notin {"idle", "done"}, req[r].phase = "route" => phase = "error",
           Enter(r, phase), UNCHANGED <<process, loader>>,
           broken' = broken \/ (broken < MaxBroken /\ broken' = broken + 1)
    PROVE  IInv'
<1> DEFINE new == [req[r] EXCEPT !.phase = phase]
<1>1. req[r] \in Request /\ Sound(r, req[r]) /\ Counted(req[r])
  BY OfRequest
<1>2. /\ new \in Request /\ new.phase = phase /\ new.seen = req[r].seen
      /\ new.head = req[r].head /\ new.told = req[r].told
      /\ new.target = req[r].target /\ new.out = req[r].out /\ new.wire = req[r].wire
      /\ new.work = req[r].work /\ new.accepted = req[r].accepted /\ new.file = req[r].file
  BY <1>1 DEF Request, Phases
<1>3. Set(r, new)
  BY DEF Enter
<1> HIDE DEF new
<1>4. Sound(r, new) /\ Counted(new)
  BY <1>1, <1>2 DEF Sound, Counted
<1>5. Moves(r, new)
  BY <1>2, <1>3, <1>4 DEF Moves, In, loader
<1>6. QED
  BY <1>5, MoveKeeps

\* Or finishes with its response destroyed.
LEMMA DestroyedKeeps ==
    ASSUME IInv, NEW r \in Requests, req[r].phase \notin {"idle", "done"},
           Set(r, [Destroyed(req[r]) EXCEPT !.phase = "finish"]), UNCHANGED <<process, loader>>,
           broken' = broken \/ (broken < MaxBroken /\ broken' = broken + 1)
    PROVE  IInv'
<1> DEFINE new == [Destroyed(req[r]) EXCEPT !.phase = "finish"]
<1>1. req[r] \in Request /\ Sound(r, req[r]) /\ Counted(req[r])
  BY OfRequest
<1>2. /\ new \in Request /\ new.phase = "finish" /\ new.seen = req[r].seen
      /\ new.head = req[r].head /\ new.told = req[r].told
      /\ new.target = req[r].target /\ new.out = "destroyed" /\ new.wire = req[r].wire
      /\ new.work = req[r].work /\ new.accepted = req[r].accepted /\ new.file = req[r].file
  BY <1>1 DEF Request, Phases, Destroyed
<1> HIDE DEF new
<1>3. Sound(r, new) /\ Counted(new)
  BY <1>1, <1>2 DEF Sound, Counted
<1>4. Moves(r, new)
  BY <1>2, <1>3 DEF Moves, In, loader, new
<1>5. QED
  BY <1>4, MoveKeeps
\* The heads that are put together: an error's, that of what nothing serves, a file's.
LEMMA HeadsAre ==
    ASSUME NEW head \in Heads
    PROVE  /\ LET h == ErrorHead(head)
              IN  h \in Heads /\ h.status = 500 /\ h.cache = "no-store" /\ h.describes = "none"
           /\ LET h == UnmatchedHead(head)
              IN  h \in Heads /\ h.status = 404 /\ h.cache = "no-store" /\ h.describes = head.describes
<1> DEFINE h1 == [head EXCEPT !.status = 500]
           h2 == [h1 EXCEPT !.cache = "no-store"]
           h3 == [h2 EXCEPT !.describes = "none"]
           u1 == [head EXCEPT !.status = 404]
           u2 == [u1 EXCEPT !.cache = "no-store"]
<1>1. ErrorHead(head) = h3 /\ UnmatchedHead(head) = u2
  BY DEF ErrorHead, UnmatchedHead
<1>2. h1 \in Heads /\ h1.status = 500 /\ u1 \in Heads /\ u1.status = 404 /\ u1.describes = head.describes
  BY DEF Heads
<1> HIDE DEF h1, u1
<1>3. /\ h2 \in Heads /\ h2.status = 500 /\ h2.cache = "no-store"
      /\ u2 \in Heads /\ u2.status = 404 /\ u2.cache = "no-store" /\ u2.describes = head.describes
  BY <1>2 DEF Heads
<1> HIDE DEF h2, u2
<1>4. h3 \in Heads /\ h3.status = 500 /\ h3.cache = "no-store" /\ h3.describes = "none"
  BY <1>3 DEF Heads
<1> HIDE DEF h3
<1>5. QED
  BY <1>1, <1>3, <1>4

LEMMA DescribedIs ==
    ASSUME IInv, NEW r \in Requests
    PROVE  LET h == Described(r)
           IN  /\ h \in Heads /\ h.status = req[r].head.status /\ h.describes = req[r].file
               /\ req[r].head.cache # "none" => h.cache = req[r].head.cache
<1> DEFINE head  == req[r].head
           cache == IF head.cache = "none" THEN "public" ELSE head.cache
           h1    == [head EXCEPT !.describes = req[r].file]
           h2    == [h1 EXCEPT !.cache = cache]
<1>1. head \in Heads /\ req[r].file \in Files \cup {"none"}
  BY OfRequest DEF Request
<1>2. h1 \in Heads /\ h1.status = head.status /\ h1.cache = head.cache /\ h1.describes = req[r].file
  BY <1>1 DEF Heads
<1>3. Described(r) = [h1 EXCEPT !.cache = IF @ = "none" THEN "public" ELSE @]
  BY DEF Described
<1> HIDE DEF head, h1
<1>4. Described(r) = h2
  BY <1>2, <1>3
<1>5. cache \in {"none", "public", "no-store"} /\ (head.cache # "none" => cache = head.cache)
  BY <1>1 DEF Heads
<1> HIDE DEF cache
<1>6. h2 \in Heads /\ h2.status = h1.status /\ h2.cache = cache /\ h2.describes = h1.describes
  BY <1>2, <1>5 DEF Heads
<1> HIDE DEF h2
<1>7. QED
  BY <1>2, <1>4, <1>5, <1>6 DEF head

LEMMA FallbackKeeps ==
    ASSUME IInv, NEW r \in Requests, req[r].phase \notin {"idle", "done"},
           Fallback(r), UNCHANGED <<process, loader>>,
           broken' = broken \/ (broken < MaxBroken /\ broken' = broken + 1)
    PROVE  IInv'
<1> DEFINE head == ErrorHead(req[r].head)
<1>1. head \in Heads /\ head.status = 500 /\ head.cache = "no-store" /\ head.describes = "none"
  BY OfRequest, HeadsAre
<1>2. Finish(r, head, "none")
  BY DEF Fallback, ErrorHead
<1> HIDE DEF head
<1>3. QED
  BY <1>1, <1>2, FinishKeeps

LEMMA LoadedKeeps ==
    ASSUME IInv, NEW r \in Requests, Loaded(r)
    PROVE  IInv'
<1>1. req[r] \in Request /\ Sound(r, req[r]) /\ Counted(req[r])
  BY OfRequest
<1>2. req[r].phase = "load" /\ UNCHANGED <<process, loader>> /\ broken' = broken
  BY DEF Loaded, In
<1>3. CASE \E phase \in {"render", "error"} : Enter(r, phase)
  <2>1. PICK phase \in {"render", "error"} : Enter(r, phase)
    BY <1>3
  <2>2. phase \in {"render", "error", "finish"} /\ req[r].phase \notin {"idle", "done", "route"}
    BY <1>2
  <2>3. QED
    BY <1>2, <2>1, <2>2, EnterKeeps
<1>5. CASE Fallback(r)
  BY <1>2, <1>5, FallbackKeeps
<1>6. CASE Set(r, [req[r] EXCEPT !.phase = "render", !.head = Described(r)])
  <2> DEFINE head == Described(r)
             new  == [req[r] EXCEPT !.phase = "render", !.head = head]
  <2>1. /\ head \in Heads /\ head.status = req[r].head.status /\ head.describes = req[r].file
        /\ req[r].head.cache # "none" => head.cache = req[r].head.cache
    BY DescribedIs
  <2>2. Set(r, new)
    BY <1>6
  <2> HIDE DEF head
  <2>3. /\ new \in Request /\ new.phase = "render" /\ new.seen = req[r].seen /\ new.head = head
        /\ new.target = req[r].target /\ new.out = req[r].out /\ new.wire = req[r].wire
        /\ new.work = req[r].work /\ new.accepted = req[r].accepted /\ new.file = req[r].file
    BY <1>1, <2>1 DEF Request, Phases
  <2> HIDE DEF new
  <2>4. Sound(r, new)
    BY <1>1, <2>1, <2>3 DEF Sound
  <2>5. Counted(new)
    BY <1>1, <2>3 DEF Counted
  <2>6. Moves(r, new)
    BY <1>2, <2>2, <2>3, <2>4, <2>5 DEF Moves, In, loader
  <2>7. QED
    BY <2>6, MoveKeeps
<1>7. QED
  BY <1>3, <1>5, <1>6 DEF Loaded

\* All who wait for a load that failed are told so, and it is counted.
LEMMA LoadEndsKeeps ==
    ASSUME IInv, NEW f \in Files, NEW outcome \in {"loaded", "failed"}, LoadEnds(f, outcome)
    PROVE  IInv'
<1> USE DEF process
<1>1. /\ req \in [Requests -> Request] /\ modules \in [Files -> {"absent", "loading", "loaded", "failed"}]
      /\ broken \in Nat /\ fails \in [Files -> 0 .. MaxBroken] /\ MaxBroken \in Nat
      /\ \A p \in Requests : req[p] \in Request /\ Sound(p, req[p]) /\ Counted(req[p])
      /\ \A g \in Files : modules[g] # "failed" /\ fails[g] <= broken
  BY Parts, RuntimeAssumption DEF ByRequest
<1>2. /\ outcome = "failed" => broken < MaxBroken /\ broken' = broken + 1
      /\ outcome = "loaded" => broken' = broken
      /\ fails' = [fails EXCEPT ![f] = IF outcome = "failed" THEN @ + 1 ELSE @]
      /\ UNCHANGED process
  BY DEF LoadEnds, Breaks
<1>3. modules' = [modules EXCEPT ![f] = IF outcome = "failed" THEN "absent" ELSE outcome]
  BY DEF LoadEnds, AfterFailure
<1>4. /\ modules' \in [Files -> {"absent", "loading", "loaded", "failed"}]
      /\ \A g \in Files : modules'[g] # "failed"
  BY <1>1, <1>3
<1>5. /\ broken' \in 0 .. MaxBroken /\ fails' \in [Files -> 0 .. MaxBroken]
      /\ \A g \in Files : fails[g] <= fails'[g] /\ fails'[g] <= broken'
      /\ outcome = "failed" => fails'[f] = fails[f] + 1
  BY <1>1, <1>2, Parts DEF ByRequest
<1>6. ASSUME NEW p \in Requests
      PROVE  /\ req'[p] \in Request /\ Sound(p, req'[p])
             /\ req'[p].phase = req[p].phase /\ req'[p].target = req[p].target
             /\ req'[p].work = req[p].work /\ req'[p].accepted = req[p].accepted
             /\ req'[p].seen = req[p].seen /\ req'[p].file = req[p].file
             /\ \/ req'[p].told = req[p].told
                \/ req[p].file = f /\ req'[p].told = outcome
  <2> DEFINE new == [req[p] EXCEPT !.told = outcome]
  <2>1. /\ new \in Request /\ new.phase = req[p].phase /\ new.seen = req[p].seen
        /\ new.head = req[p].head /\ new.told = outcome
        /\ new.target = req[p].target /\ new.out = req[p].out /\ new.wire = req[p].wire
        /\ new.work = req[p].work /\ new.accepted = req[p].accepted /\ new.file = req[p].file
    <3>1. outcome \in {"none", "waiting", "loaded", "failed"} /\ req[p] \in Request
      BY <1>1
    <3>2. QED
      BY <3>1 DEF Request
  <2>2. req'[p] = req[p] \/ (req[p].file = f /\ req'[p] = new)
    BY DEF LoadEnds
  <2> HIDE DEF new
  <2>3. Sound(p, new)
    BY <1>1, <2>1 DEF Sound
  <2>4. QED
    BY <1>1, <2>1, <2>2, <2>3
<1>7. req' \in [Requests -> Request]
  BY <1>6 DEF LoadEnds
<1>8. ASSUME NEW p \in Requests PROVE Sound(p, req[p])' /\ Counted(req[p])'
  <2>1. Sound(p, req[p])'
    BY <1>6 DEF Sound
  <2>2. \A g \in Files : fails'[g] \in Nat /\ fails[g] \in Nat /\ req[p].seen[g] \in Nat
    BY <1>1, <1>5 DEF Request
  <2>3. req[p].phase = "load" /\ req[p].told = "failed" => req[p].file \in Files
    BY <1>1 DEF Sound
  <2>4. QED
    BY <1>1, <1>5, <1>6, <2>1, <2>2, <2>3 DEF Counted
<1>9. AcceptedIsCommitted' /\ StopsClean' /\ ShutdownKnows'
  <2>1. AcceptedIsCommitted /\ StopsClean /\ ShutdownKnows /\ awaited \subseteq Outer
    BY Parts DEF ByRequest
  <2>2. \A p \in Requests : req[p].accepted \subseteq Requests
    BY <1>1 DEF Request, Requests
  <2>3. InFlight' = InFlight
    BY <1>6 DEF InFlight, In, Requests
  <2>4. AcceptedIsCommitted'
    BY <1>6, <2>1, <2>2 DEF AcceptedIsCommitted, In, Pending
  <2>5. QED
    BY <1>2, <1>6, <2>1, <2>3, <2>4 DEF StopsClean, ShutdownKnows, In, Requests
<1>10. QED
  <2>1. ByRequest'
    BY <1>2, <1>4, <1>5, <1>7, <1>8, <1>9, Parts DEF ByRequest
  <2>2. QED
    BY <2>1, Parts, PTL
\* What a request is while it is being routed.
LEMMA RoutedIs ==
    ASSUME IInv, NEW r \in Requests, req[r].phase = "route"
    PROVE  /\ req[r].head \in Heads /\ req[r].head.status = 200 /\ req[r].head.describes = "none"
           /\ req[r].target = "none" /\ req[r].file = "none" /\ req[r].wire = NoHead
BY OfRequest DEF Sound

\* An answer to what nothing serves, in this group or in any.
LEMMA UnmatchedKeeps ==
    ASSUME IInv, NEW r \in Requests, NEW head \in Heads, NEW target \in {"unmatched", "foreign"},
           req[r].phase = "route", head.describes = "none",
           SendUnmatched(r, head, target), UNCHANGED <<process, fails>>, broken' = broken
    PROVE  IInv'
<1> DEFINE head2 == UnmatchedHead(head)
<1>1. /\ req[r] \in Request /\ req[r].target = "none" /\ req[r].file = "none"
  BY OfRequest, RoutedIs
<1>2. /\ head2 \in Heads /\ head2.status = 404 /\ head2.cache = "no-store"
      /\ head2.describes = "none" /\ "none" \in Files \cup {"none"}
  BY HeadsAre
<1>3. target \in Targets \cup {"none"}
  BY DEF Targets
<1>4. \/ /\ Set(r, [Ended(req[r], head2, "none") EXCEPT !.phase = "finish", !.target = target,
                                                        !.head = head2])
         /\ UNCHANGED modules
      \/ Load(r, "notFound", [req[r] EXCEPT !.target = target, !.head = head2])
  BY DEF SendUnmatched
<1> HIDE DEF head2
<1>5. CASE Load(r, "notFound", [req[r] EXCEPT !.target = target, !.head = head2])
  <2> DEFINE q == [req[r] EXCEPT !.target = target, !.head = head2]
  <2>1. /\ q \in Request /\ q.head = head2 /\ q.target = target /\ q.out = req[r].out
        /\ q.wire = req[r].wire /\ q.work = req[r].work /\ q.seen = req[r].seen
        /\ q.accepted = req[r].accepted
    BY <1>1, <1>2, <1>3 DEF Request
  <2>2. Load(r, "notFound", q) /\ "notFound" \in Files
    BY <1>5 DEF Files
  <2> HIDE DEF q
  <2>3. QED
    BY <1>2, <2>1, <2>2, LoadKeeps
<1>6. CASE /\ Set(r, [Ended(req[r], head2, "none") EXCEPT !.phase = "finish", !.target = target,
                                                          !.head = head2])
           /\ UNCHANGED modules
  <2> DEFINE e == Ended(req[r], head2, "none")
             new == [e EXCEPT !.phase = "finish", !.target = target, !.head = head2]
  <2>1. /\ e \in Request /\ e.file = req[r].file /\ e.work = req[r].work
        /\ e.seen = req[r].seen /\ e.accepted = req[r].accepted
    BY ONLY <1>1, <1>2, EndedIs
  <2>2. Set(r, new) /\ UNCHANGED modules
    BY <1>6
  <2> HIDE DEF e
  <2>3. /\ new \in Request /\ new.target = target /\ new.file = e.file /\ new.work = e.work
        /\ new.seen = e.seen /\ new.accepted = e.accepted /\ new.out = e.out /\ new.wire = e.wire
        /\ new.phase = "finish" /\ new.head = head2
    BY <1>2, <1>3, <2>1 DEF Request, Phases
  <2> HIDE DEF new
  <2>4. Sound(r, new) /\ Counted(new)
    BY <1>1, <1>2, <2>1, <2>3, AnsweredIsSound DEF e
  <2>5. Moves(r, new)
    BY <2>1, <2>2, <2>3, <2>4 DEF Moves, In
  <2>6. QED
    BY <2>5, MoveKeeps
<1>7. QED
  BY <1>4, <1>5, <1>6

LEMMA RoutingKeeps ==
    ASSUME IInv, NEW r \in Requests,
           \/ AnswerAtOnce(r) \/ Unmatched(r) \/ Match(r) \/ MatchForeign(r) \/ MatchStream(r)
    PROVE  IInv'
<1>1. /\ req[r] \in Request /\ Sound(r, req[r]) /\ Counted(req[r]) /\ req[r].phase = "route"
      /\ req[r].head \in Heads /\ req[r].head.status = 200 /\ req[r].head.describes = "none"
      /\ req[r].target = "none" /\ req[r].file = "none" /\ req[r].wire = NoHead
  <2>1. req[r].phase = "route"
    BY DEF AnswerAtOnce, Unmatched, Match, MatchForeign, MatchStream, For, In
  <2>2. QED
    BY <2>1, OfRequest, RoutedIs
<1>2. ASSUME NEW status \in {200, 308}, UNCHANGED <<process, loader>>, broken' = broken,
             Finish(r, [req[r].head EXCEPT !.status = status], "none")
      PROVE  IInv'
  <2> DEFINE head == [req[r].head EXCEPT !.status = status]
  <2>1. head \in Heads /\ head.status = status /\ head.describes = "none"
    BY <1>1 DEF Heads
  <2>2. Finish(r, head, "none")
    BY <1>2
  <2> HIDE DEF head
  <2>3. QED
    BY <1>1, <1>2, <2>1, <2>2, FinishKeeps
<1>3. CASE AnswerAtOnce(r)
  BY <1>2, <1>3 DEF AnswerAtOnce
<1>4. CASE Unmatched(r)
  <2>1. PICK cache \in {"none", "public"} :
           SendUnmatched(r, [req[r].head EXCEPT !.cache = cache], "unmatched")
    BY <1>4 DEF Unmatched
  <2> DEFINE head == [req[r].head EXCEPT !.cache = cache]
  <2>2. head \in Heads /\ head.describes = "none"
    BY <1>1 DEF Heads
  <2>3. SendUnmatched(r, head, "unmatched")
    BY <2>1
  <2>4. UNCHANGED <<process, fails>> /\ broken' = broken
    BY <1>4 DEF Unmatched
  <2> HIDE DEF head
  <2>5. QED
    BY <1>1, <2>2, <2>3, <2>4, UnmatchedKeeps
<1>5. CASE Match(r)
  <2>1. PICK f \in {"page", "api"} : Load(r, f, [req[r] EXCEPT !.target = f])
    BY <1>5 DEF Match
  <2> DEFINE q == [req[r] EXCEPT !.target = f]
  <2>2. /\ q \in Request /\ q.head = req[r].head /\ q.target = f /\ q.out = req[r].out
        /\ q.wire = req[r].wire /\ q.work = req[r].work /\ q.seen = req[r].seen
        /\ q.accepted = req[r].accepted
    BY <1>1 DEF Request, Targets
  <2>3. Load(r, f, q) /\ f \in Files
    BY <2>1 DEF Files
  <2>4. UNCHANGED <<process, fails, broken>>
    BY <1>5 DEF Match
  <2> HIDE DEF q
  <2>5. QED
    BY <1>1, <2>2, <2>3, <2>4, LoadKeeps
<1>6. CASE MatchForeign(r)
  <2>1. UNCHANGED <<process, fails>> /\ broken' = broken
    BY <1>6 DEF MatchForeign
  <2>2. CASE SendUnmatched(r, req[r].head, "foreign")
    BY <1>1, <2>1, <2>2, UnmatchedKeeps
  <2>3. CASE Finish(r, [req[r].head EXCEPT !.status = 308], "none") /\ UNCHANGED modules
    BY <1>2, <2>1, <2>3 DEF loader
  <2>4. QED
    BY <1>6, <2>2, <2>3 DEF MatchForeign
<1>7. CASE MatchStream(r)
  <2> DEFINE new == [req[r] EXCEPT !.phase = "stream", !.target = "stream"]
  <2>1. /\ new \in Request /\ new.phase = "stream" /\ new.seen = req[r].seen
        /\ new.head = req[r].head /\ new.target = "stream" /\ new.out = req[r].out
        /\ new.wire = req[r].wire /\ new.work = req[r].work /\ new.accepted = req[r].accepted
        /\ new.file = req[r].file
    BY <1>1 DEF Request, Phases, Targets
  <2>2. Set(r, new) /\ UNCHANGED <<process, loader>> /\ broken' = broken
    BY <1>7 DEF MatchStream
  <2> HIDE DEF new
  <2>3. Sound(r, new) /\ Counted(new)
    BY <1>1, <2>1 DEF Sound, Counted
  <2>4. Moves(r, new)
    BY <1>1, <2>1, <2>2, <2>3 DEF Moves, In, loader
  <2>5. QED
    BY <2>4, MoveKeeps
<1>8. QED
  BY <1>3, <1>4, <1>5, <1>6, <1>7

LEMMA StreamEndsKeeps ==
    ASSUME IInv, NEW r \in Requests, StreamEnds(r)
    PROVE  IInv'
<1> DEFINE head == [req[r].head EXCEPT !.cache = "public"]
<1>1. /\ req[r].phase = "stream" /\ req[r].head \in Heads /\ req[r].head.status = 200
      /\ req[r].head.describes = "none" /\ req[r].target = "stream" /\ req[r].file = "none"
  BY OfRequest DEF StreamEnds, In, Sound
<1>2. head \in Heads /\ head.status = 200 /\ head.describes = "none"
  BY <1>1 DEF Heads
<1>3. Finish(r, head, "none") /\ UNCHANGED <<process, loader>> /\ broken' = broken
  BY DEF StreamEnds
<1> HIDE DEF head
<1>4. QED
  BY <1>1, <1>2, <1>3, FinishKeeps

\* Work is registered by a request that is not done, and settles before it is.
LEMMA WorkKeeps ==
    ASSUME IInv, NEW r \in Requests, NEW work \in Seq({"pending", "settled"}),
           Len(work) <= MaxWork[r], req[r].phase # "done",
           Set(r, [req[r] EXCEPT !.work = work]), UNCHANGED <<process, loader>>, broken' = broken
    PROVE  IInv'
<1> DEFINE new == [req[r] EXCEPT !.work = work]
<1>1. req[r] \in Request /\ Sound(r, req[r]) /\ Counted(req[r])
  BY OfRequest
<1>2. /\ new \in Request /\ new.phase = req[r].phase /\ new.seen = req[r].seen
      /\ new.head = req[r].head /\ new.told = req[r].told
      /\ new.target = req[r].target /\ new.out = req[r].out /\ new.wire = req[r].wire
      /\ new.work = work /\ new.accepted = req[r].accepted /\ new.file = req[r].file
  BY <1>1 DEF Request
<1>3. Set(r, new)
  OBVIOUS
<1> HIDE DEF new
<1>4. Sound(r, new) /\ Counted(new)
  BY <1>1, <1>2 DEF Sound, Counted
<1>5. Moves(r, new)
  BY <1>2, <1>3, <1>4 DEF Moves, In, loader
<1>6. QED
  BY <1>5, MoveKeeps

LEMMA WorkStepsKeep ==
    ASSUME IInv, NEW r \in Requests, Register(r) \/ WorkEnds(r)
    PROVE  IInv'
<1> DEFINE Q == {"pending", "settled"}
<1>1. /\ req[r].work \in Seq(Q) /\ Len(req[r].work) <= MaxWork[r] /\ MaxWork[r] \in Nat
      /\ req[r].phase = "done" => ~Pending(r)
  BY OfRequest, RuntimeAssumption DEF Request, Sound, Pending
<1>2. CASE Register(r)
  <2>1. /\ Append(req[r].work, "pending") \in Seq(Q)
        /\ Len(Append(req[r].work, "pending")) = Len(req[r].work) + 1
    BY <1>1
  <2>2. Len(req[r].work) < MaxWork[r] /\ req[r].phase # "done"
    BY <1>1, <1>2 DEF Register, Rendering, In
  <2>3. Len(Append(req[r].work, "pending")) <= MaxWork[r]
    BY <1>1, <2>1, <2>2
  <2>4. Set(r, [req[r] EXCEPT !.work = Append(req[r].work, "pending")])
    BY <1>2 DEF Register
  <2>5. UNCHANGED <<process, loader>> /\ broken' = broken
    BY <1>2 DEF Register
  <2>6. QED
    BY <2>1, <2>2, <2>3, <2>4, <2>5, WorkKeeps
<1>3. CASE WorkEnds(r)
  <2>1. PICK i \in DOMAIN req[r].work :
           /\ req[r].work[i] = "pending"
           /\ Set(r, [req[r] EXCEPT !.work = [@ EXCEPT ![i] = "settled"]])
    BY <1>3 DEF WorkEnds
  <2> DEFINE work == [req[r].work EXCEPT ![i] = "settled"]
  <2>2. work \in Seq(Q) /\ Len(work) = Len(req[r].work)
    BY <1>1
  <2>3. req[r].phase # "done"
    BY <1>1, <2>1 DEF Pending
  <2>4. Set(r, [req[r] EXCEPT !.work = work])
    BY <2>1
  <2>5. UNCHANGED <<process, loader>> /\ broken' = broken
    BY <1>3 DEF WorkEnds
  <2> HIDE DEF work
  <2>6. QED
    BY <1>1, <2>2, <2>3, <2>4, <2>5, WorkKeeps
<1>4. QED
  BY <1>2, <1>3
\* The head and the end of what a handler sends.
LEMMA SendingKeeps ==
    ASSUME IInv, NEW r \in Requests,
           req[r].phase \in {"render", "stream", "finish"},
           \/ req[r].phase # "finish" /\ Set(r, Begun(req[r], req[r].head, req[r].file))
           \/ Set(r, Ended(req[r], req[r].head, req[r].file)),
           UNCHANGED <<process, loader>>, broken' = broken
    PROVE  IInv'
<1>1. /\ req[r] \in Request /\ Sound(r, req[r]) /\ req[r].head \in Heads
      /\ req[r].file \in Files \cup {"none"}
  BY OfRequest DEF Request
<1>2. ASSUME NEW e \in {Begun(req[r], req[r].head, req[r].file),
                        Ended(req[r], req[r].head, req[r].file)},
             Set(r, e)
      PROVE  IInv'
  <2>1. /\ e \in Request /\ e.phase = req[r].phase /\ e.target = req[r].target
        /\ e.file = req[r].file /\ e.head = req[r].head /\ e.work = req[r].work
        /\ e.seen = req[r].seen /\ e.accepted = req[r].accepted
    BY <1>1, SentIs
  <2>2. /\ req[r].head.status # 0 /\ req[r].head.describes \in {"none", req[r].file}
        /\ req[r].head.status = 500 => req[r].head.cache = "no-store"
        /\ req[r].target \in {"unmatched", "foreign"} => req[r].head.cache = "no-store"
    BY <1>1 DEF Sound
  <2>3. Sound(r, e) /\ Counted(e)
    BY <1>1, <1>2, <2>1, <2>2, AnsweredIsSound
  <2>4. Moves(r, e)
    BY <1>2, <2>1, <2>3 DEF Moves, In, loader
  <2>5. QED
    BY <2>4, MoveKeeps
<1>3. QED
  BY <1>2

LEMMA HandlerKeeps ==
    ASSUME IInv, NEW r \in Requests, Flush(r) \/ Returns(r) \/ ApiEnds(r) \/ Render404(r)
    PROVE  IInv'
<1>1. /\ req[r] \in Request /\ Sound(r, req[r]) /\ req[r].head \in Heads
      /\ req[r].file \in Files \cup {"none"}
  BY OfRequest DEF Request
<1>2. CASE Flush(r)
  <2>1. /\ req[r].phase \in {"render", "stream"}
        /\ Set(r, Begun(req[r], req[r].head, req[r].file))
        /\ UNCHANGED <<process, loader>> /\ broken' = broken
    BY <1>2 DEF Flush, Rendering, In
  <2>2. QED
    BY <2>1, SendingKeeps
<1>3. CASE Returns(r)
  <2>1. req[r].phase = "render" /\ UNCHANGED <<process, loader>> /\ broken' = broken
    BY <1>3 DEF Returns, Rendering, In
  <2>2. CASE Enter(r, "finish")
    BY <2>1, <2>2, EnterKeeps
  <2>3. CASE Finish(r, req[r].head, req[r].file)
    BY <1>1, <2>1, <2>3, FinishKeeps DEF Sound
  <2>4. QED
    BY <1>3, <2>2, <2>3 DEF Returns
<1>4. CASE ApiEnds(r)
  <2>1. /\ req[r].phase \in {"render", "finish"}
        /\ Set(r, Ended(req[r], req[r].head, req[r].file))
        /\ UNCHANGED <<process, loader>> /\ broken' = broken
    BY <1>4 DEF ApiEnds
  <2>2. QED
    BY <2>1, SendingKeeps
<1>5. CASE Render404(r)
  <2> DEFINE head == [req[r].head EXCEPT !.status = 404]
             q    == [req[r] EXCEPT !.head = head]
  <2>1. /\ req[r].phase = "render" /\ req[r].head.describes = "none"
        /\ Load(r, "notFound", q) /\ UNCHANGED <<process, fails, broken>>
    BY <1>5 DEF Render404, Rendering, In
  <2>2. /\ head \in Heads /\ head.status = 404 /\ head.describes = "none"
        /\ head.cache = req[r].head.cache
    BY <1>1, <2>1 DEF Heads
  <2> HIDE DEF head
  <2>3. /\ q \in Request /\ q.head = head /\ q.target = req[r].target /\ q.out = req[r].out
        /\ q.wire = req[r].wire /\ q.work = req[r].work /\ q.seen = req[r].seen
        /\ q.accepted = req[r].accepted
    BY <1>1, <2>2 DEF Request
  <2> HIDE DEF q
  <2>4. "notFound" \in Files /\ (q.target \in {"unmatched", "foreign"} => head.cache = "no-store")
    BY <1>1, <2>2, <2>3 DEF Files, Sound
  <2>5. QED
    BY <2>1, <2>2, <2>3, <2>4, LoadKeeps
<1>6. QED
  BY <1>2, <1>3, <1>4, <1>5

LEMMA ErrorsKeep ==
    ASSUME IInv, NEW r \in Requests, Throws(r) \/ SendError(r)
    PROVE  IInv'
<1>1. /\ req[r] \in Request /\ Sound(r, req[r]) /\ req[r].head \in Heads
      /\ req[r].file \in Files \cup {"none"}
  BY OfRequest DEF Request
<1>2. CASE Throws(r)
  <2>1. /\ req[r].phase \in {"route", "stream", "render"} /\ UNCHANGED <<process, loader>>
        /\ broken < MaxBroken /\ broken' = broken + 1
    BY <1>2 DEF Throws, Breaks
  <2>2. \/ Enter(r, "error") \/ Set(r, [Destroyed(req[r]) EXCEPT !.phase = "finish"]) \/ Fallback(r)
    BY <1>2 DEF Throws
  <2>3. QED
    BY <2>1, <2>2, EnterKeeps, DestroyedKeeps, FallbackKeeps
<1>3. CASE SendError(r)
  <2> DEFINE head == ErrorHead(req[r].head)
             q    == [req[r] EXCEPT !.head = head]
  <2>1. /\ req[r].phase = "error" /\ UNCHANGED <<process, fails>> /\ broken' = broken
        /\ \/ Set(r, [Destroyed(req[r]) EXCEPT !.phase = "finish"]) /\ UNCHANGED modules
           \/ Load(r, "errorPage", q)
           \/ Finish(r, head, "none") /\ UNCHANGED modules
    BY <1>3 DEF SendError, In
  <2>2. head \in Heads /\ head.status = 500 /\ head.cache = "no-store" /\ head.describes = "none"
    BY <1>1, HeadsAre
  <2> HIDE DEF head
  <2>3. /\ q \in Request /\ q.head = head /\ q.target = req[r].target /\ q.out = req[r].out
        /\ q.wire = req[r].wire /\ q.work = req[r].work /\ q.seen = req[r].seen
        /\ q.accepted = req[r].accepted
    BY <1>1, <2>2 DEF Request
  <2> HIDE DEF q
  <2>4. CASE Set(r, [Destroyed(req[r]) EXCEPT !.phase = "finish"]) /\ UNCHANGED modules
    BY <2>1, <2>4, DestroyedKeeps DEF loader
  <2>5. CASE Load(r, "errorPage", q)
    <3>1. "errorPage" \in Files
      BY DEF Files
    <3>2. QED
      BY <2>1, <2>2, <2>3, <2>5, <3>1, LoadKeeps
  <2>6. CASE Finish(r, head, "none") /\ UNCHANGED modules
    BY <2>1, <2>2, <2>6, FinishKeeps DEF loader
  <2>7. QED
    BY <2>1, <2>4, <2>5, <2>6
<1>4. QED
  BY <1>2, <1>3
\* A handler's own request is under way from its first step, and is not the handler's.
LEMMA RevalidateKeeps ==
    ASSUME IInv, NEW r \in Requests, NEW i \in Inner, Revalidate(r, i)
    PROVE  IInv'
<1>1. PICK only \in BOOLEAN :
         req' = [req EXCEPT ![r].phase = "revalidate",
                            ![i] = [@ EXCEPT !.phase = "route", !.caller = r, !.only = only,
                                             !.seen = fails]]
  BY DEF Revalidate
<1>2. /\ req \in [Requests -> Request] /\ i \in Requests /\ fails \in [Files -> 0 .. MaxBroken]
      /\ \A p \in Requests : req[p] \in Request /\ Sound(p, req[p]) /\ Counted(req[p])
  BY Parts DEF ByRequest, Requests
<1>3. /\ req[r].phase = "render" /\ req[i].phase = "idle" /\ r # i
      /\ UNCHANGED <<server, awaited, modules, fails, broken>>
  BY DEF Revalidate, Rendering, In, process, loader
<1> DEFINE outer == [req[r] EXCEPT !.phase = "revalidate"]
           inner == [req[i] EXCEPT !.phase = "route", !.caller = r, !.only = only, !.seen = fails]
<1>4. /\ req'[r] = outer /\ req'[i] = inner
      /\ \A p \in Requests \ {r, i} : req'[p] = req[p]
      /\ req' = [p \in Requests |-> req'[p]]
  BY <1>1, <1>2, <1>3
<1>5. /\ outer \in Request /\ outer.phase = "revalidate" /\ outer.seen = req[r].seen
      /\ outer.head = req[r].head /\ outer.target = req[r].target /\ outer.out = req[r].out
      /\ outer.wire = req[r].wire /\ outer.work = req[r].work /\ outer.file = req[r].file
      /\ outer.accepted = req[r].accepted
  <2>1. req[r] \in Request /\ "revalidate" \in Phases
    BY <1>2 DEF Phases
  <2>2. QED
    BY <2>1 DEF Request
<1>6. /\ inner \in Request /\ inner.phase = "route" /\ inner.seen = fails
      /\ inner.head = req[i].head /\ inner.target = req[i].target /\ inner.out = req[i].out
      /\ inner.wire = req[i].wire /\ inner.work = req[i].work /\ inner.file = req[i].file
      /\ inner.accepted = req[i].accepted
  <2>1. r \in Requests \cup {NoOne} /\ req[i] \in Request /\ "route" \in Phases
    BY <1>2 DEF Phases
  <2>2. QED
    BY <1>2, <2>1 DEF Request
<1> HIDE DEF outer, inner
<1>7. Sound(r, outer) /\ Counted(outer) /\ Sound(i, inner) /\ Counted(inner)
  <2>1. Sound(r, req[r]) /\ Counted(req[r]) /\ Sound(i, req[i])
    BY <1>2
  <2>2. Sound(r, outer) /\ Counted(outer)
    BY <1>3, <1>5, <2>1 DEF Sound, Counted
  <2>3. Sound(i, inner)
    BY <1>3, <1>6, <2>1 DEF Sound
  <2>4. Counted(inner)
    BY <1>2, <1>6 DEF Counted
  <2>5. QED
    BY <2>2, <2>3, <2>4
<1>8. req' \in [Requests -> Request]
  BY <1>2, <1>4, <1>5, <1>6
<1>9. \A p \in Requests : Sound(p, req[p])' /\ Counted(req[p])'
  <2>1. \A p \in Requests : Sound(p, req'[p]) /\ Counted(req'[p])
    BY <1>2, <1>4, <1>7
  <2>2. QED
    BY <1>3, <2>1 DEF Sound, Counted
<1>10. \A p \in Requests :
          /\ req'[p].accepted = req[p].accepted
          /\ req[p].phase = "done" => req'[p] = req[p]
          /\ req'[p].phase = "done" => req[p].phase = "done"
          /\ p \in Outer => (req'[p].phase = "idle" <=> req[p].phase = "idle")
  BY <1>3, <1>4, <1>5, <1>6, RuntimeAssumption
<1>11. AcceptedIsCommitted' /\ StopsClean' /\ ShutdownKnows'
  <2>1. AcceptedIsCommitted /\ StopsClean /\ ShutdownKnows /\ awaited \subseteq Outer
    BY Parts DEF ByRequest
  <2>2. \A p \in Requests : req[p].accepted \subseteq Requests
    BY <1>2 DEF Request, Requests
  <2>3. InFlight' = InFlight
    BY <1>10 DEF InFlight, In, Requests
  <2>4. AcceptedIsCommitted'
    BY <1>10, <2>1, <2>2 DEF AcceptedIsCommitted, In, Pending
  <2>5. QED
    BY <1>3, <1>10, <2>1, <2>3, <2>4 DEF StopsClean, ShutdownKnows, In, Requests
<1>12. QED
  <2>1. ByRequest'
    BY <1>3, <1>8, <1>9, <1>11, Parts DEF ByRequest
  <2>2. QED
    BY <2>1, Parts, PTL

LEMMA RevalidatedKeeps ==
    ASSUME IInv, NEW r \in Requests, NEW i \in Inner, Revalidated(r, i)
    PROVE  IInv'
<1> DEFINE new == [req[r] EXCEPT !.phase = "render", !.accepted = @ \cup {i}]
<1>1. req[r] \in Request /\ Sound(r, req[r]) /\ Counted(req[r])
  BY OfRequest
<1>2. /\ req[r].phase = "revalidate" /\ In(i, "done") /\ UNCHANGED <<process, loader>>
      /\ broken' = broken
  BY DEF Revalidated, In
<1>3. CASE Enter(r, "error")
  BY <1>2, <1>3, EnterKeeps
<1>4. CASE Set(r, new) /\ \E said \in BOOLEAN : Accepts(i, said)
  <2>1. /\ new \in Request /\ new.phase = "render" /\ new.seen = req[r].seen
        /\ new.head = req[r].head /\ new.told = req[r].told
        /\ new.target = req[r].target /\ new.out = req[r].out /\ new.wire = req[r].wire
        /\ new.work = req[r].work /\ new.accepted = req[r].accepted \cup {i}
        /\ new.file = req[r].file
    BY <1>1 DEF Request, Phases
  <2>2. i # r /\ req[i].target # "foreign"
    BY <1>2, <1>4 DEF Accepts, In
  <2> HIDE DEF new
  <2>3. Sound(r, new) /\ Counted(new)
    BY <1>1, <1>2, <2>1 DEF Sound, Counted
  <2>4. Moves(r, new)
    BY <1>2, <1>4, <2>1, <2>2, <2>3 DEF Moves, In, loader
  <2>5. QED
    BY <2>4, MoveKeeps
<1>5. QED
  BY <1>3, <1>4 DEF Revalidated

\* handle is over when all that was registered so far has settled, and there was no more.
LEMMA DrainKeeps ==
    ASSUME IInv, NEW r \in Requests, Drain(r)
    PROVE  IInv'
<1> DEFINE len == Len(req[r].work)
           phase == NextPhase(r, len)
           new == [req[r] EXCEPT !.phase = phase, !.drained = len]
<1>1. /\ req[r] \in Request /\ Sound(r, req[r]) /\ Counted(req[r])
      /\ req[r].work \in Seq({"pending", "settled"}) /\ req[r].drained \in Nat
  BY OfRequest DEF Request
<1>2. /\ req[r].phase \in {"finish", "drain"} /\ UNCHANGED <<process, loader>> /\ broken' = broken
      /\ Set(r, new) /\ \A i \in 1 .. req[r].drained : req[r].work[i] = "settled"
  BY DEF Drain, In
<1>3. len \in Nat /\ phase \in {"drain", "done"}
  BY <1>1 DEF NextPhase
<1>4. phase = "done" => \A i \in DOMAIN req[r].work : req[r].work[i] # "pending"
  <2>1. DOMAIN req[r].work = 1 .. len
    BY <1>1
  <2>2. phase = "done" => len <= req[r].drained
    BY <1>1, <1>3 DEF NextPhase
  <2>3. QED
    BY <1>1, <1>2, <1>3, <2>1, <2>2
<1> HIDE DEF len, phase
<1>5. /\ new \in Request /\ new.phase = phase /\ new.seen = req[r].seen
      /\ new.head = req[r].head /\ new.told = req[r].told
      /\ new.target = req[r].target /\ new.out = req[r].out /\ new.wire = req[r].wire
      /\ new.work = req[r].work /\ new.accepted = req[r].accepted /\ new.file = req[r].file
  BY <1>1, <1>3 DEF Request, Phases
<1> HIDE DEF new
<1>6. Sound(r, new) /\ Counted(new)
  BY <1>1, <1>2, <1>3, <1>4, <1>5 DEF Sound, Counted
<1>7. Moves(r, new)
  BY <1>2, <1>5, <1>6 DEF Moves, In, loader
<1>8. QED
  BY <1>7, MoveKeeps

LEMMA ShutdownKeeps ==
    ASSUME IInv, Sigterm \/ Closed \/ Exit
    PROVE  IInv'
<1>1. UNCHANGED <<modules, fails, broken, req>>
  BY DEF Sigterm, Closed, Exit, loader
<1>2. AcceptedIsCommitted /\ StopsClean /\ ShutdownKnows /\ awaited \subseteq Outer
  BY Parts DEF ByRequest
<1>3. InFlight' = InFlight /\ InFlight \subseteq Outer
  BY <1>1 DEF InFlight, In
<1>4. \A p \in Outer : In(p, "done")' <=> In(p, "done")
  BY <1>1 DEF In
<1>5. /\ server' \in {"open", "closing", "draining", "stopped"} /\ awaited' \subseteq Outer
      /\ StopsClean' /\ ShutdownKnows'
  <2>1. CASE Sigterm
    BY <1>2, <2>1 DEF Sigterm, StopsClean, ShutdownKnows
  <2>2. CASE Closed
    BY <1>2, <1>3, <2>2 DEF Closed, Awaited, StopsClean, ShutdownKnows
  <2>3. CASE Exit
    <3>1. /\ server = "draining" /\ server' = "stopped" /\ awaited' = awaited
          /\ \A p \in awaited : In(p, "done")
      BY <2>3 DEF Exit
    <3>2. InFlight = {}
      BY <1>2, <3>1 DEF ShutdownKnows, InFlight
    <3>3. QED
      BY <1>2, <1>3, <1>4, <3>1, <3>2 DEF StopsClean, ShutdownKnows
  <2>4. QED
    BY <2>1, <2>2, <2>3
<1>6. AcceptedIsCommitted' /\ \A p \in Requests : Sound(p, req[p])' /\ Counted(req[p])'
  BY <1>1, Parts DEF AcceptedIsCommitted, In, Pending, Sound, Counted, ByRequest
<1>7. QED
  <2>1. ByRequest'
    BY <1>1, <1>5, <1>6, Parts DEF ByRequest
  <2>2. QED
    BY <2>1, Parts, PTL
--------------------------------------------------------------------------------
LEMMA StepKeeps == IInv /\ [Next]_vars => IInv'
<1> SUFFICES ASSUME IInv, [Next]_vars PROVE IInv'
  OBVIOUS
<1>1. ASSUME NEW r \in Requests, Arrive(r) \/ Step(r) \/ ClientLeaves(r)
      PROVE  IInv'
  <2>1. CASE Arrive(r) \/ Delivered(r) \/ ClientLeaves(r)
    BY <2>1, ClientStepsKeep
  <2>2. CASE AnswerAtOnce(r) \/ Unmatched(r) \/ Match(r) \/ MatchForeign(r) \/ MatchStream(r)
    BY <2>2, RoutingKeeps
  <2>3. CASE Loaded(r)
    BY <2>3, LoadedKeeps
  <2>4. CASE Register(r) \/ WorkEnds(r)
    BY <2>4, WorkStepsKeep
  <2>5. CASE Flush(r) \/ Returns(r) \/ ApiEnds(r) \/ Render404(r)
    BY <2>5, HandlerKeeps
  <2>6. CASE StreamEnds(r)
    BY <2>6, StreamEndsKeeps
  <2>7. CASE Throws(r) \/ SendError(r)
    BY <2>7, ErrorsKeep
  <2>8. CASE \E i \in Inner : Revalidate(r, i) \/ Revalidated(r, i)
    BY <2>8, RevalidateKeeps, RevalidatedKeeps
  <2>9. CASE Drain(r)
    BY <2>9, DrainKeeps
  <2>10. QED
    BY <1>1, <2>1, <2>2, <2>3, <2>4, <2>5, <2>6, <2>7, <2>8, <2>9 DEF Step
<1>2. CASE LoadStep
  BY <1>2, LoadEndsKeeps DEF LoadStep
<1>3. CASE Sigterm \/ Closed \/ Exit
  BY <1>3, ShutdownKeeps
<1>4. CASE UNCHANGED vars
  <2>1. UNCHANGED <<server, awaited, modules, fails, broken, req>>
    BY <1>4 DEF vars, process, loader
  <2>2. ByRequest'
    BY <2>1, Parts DEF ByRequest, AcceptedIsCommitted, StopsClean, ShutdownKnows, InFlight, In,
                       Pending, Sound, Counted
  <2>3. QED
    BY <2>2, Parts, PTL
<1>5. QED
  BY <1>1, <1>2, <1>3, <1>4 DEF Next

\* Every reachable state satisfies the invariant: whatever the requests ask, whatever
\* breaks, and whenever the process is told to stop (core.ts, http, entrypoints.ts,
\* node-server.ts).
THEOREM Invariance == Spec => []IInv
BY Start, StepKeeps, PTL DEF Spec

\* A request is over only when all its work has settled, the process stops only when every
\* request it took is over, and every variable keeps its type (core.ts, handle;
\* node-server.ts, shutdown).
THEOREM WorkStaysDone == Spec => []WorkIsDone
<1>1. IInv => WorkIsDone
  BY DEF IInv
<1>2. QED
  BY <1>1, Invariance, PTL

\* Neither a header nor a cached failure of what came before reaches an answer, and what a
\* handler is told was revalidated was (sendError, sendUnmatched, loadModule, revalidate).
THEOREM NothingStaysInherited == Spec => []NothingInherited
<1>1. IInv => NothingInherited
  BY DEF IInv
<1>2. QED
  BY <1>1, Invariance, PTL
================================================================================
