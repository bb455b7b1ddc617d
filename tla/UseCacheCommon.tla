----------------------------- MODULE UseCacheCommon ----------------------------
(***************************************************************************)
(* What the 'use cache' handlers share (src/adapter/use-cache-common.ts):  *)
(* the pending sets, the entry in memory, and the instance's one tag       *)
(* manifest, as far as a handler can tell.                                 *)
(*                                                                         *)
(* One cache key: entries of different keys meet only in the memory's      *)
(* bound, which may drop the entry at any time. An entry is its timestamp. *)
(* The manifest is TrackedTagMarkers reduced to outright revalidations:    *)
(* what it was told, what it still knows, and which reads showed less than *)
(* it had been told before, an empty marker when they fail.                *)
(***************************************************************************)
EXTENDS Integers, FiniteSets

CONSTANTS
    Tags,       \* the tags of the key's entries, and those passed to get
    SoftTags,   \* of those, softTags: the implicit ones
    Gets, Sets, \* the calls of get and of set
    Revalidate, \* `revalidate` of the entries
    MaxNow      \* bound: the last time the clock shows

ASSUME CommonAssumption == SoftTags \subseteq Tags /\ Revalidate \in Nat /\ MaxNow \in Nat

VARIABLES
    now,           \* markerClock()
    told,          \* by tag: the latest revalidation the instance was told of
    known,         \* by tag: what it still knows of it, tracked or from the log
    tracked,       \* the tags whose marker was read, or whose revalidation ran here
    short,         \* of those, the ones whose read left less known than was told
    reading,       \* the tags whose first read is in flight
    completeSince,
    memory,        \* the entry EntryLru holds for the key
    registered,    \* PendingSets: the set a get would wait for
    sets,          \* by set: where it stands, and its entry
    gets           \* by get: where it stands, see Get

markerVars   == <<told, known, tracked, short, completeSince>>
manifestVars == <<markerVars, reading>>
storeVars    == <<memory, registered, sets>>

Absent == -1
Stamp  == Nat \cup {Absent}
None   == "none"

Set == [phase : {"away", "streaming", "putting", "stored", "failed"}, entry : Stamp]

\* `awaits` are the tags whose read it waits for, `letGo` those the manifest let
\* go of while it waited, for reads or for S3. Its answer served the entry
\* although the instance was told of a later revalidation of the tags of `missed`,
\* whose reads had not fallen short.
\* The remote handler's get was called `at`, had `expired` its entry by tag with
\* nothing newer seen since, and `found` an object in S3.
Get == [phase : {"away", "pending", "reading", "fetching", "rereading", "answered"},
        behind : Sets \cup {None}, entry : Stamp, awaits : SUBSET Tags,
        letGo : SUBSET Tags, missed : SUBSET Tags,
        at : Stamp, expired : BOOLEAN, found : Stamp]

NoGet == [phase |-> "away", behind |-> None, entry |-> Absent, awaits |-> {},
          letGo |-> {}, missed |-> {},
          at |-> Absent, expired |-> FALSE, found |-> Absent]

CommonInit ==
    /\ now = 0
    /\ told = [t \in Tags |-> Absent] /\ known = told
    /\ tracked = {} /\ short = {} /\ reading = {} /\ completeSince = 0
    /\ memory = Absent /\ registered = None
    /\ sets = [s \in Sets |-> [phase |-> "away", entry |-> Absent]]
    /\ gets = [g \in Gets |-> NoGet]

CommonTypeOK ==
    /\ now \in Nat
    /\ told \in [Tags -> Stamp] /\ known \in [Tags -> Stamp]
    /\ short \subseteq tracked /\ tracked \subseteq Tags
    /\ reading \subseteq Tags /\ completeSince \in Nat
    /\ memory \in Stamp /\ registered \in Sets \cup {None}
    /\ registered # None => sets[registered].phase = "streaming"
    /\ sets \in [Sets -> Set] /\ gets \in [Gets -> Get]

Later(a, b) == IF a >= b THEN a ELSE b

\* The phases in which a get waits for reads.
Waiting == {"reading", "rereading"}

\* A get whose reads are answered goes on before anything else happens.
Quiet == \A g \in Gets : gets[g].phase \in Waiting => gets[g].awaits # {}

Tick ==
    /\ Quiet
    /\ now < MaxNow
    /\ now' = now + 1
    /\ UNCHANGED <<manifestVars, storeVars, gets>>

--------------------------------------------------------------------------------
(* The manifest. *)

\* A marker of `t` set `at` is merged into what is known of it.
Learn(t, at) ==
    /\ told' = [told EXCEPT ![t] = Later(@, at)]
    /\ known' = [known EXCEPT ![t] = Later(@, at)]

\* A log row, one heard and let go of before too, or a re-read in the background.
Hear(t) ==
    /\ Quiet
    /\ \E at \in (known[t] + 1) .. now :
          /\ Learn(t, at)
          /\ short' = IF at >= told[t] THEN short \ {t} ELSE short
    /\ UNCHANGED <<now, tracked, reading, completeSince, storeVars, gets>>

\* A revalidation run here, which tracks the tag.
RevalidateHere(t) ==
    /\ Quiet
    /\ known[t] < now
    /\ Learn(t, now)
    /\ tracked' = tracked \cup {t}
    /\ short' = short \ {t}
    /\ UNCHANGED <<now, reading, completeSince, storeVars, gets>>

\* The first read of a tag shows a revalidation, which may not be the latest the
\* instance was told of before it let go of the tag; or it shows none, or fails,
\* and what is known is left as it is. Who waited for it waits no more.
AnswerRead(t) ==
    /\ t \in reading
    /\ \E at \in {Absent} \cup 0 .. now :
          /\ Learn(t, at)
          /\ short' = IF Later(known[t], at) < told[t] THEN short \cup {t} ELSE short \ {t}
    /\ tracked' = tracked \cup {t}
    /\ reading' = reading \ {t}
    /\ gets' = [g \in Gets |-> [gets[g] EXCEPT !.awaits = @ \ {t}]]
    /\ UNCHANGED <<now, completeSince, storeVars>>

\* The manifest lets go of `ts`, while some get waits.
LetGo(ts) ==
    /\ known' = [t \in Tags |-> IF t \in ts THEN Absent ELSE known[t]]
    /\ tracked' = tracked \ ts
    /\ short' = short \ ts
    /\ gets' = [g \in Gets |->
                   IF gets[g].phase \in Waiting \cup {"fetching"}
                   THEN [gets[g] EXCEPT !.letGo = @ \cup ts] ELSE gets[g]]
    /\ UNCHANGED <<now, told, reading, storeVars>>

\* Evicted for the tag another read tracks, or a log row pruned.
Evict(t) ==
    /\ t \in tracked \/ known[t] # Absent
    /\ LetGo({t})
    /\ completeSince' = Later(completeSince, known[t])

Forget ==
    /\ Quiet
    /\ LetGo(Tags)
    /\ completeSince' = now

\* ensure of `ts`, up to where it waits.
Unread(ts) == ts \ tracked
Ensure(ts) == reading' = reading \cup Unread(ts)

\* state and expiration: an implicit tag counts from the entry's very time on.
Expires(at, t, entry) == at > entry \/ (t \in SoftTags /\ at = entry)
Expired(entry) == \E t \in Tags : Expires(known[t], t, entry)

IsPastRevalidate(entry, at) == at > entry + Revalidate

\* A get's answer: the entry, or a miss if it has expired by tag. A tag whose read
\* fell short is not held against it: "assume the entry is valid".
Answered(get, entry) ==
    IF Expired(entry) THEN [get EXCEPT !.phase = "answered"]
    ELSE [get EXCEPT !.phase = "answered",
                     !.missed = {t \in Tags \ short : told[t] > entry}]

--------------------------------------------------------------------------------
(* PendingSets. *)

\* begin: a later set takes the place of an earlier one still in flight.
Begin(s) ==
    /\ sets[s].phase = "away"
    /\ sets' = [sets EXCEPT ![s] = [phase |-> "streaming", entry |-> now]]
    /\ registered' = s
    /\ UNCHANGED <<now, manifestVars, memory, gets>>

\* What begin returned, called.
Done(s) == registered' = IF registered = s THEN None ELSE registered

\* A set that has ended holds no entry any more.
Ends(s, phase) == sets' = [sets EXCEPT ![s] = [phase |-> phase, entry |-> Absent]]

\* wait: for the set registered, and then for one registered since.
WaitFor(g) ==
    /\ \/ gets[g].phase = "away"
       \/ /\ gets[g].phase = "pending"
          /\ sets[gets[g].behind].phase # "streaming"
    /\ registered # None
    /\ gets' = [gets EXCEPT ![g] = [NoGet EXCEPT !.phase = "pending", !.behind = registered]]
    /\ UNCHANGED <<now, manifestVars, storeVars>>

\* A get goes on past wait.
Waited(g) ==
    /\ registered = None
    /\ \/ gets[g].phase = "away"
       \/ /\ gets[g].phase = "pending"
          /\ sets[gets[g].behind].phase # "streaming"

\* The entry is evicted for space.
DropEntry ==
    /\ memory # Absent
    /\ memory' = Absent
    /\ UNCHANGED <<now, manifestVars, registered, sets, gets>>

CommonNext ==
    \/ Tick \/ Forget \/ DropEntry
    \/ \E t \in Tags : Hear(t) \/ RevalidateHere(t) \/ AnswerRead(t) \/ Evict(t)
    \/ \E s \in Sets : Begin(s)
    \/ \E g \in Gets : WaitFor(g)

================================================================================
