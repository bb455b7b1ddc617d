----------------------------- MODULE RemoteUseCache ----------------------------
(***************************************************************************)
(* The `remote` handler, for 'use cache: remote'                           *)
(* (src/adapter/use-cache-remote-handler.ts): memory in front of an object *)
(* in S3 that other instances read and write, its tags read before it is   *)
(* judged.                                                                 *)
(***************************************************************************)
EXTENDS UseCacheCommon

\* SoftTags is empty here: Next.js judges the implicit tags itself, by getExpiration.
CONSTANT Expire \* `expire` of the entries

VARIABLE object \* the entry in S3

vars == <<now, manifestVars, storeVars, gets, object>>

Init == CommonInit /\ object = Absent

IsPastExpire(entry, at) == at > entry + Expire

--------------------------------------------------------------------------------
(* get. *)

\* An entry that S3 may have a newer one of.
Fetches(get) == IsPastRevalidate(get.entry, get.at) \/ Expired(get.entry)

\* The answer, and what it leaves in memory, which holds `held`.
Judge(g, get, held) ==
    LET drop == get.entry # Absent /\ (IsPastExpire(get.entry, get.at) \/ Expired(get.entry))
    IN  /\ gets' = [gets EXCEPT ![g] =
                       IF get.entry = Absent \/ IsPastExpire(get.entry, get.at)
                       THEN [get EXCEPT !.phase = "answered"] ELSE Answered(get, get.entry)]
        /\ memory' = IF drop THEN Absent ELSE held

\* With the tags of what it holds read, judged as it is or S3 asked.
Check(g, get) ==
    IF Fetches(get)
    THEN /\ gets' = [gets EXCEPT ![g] = [get EXCEPT !.phase = "fetching", !.found = Absent,
                                                    !.expired = Expired(get.entry)]]
         /\ UNCHANGED memory
    ELSE Judge(g, get, memory)

Called(entry) == [NoGet EXCEPT !.entry = entry, !.at = now]

GetNothing(g) ==
    /\ Waited(g) /\ memory = Absent
    /\ gets' = [gets EXCEPT ![g] = [Called(Absent) EXCEPT !.phase = "fetching"]]
    /\ UNCHANGED <<now, manifestVars, storeVars, object>>

GetHeld(g) ==
    /\ Waited(g) /\ memory # Absent
    /\ Ensure(Tags)
    /\ IF Unread(Tags) = {} THEN Check(g, Called(memory))
       ELSE /\ gets' = [gets EXCEPT ![g] = [Called(memory) EXCEPT !.phase = "reading",
                                                                 !.awaits = Unread(Tags)]]
            /\ UNCHANGED memory
    /\ UNCHANGED <<now, markerVars, registered, sets, object>>

HeldRead(g) ==
    /\ gets[g].phase = "reading" /\ gets[g].awaits = {}
    /\ Check(g, gets[g])
    /\ UNCHANGED <<now, manifestVars, registered, sets, object>>

\* S3 answers with the object of that moment, or the read fails: none.
S3Answers(g) ==
    /\ gets[g].phase = "fetching" /\ gets[g].found = Absent
    /\ object # Absent
    /\ gets' = [gets EXCEPT ![g].found = object]
    /\ UNCHANGED <<now, manifestVars, storeVars, object>>

\* Mutant: the tags of an entry from S3 are not read before it is judged.
FetchedUnread == {}

\* The tags of an entry from S3 that are to be read first.
FetchedAwaits == Unread(Tags)

\* An object newer than what was held takes its place, its tags read first.
Fetched(g) ==
    LET get   == gets[g]
        newer == get.found > get.entry
        found == [get EXCEPT !.entry = get.found, !.expired = FALSE]
    IN  /\ get.phase = "fetching"
        /\ Quiet
        /\ \/ ~newer /\ Judge(g, get, memory) /\ UNCHANGED reading
           \/ newer /\ FetchedAwaits = {} /\ Judge(g, found, get.found) /\ Ensure(Tags)
           \/ /\ newer /\ FetchedAwaits # {}
              /\ gets' = [gets EXCEPT ![g] = [found EXCEPT !.phase = "rereading",
                                                           !.awaits = FetchedAwaits]]
              /\ Ensure(Tags)
              /\ UNCHANGED memory
        /\ UNCHANGED <<now, markerVars, registered, sets, object>>

FetchedRead(g) ==
    /\ gets[g].phase = "rereading" /\ gets[g].awaits = {}
    /\ Judge(g, gets[g], gets[g].entry)
    /\ UNCHANGED <<now, manifestVars, registered, sets, object>>

--------------------------------------------------------------------------------
(* set, once its entry has been read to the end, and S3. *)

\* In memory, and a get that waits goes on, before S3 has it.
Store(s) ==
    /\ Quiet
    /\ sets[s].phase = "streaming"
    /\ memory' = sets[s].entry
    /\ sets' = [sets EXCEPT ![s].phase = "putting"]
    /\ Done(s)
    /\ UNCHANGED <<now, manifestVars, gets, object>>

\* Mutant: a set whose stream errors stays registered.
FailStillPending(s) ==
    /\ sets[s].phase = "streaming"
    /\ Ends(s, "failed")
    /\ UNCHANGED <<now, manifestVars, memory, registered, gets, object>>

\* The stream errors, or the entry is one Next.js generates on every read.
Fail(s) ==
    /\ sets[s].phase = "streaming"
    /\ Ends(s, "failed")
    /\ Done(s)
    /\ UNCHANGED <<now, manifestVars, memory, gets, object>>

\* Puts land in any order, or not at all.
PutLands(s) ==
    /\ sets[s].phase = "putting"
    /\ object' = sets[s].entry
    /\ Ends(s, "stored")
    /\ UNCHANGED <<now, manifestVars, memory, registered, gets>>

PutFails(s) ==
    /\ sets[s].phase = "putting"
    /\ Ends(s, "failed")
    /\ UNCHANGED <<now, manifestVars, memory, registered, gets, object>>

OtherPut ==
    /\ \E entry \in 0 .. now : object' = entry /\ object' # object
    /\ UNCHANGED <<now, manifestVars, storeVars, gets>>

GetStep(g) == GetNothing(g) \/ GetHeld(g) \/ HeldRead(g) \/ Fetched(g) \/ FetchedRead(g)

Next ==
    \/ CommonNext /\ UNCHANGED object
    \/ OtherPut
    \/ \E g \in Gets : GetStep(g) \/ S3Answers(g)
    \/ \E s \in Sets : Store(s) \/ Fail(s) \/ PutLands(s) \/ PutFails(s)

\* Streams end or error, reads and S3 answer or time out, continuations run.
Fairness ==
    /\ \A s \in Sets : WF_vars(Store(s) \/ Fail(s))
    /\ \A t \in Tags : WF_vars(AnswerRead(t) /\ UNCHANGED object)
    /\ \A g \in Gets : WF_vars(gets[g].phase # "away" /\ (GetStep(g) \/ (WaitFor(g) /\ UNCHANGED object)))

Spec == Init /\ [][Next]_vars /\ Fairness

--------------------------------------------------------------------------------
\* Every variable stays within its type.
TypeOK == CommonTypeOK /\ object \in Stamp

\* An entry is served only if it is newer than every revalidation of its tags the
\* instance was told of, but for those of tags whose read fell short of it, and of
\* tags let go of while get waited for reads or for S3: neither is waited for with
\* the others held.
ServedIsJudged == \A g \in Gets : gets[g].missed \subseteq gets[g].letGo

\* Every get is answered, whatever sets come and go, and fail, meanwhile.
EveryGetAnswered ==
    \A g \in Gets : gets[g].phase # "away" ~> gets[g].phase = "answered"

--------------------------------------------------------------------------------
\* "An expired entry S3 has nothing newer for is dropped below"
\* (use-cache-remote-handler.ts:176-177): and not served.
ExpiredIsDropped == \A g \in Gets : gets[g].expired => gets[g].missed = {}
================================================================================
