----------------------------- MODULE DefaultUseCache ---------------------------
(***************************************************************************)
(* The `default` handler, for plain 'use cache'                            *)
(* (src/adapter/use-cache-default-handler.ts): entries in memory, judged   *)
(* by what the instance knows, which is read first only for an entry older *)
(* than completeSince.                                                     *)
(***************************************************************************)
EXTENDS UseCacheCommon

vars == <<now, manifestVars, storeVars, gets>>

--------------------------------------------------------------------------------
(* get: up to the reads it waits for, and from there to its answer. *)

\* `revalidate` past, or nothing held.
GetMiss(g) ==
    /\ Waited(g)
    /\ memory = Absent \/ IsPastRevalidate(memory, now)
    /\ memory' = Absent
    /\ gets' = [gets EXCEPT ![g] = [NoGet EXCEPT !.phase = "answered"]]
    /\ UNCHANGED <<now, manifestVars, registered, sets>>

\* Mutant: an entry as old as the reads it needs is judged without them.
NeededNever(entry) == FALSE

\* Whether the answer waits for the reads.
Needed(entry) == entry < completeSince

Held(g) ==
    /\ Waited(g)
    /\ memory # Absent /\ ~IsPastRevalidate(memory, now)

\* Judged at once, the reads left to the background.
GetNow(g) ==
    /\ Held(g)
    /\ ~Needed(memory) \/ Unread(Tags) = {}
    /\ Ensure(Tags)
    /\ gets' = [gets EXCEPT ![g] = Answered(NoGet, memory)]
    /\ memory' = IF Expired(memory) THEN Absent ELSE memory
    /\ UNCHANGED <<now, markerVars, registered, sets>>

GetFirstReads(g) ==
    /\ Held(g)
    /\ Needed(memory) /\ Unread(Tags) # {}
    /\ Ensure(Tags)
    /\ gets' = [gets EXCEPT ![g] = [NoGet EXCEPT !.phase = "reading", !.entry = memory,
                                                !.awaits = Unread(Tags)]]
    /\ UNCHANGED <<now, markerVars, storeVars>>

\* The entry that was held when the reads began is judged, and if it has expired
\* the one held now is dropped.
Answer(g) ==
    /\ gets[g].phase = "reading" /\ gets[g].awaits = {}
    /\ gets' = [gets EXCEPT ![g] = Answered(@, @.entry)]
    /\ memory' = IF Expired(gets[g].entry) THEN Absent ELSE memory
    /\ UNCHANGED <<now, manifestVars, registered, sets>>

--------------------------------------------------------------------------------
(* set, once its entry has been read to the end: its own tags are read in the  *)
(* background, the implicit ones are not the entry's.                          *)

Store(s) ==
    /\ Quiet
    /\ sets[s].phase = "streaming"
    /\ memory' = sets[s].entry
    /\ Ends(s, "stored")
    /\ Ensure(Tags \ SoftTags)
    /\ Done(s)
    /\ UNCHANGED <<now, markerVars, gets>>

\* Mutant: a set whose stream errors stays registered.
FailStillPending(s) ==
    /\ sets[s].phase = "streaming"
    /\ Ends(s, "failed")
    /\ UNCHANGED <<now, manifestVars, memory, registered, gets>>

\* The stream errors, or the entry is one Next.js generates on every read.
Fail(s) ==
    /\ sets[s].phase = "streaming"
    /\ Ends(s, "failed")
    /\ Done(s)
    /\ UNCHANGED <<now, manifestVars, memory, gets>>

GetStep(g) == WaitFor(g) \/ GetMiss(g) \/ GetNow(g) \/ GetFirstReads(g) \/ Answer(g)

Next ==
    \/ CommonNext
    \/ \E g \in Gets : GetMiss(g) \/ GetNow(g) \/ GetFirstReads(g) \/ Answer(g)
    \/ \E s \in Sets : Store(s) \/ Fail(s)

\* Streams end or error, reads are answered or time out, continuations run.
Fairness ==
    /\ \A s \in Sets : WF_vars(Store(s) \/ Fail(s))
    /\ \A t \in Tags : WF_vars(AnswerRead(t))
    /\ \A g \in Gets : WF_vars(gets[g].phase # "away" /\ GetStep(g))

Spec == CommonInit /\ [][Next]_vars /\ Fairness

--------------------------------------------------------------------------------
\* Every variable stays within its type.
TypeOK == CommonTypeOK

\* An entry is served only if it is newer than every revalidation of its tags the
\* instance was told of, but for those of tags whose read fell short of it (it
\* failed, or was stale: aws-cache-store.ts 1417-1423), and of tags let go of while
\* get waited for a read: whether that read is needed is settled before it.
ServedIsJudged == \A g \in Gets : gets[g].missed \subseteq gets[g].letGo

\* Every get is answered, whatever sets come and go, and fail, meanwhile.
EveryGetAnswered ==
    \A g \in Gets : gets[g].phase # "away" ~> gets[g].phase = "answered"
================================================================================
