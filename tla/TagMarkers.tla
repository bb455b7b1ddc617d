------------------------------- MODULE TagMarkers -------------------------------
(***************************************************************************)
(* What a tag's marker row records and means: the pure functions of        *)
(* src/adapter/aws-cache-store.ts that every cache handler shares.         *)
(*                                                                         *)
(* Times are natural numbers, a field the code leaves undefined is Absent. *)
(* Absent is below every time, which is how the code's own comparisons     *)
(* treat it (`?? -1`, `?? -Infinity`, `!== undefined &&`).                 *)
(***************************************************************************)
EXTENDS Integers

Absent == -1
Stamp  == Nat \cup {Absent}
Marker == [revalidatedAt : Stamp, staleAt : Stamp, expiredAt : Stamp]

\* The marker of a tag with no row, `{}` in the code.
NoMarker == [revalidatedAt |-> Absent, staleAt |-> Absent, expiredAt |-> Absent]

\* `durations`: undefined for updateTag and a bare revalidateTag, otherwise a
\* profile, whose `expire` (here in units of time) may itself be undefined.
Durations   == [profile : BOOLEAN, expire : Stamp]
Immediately == [profile |-> FALSE, expire |-> Absent]
Profile(e)  == [profile |-> TRUE, expire |-> e]

\* One of each kind, for TLC.
KindsOfProfile == {Immediately, Profile(Absent), Profile(3)}

Later(a, b) == IF a >= b THEN a ELSE b

MarkerState(marker, createdAt, now) ==
    IF \/ marker.revalidatedAt > createdAt
       \/ marker.expiredAt <= now /\ marker.expiredAt > createdAt
    THEN "expired"
    ELSE IF marker.staleAt > createdAt THEN "stale" ELSE "fresh"

\* How much an answer holds an entry back: a page is served, served while a
\* render replaces it, or rendered again first.
Severity(state) == CASE state = "fresh"   -> 0
                     [] state = "stale"   -> 1
                     [] state = "expired" -> 2

\* Mutants of MarkerFor: a profile that also expires the tag outright, and an
\* `expire` counted backwards.
MarkerForBoth(now, durations) ==
    [revalidatedAt |-> now,
     staleAt       |-> IF durations.profile THEN now ELSE Absent,
     expiredAt     |-> IF durations.expire = Absent
                       THEN Absent ELSE now + durations.expire]

MarkerForBackwards(now, durations) ==
    IF ~durations.profile
    THEN [NoMarker EXCEPT !.revalidatedAt = now]
    ELSE [NoMarker EXCEPT !.staleAt = now, !.expiredAt = now - durations.expire]

MarkerFor(now, durations) ==
    IF ~durations.profile
    THEN [NoMarker EXCEPT !.revalidatedAt = now]
    ELSE [revalidatedAt |-> Absent,
          staleAt       |-> now,
          expiredAt     |-> IF durations.expire = Absent
                            THEN Absent ELSE now + durations.expire]

\* A field the update leaves undefined keeps its value.
Overwrite(old, new) == IF new = Absent THEN old ELSE new

ApplyMarker(existing, update) ==
    [revalidatedAt |-> Overwrite(existing.revalidatedAt, update.revalidatedAt),
     staleAt       |-> Overwrite(existing.staleAt, update.staleAt),
     expiredAt     |-> Overwrite(existing.expiredAt, update.expiredAt)]

\* Mutants of MergeMarkers: the remote always wins, and `revalidatedAt` goes
\* with the newer `staleAt` too.
MergeRemoteWins(local, remote) ==
    [ApplyMarker(local, remote) EXCEPT
        !.revalidatedAt = Later(local.revalidatedAt, remote.revalidatedAt)]

MergeNewerWins(local, remote) ==
    IF local.staleAt > remote.staleAt
    THEN ApplyMarker(remote, local) ELSE ApplyMarker(local, remote)

\* `expiredAt` goes with the newer `staleAt`; on a tie the remote is the newer.
MergeMarkers(local, remote) ==
    LET localNewer == local.staleAt > remote.staleAt
        older      == IF localNewer THEN remote ELSE local
        newer      == IF localNewer THEN local ELSE remote
    IN  [ApplyMarker(older, newer) EXCEPT
            !.revalidatedAt = Later(local.revalidatedAt, remote.revalidatedAt)]

\* The latest revalidation `marker` has made known by `now`.
KnownBy(marker, now) ==
    Later(Later(marker.revalidatedAt, marker.staleAt),
          IF marker.expiredAt <= now THEN marker.expiredAt ELSE Absent)
================================================================================
