--------------------------- MODULE MCTrackedTagMarkers --------------------------
(* TrackedTagMarkers on two tags, of which the second fills the memory. *)
EXTENDS TrackedTagMarkers

CONSTANTS t1, t2, r1, r2

OneTag == {t1}
TwoTags == {t1, t2}
TwoRevalidations == {r1, r2}
OfFirstTag == [r \in Revalidations |-> t1]
FirstOwn == {r1}
FirstProfiled == [r \in Revalidations |-> IF r = r1 THEN {Profile(1)} ELSE {Immediately}]
OtherAny == [r \in Revalidations |-> IF r = r1 THEN {Profile(1)}
                                     ELSE {Immediately, Profile(1)}]

\* Bound. What is run elsewhere is followed over both tags. What is run here is
\* followed on its own tag, with an outright revalidation run elsewhere.
OwnOnItsTag ==
    (\E r \in Own : writes[r].row # "unsent") =>
        /\ (\A r \in Revalidations : writes[r].row # "unsent") => now <= 1
        /\ t2 \notin Tracked(known) /\ reading[t2] = "none"
        /\ prunedAgainst \in {Absent, 0}
        /\ \A r \in Revalidations \ Own : writes[r].durations = Immediately
================================================================================
