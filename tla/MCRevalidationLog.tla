---------------------------- MODULE MCRevalidationLog ---------------------------
(***************************************************************************)
(* RevalidationLog with the code's constants scaled down, their order and  *)
(* their sums kept: a lookback of a put, the clocks and a late row, and a  *)
(* time to live just past the gap.                                         *)
(***************************************************************************)
EXTENDS RevalidationLog, TLC

CONSTANTS r1, r2, t1

Two == {r1, r2}
TagOfTwo == [r \in Two |-> t1]
Interchangeable == Permutations(Two)

\* Bound. The two meet in the keys of their rows, so they run together only at
\* first. A revalidation alone is followed for as long as the clock runs.
TogetherAtFirst ==
    IF \A r \in Revalidations : puts[r].phase # "idle"
    THEN now <= 1 /\ query.phase = "none" /\ lastLogRead = 0
    ELSE \A r \in Revalidations : puts[r].tries <= 1
=================================================================================
