----------------------------- MODULE RevalidationFeed ---------------------------
(***************************************************************************)
(* What the revalidation log promises an instance that follows it: a       *)
(* horizon such that every revalidation recorded below it, since the       *)
(* instance last started over, has been heard.                             *)
(*                                                                         *)
(* The log keeps this promise by timing alone - a lookback, a limit on how *)
(* long a put may take, a time to live - and RevalidationLog is shown to   *)
(* implement it. Nothing here says how.                                    *)
(***************************************************************************)
EXTENDS Integers

CONSTANT Revalidations

VARIABLES recorded, \* the revalidations whose writer was told they are recorded,
                    \* by the time they are filed under
          heard,    \* the revalidations the instance has heard since `start`
          start,    \* what is filed earlier is not this feed's to tell
          horizon   \* nothing is filed from `start` up to here and not heard

feedVars == <<recorded, heard, start, horizon>>

Missing(at, r) == start <= at /\ at < horizon /\ r \notin heard

FeedInit ==
    /\ recorded = {}
    /\ heard = {}
    /\ start \in Int
    /\ horizon = start

\* A writer may only be told its revalidation is recorded where an instance
\* that follows the log will hear of it, or has.
Record ==
    /\ \E f \in recorded' : /\ f[1] \in Revalidations
                            /\ ~Missing(f[2], f[1])
                            /\ recorded' = recorded \cup {f}
    /\ UNCHANGED <<heard, start, horizon>>

\* The instance hears of more, and only then moves its horizon past it.
Hear ==
    /\ heard \subseteq heard'
    /\ horizon <= horizon'
    /\ \A f \in recorded : start <= f[2] /\ f[2] < horizon' => f[1] \in heard'
    /\ UNCHANGED <<recorded, start>>

\* The instance can no longer rely on the log for what it has not heard, and
\* starts over.
StartOver ==
    /\ heard' = {}
    /\ start <= start'
    /\ horizon' = start'
    /\ UNCHANGED recorded

FeedNext ==
    \/ Record
    \/ Hear
    \/ StartOver

FeedSpec == FeedInit /\ [][FeedNext]_feedVars
================================================================================
