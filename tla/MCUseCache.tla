------------------------------ MODULE MCUseCache ------------------------------
(* DefaultUseCache or RemoteUseCache, the other in an initial state of its own. *)
EXTENDS DefaultUseCache
CONSTANTS RemoteTags, RemoteSets, RemoteRevalidate, RemoteExpire
VARIABLES handler, rnow, rtold, rknown, rtracked, rshort, rreading, rcomplete, rmemory, rregistered,
          rsets, rgets, object
remoteVars == <<rnow, rtold, rknown, rtracked, rshort, rreading, rcomplete, rmemory, rregistered,
                rsets, rgets, object>>
Remote == INSTANCE RemoteUseCache WITH
    Tags <- RemoteTags, SoftTags <- {}, Sets <- RemoteSets,
    Revalidate <- RemoteRevalidate, Expire <- RemoteExpire,
    now <- rnow, told <- rtold, known <- rknown, tracked <- rtracked, short <- rshort,
    reading <- rreading,
    completeSince <- rcomplete, memory <- rmemory, registered <- rregistered,
    sets <- rsets, gets <- rgets

\* What is not looked at stays in its initial state, in which it has no fair action
\* enabled.
UseCacheInit == handler \in {"default", "remote"} /\ CommonInit /\ Remote!Init
UseCacheNext ==
    \/ handler = "default" /\ Next /\ UNCHANGED <<handler, remoteVars>>
    \/ handler = "remote" /\ Remote!Next /\ UNCHANGED <<handler, vars>>
UseCacheSpec == UseCacheInit /\ [][UseCacheNext]_<<handler, vars, remoteVars>>
                /\ Fairness /\ Remote!Fairness

\* The two handlers' properties, each of its own state.
JudgedWhenServed == ServedIsJudged /\ Remote!ServedIsJudged
\* Neither handler leaves a get waiting.
GetsAnswered == EveryGetAnswered /\ Remote!EveryGetAnswered
================================================================================
