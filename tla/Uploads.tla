--------------------------------- MODULE Uploads ---------------------------------
(***************************************************************************)
(* A request's body on its way to whoever reads it: the middleware and the *)
(* handler, of one stream (splitBody, src/runtime/core.ts, MiddlewareRunner*)
(* of src/runtime/middleware.ts), and the request the handler reads        *)
(* (ShimIncomingMessage, src/runtime/http/request.ts). Chunks are counted. *)
(***************************************************************************)
EXTENDS Integers, SequencesExt

CONSTANTS
    MaxChunks, \* bound: what a client sends
    HighWater  \* what a stream holds before it asks its source to wait

VARIABLES
    split,    \* whether there is middleware, and so two branches
    sent,     \* chunks the client sent
    arriving, \* those nobody took yet
    client,   \* sending, ended, or gone before the end
    branch,   \* tee()'s, or the body itself as "handler": its queue, and who reads it
    dispatch, \* running, or how it ended: whether the middleware answered
    buffer,   \* of the request
    pump,     \* its source: idle until _read, flowing, paused
    got       \* by reader: the chunks it has, and whether it was told of the end

vars == <<split, sent, arriving, client, branch, dispatch, buffer, pump, got>>

Readers == {"middleware", "handler"}
Branch == [queue |-> <<>>, state |-> "unread"]
States == {"unread", "locked", "cancelled"}
Open(b) == branch[b].state # "cancelled" /\ (b = "middleware" => split)

Init ==
    /\ split \in BOOLEAN
    /\ sent = 0 /\ arriving = <<>> /\ client = "sending"
    /\ branch = [b \in Readers |-> IF b = "handler" THEN [Branch EXCEPT !.state = "locked"] ELSE Branch]
    /\ dispatch = "running" /\ buffer = <<>> /\ pump = "idle"
    /\ got = [b \in Readers |-> [chunks |-> <<>>, told |-> "nothing", late |-> FALSE]]

-----------------------------------------------------------------------------
(* The client, and the two branches. *)

\* What a client sends ahead of its readers waits in the connection.
ClientSends ==
    /\ client = "sending" /\ sent < MaxChunks /\ Len(arriving) < HighWater
    /\ sent' = sent + 1 /\ arriving' = Append(arriving, sent')
    /\ UNCHANGED <<split, client, branch, dispatch, buffer, pump, got>>
ClientEnds ==
    /\ client = "sending" /\ client' = "ended"
    /\ UNCHANGED <<split, sent, arriving, branch, dispatch, buffer, pump, got>>
\* The error resets what the streams hold.
ClientGone ==
    /\ client = "sending" /\ client' = "gone"
    /\ arriving' = <<>> /\ branch' = [b \in Readers |-> [branch[b] EXCEPT !.queue = <<>>]]
    /\ UNCHANGED <<split, sent, dispatch, buffer, pump, got>>

\* tee() reads for the branch that has nothing, and gives to both.
Pull ==
    /\ arriving # <<>> /\ \E b \in Readers : Open(b) /\ branch[b].queue = <<>>
    /\ arriving' = Tail(arriving)
    /\ branch' = [b \in Readers |-> IF Open(b) THEN [branch[b] EXCEPT !.queue = Append(@, Head(arriving))] ELSE branch[b]]
    /\ UNCHANGED <<split, sent, client, dispatch, buffer, pump, got>>

\* All of it was given out.
Over(b) == client = "ended" /\ arriving = <<>> /\ branch[b].queue = <<>>
Told(b, what) == got' = [got EXCEPT ![b].told = what]

-----------------------------------------------------------------------------
(* The middleware, and the end of dispatch. *)

\* It may take a reader, once dispatch is over too.
MiddlewareTakes ==
    /\ split /\ branch["middleware"].state # "locked" /\ got["middleware"].told = "nothing"
    /\ IF Open("middleware") THEN branch' = [branch EXCEPT !["middleware"].state = "locked"] /\ UNCHANGED got
       ELSE UNCHANGED branch /\ got' = [got EXCEPT !["middleware"].told = "end", !["middleware"].late = TRUE]
    /\ UNCHANGED <<split, sent, arriving, client, dispatch, buffer, pump>>
MiddlewareReads ==
    /\ split /\ branch["middleware"].state = "locked" /\ got["middleware"].told = "nothing"
    /\ \/ /\ branch["middleware"].queue # <<>>
          /\ got' = [got EXCEPT !["middleware"].chunks = Append(@, Head(branch["middleware"].queue))]
          /\ branch' = [branch EXCEPT !["middleware"].queue = Tail(@)]
       \/ Over("middleware") /\ Told("middleware", "end") /\ UNCHANGED branch
       \/ client = "gone" /\ Told("middleware", "error") /\ UNCHANGED branch
    /\ UNCHANGED <<split, sent, arriving, client, dispatch, buffer, pump>>

Cancelled == [queue |-> <<>>, state |-> "cancelled"]
\* Mutant: no branch is let go of.
ReleaseNothing(responded) == branch
ReleaseUnread(responded) ==
    IF responded THEN [branch EXCEPT !["handler"] = Cancelled]
    ELSE IF branch["middleware"].state = "unread" THEN [branch EXCEPT !["middleware"] = Cancelled] ELSE branch
Dispatched ==
    /\ dispatch = "running"
    /\ \E responded \in {FALSE, split} :
          /\ dispatch' = IF responded THEN "responded" ELSE "routed"
          /\ branch' = IF split THEN ReleaseUnread(responded) ELSE branch
    /\ UNCHANGED <<split, sent, arriving, client, buffer, pump, got>>

-----------------------------------------------------------------------------
(* The request. *)

\* Mutants: it never waits; once it does, nothing wakes it.
NeverPaused(held) == "flowing"
StaysPaused(held) == pump
\* The data handler: push() says when there is enough.
AfterPush(held) == IF Len(held) >= HighWater THEN "paused" ELSE "flowing"
\* _read: the first pumps, the others resume.
AfterRead(held) == IF Len(held) < HighWater THEN "flowing" ELSE pump

Reading == dispatch = "routed" /\ got["handler"].told = "nothing"
HandlerReads ==
    /\ Reading
    /\ \/ pump = "idle" /\ pump' = "flowing" /\ UNCHANGED <<buffer, got>>
       \/ /\ buffer # <<>>
          /\ got' = [got EXCEPT !["handler"].chunks = Append(@, Head(buffer))]
          /\ buffer' = Tail(buffer) /\ pump' = AfterRead(buffer')
    /\ UNCHANGED <<split, sent, arriving, client, branch, dispatch>>
Push ==
    /\ pump = "flowing" /\ branch["handler"].queue # <<>>
    /\ buffer' = Append(buffer, Head(branch["handler"].queue)) /\ pump' = AfterPush(buffer')
    /\ branch' = [branch EXCEPT !["handler"].queue = Tail(@)]
    /\ UNCHANGED <<split, sent, arriving, client, dispatch, got>>
\* The end comes after what is held, an error at once.
RequestEnds ==
    /\ Reading /\ pump = "flowing"
    /\ \/ Over("handler") /\ buffer = <<>> /\ Told("handler", "end")
       \/ client = "gone" /\ Told("handler", "error")
    /\ UNCHANGED <<split, sent, arriving, client, branch, dispatch, buffer, pump>>

Onward == Pull \/ HandlerReads \/ Push \/ RequestEnds
Next ==
    \/ ClientSends \/ ClientEnds \/ ClientGone \/ Pull
    \/ MiddlewareTakes \/ MiddlewareReads \/ Dispatched
    \/ HandlerReads \/ Push \/ RequestEnds

-----------------------------------------------------------------------------
(* Properties. *)

Sent == [i \in 1 .. sent |-> i]

\* Whoever reads a body from before the end of dispatch, or handles the request, has its
\* chunks in their order, and the end only after all of them; a handler that reads on
\* gets to it. And nobody's copy piles up: a request holds no more than it asks for,
\* and a branch that nobody reads once dispatch is over at most the chunk tee() asks for
\* (splitBody, _read).
UploadReadWhole ==
    /\ \A b \in Readers :
          /\ IsPrefix(got[b].chunks, Sent)
          /\ got[b].told = "end" => (client = "ended" /\ got[b].chunks = Sent) \/ got[b].late
    /\ Len(buffer) <= HighWater
    /\ dispatch # "running" =>
          /\ branch["middleware"].state # "locked" => Len(branch["middleware"].queue) <= 1
          /\ dispatch = "responded" => branch["handler"].queue = <<>>
    /\ Reading /\ client = "ended" => ENABLED Onward
==================================================================================
