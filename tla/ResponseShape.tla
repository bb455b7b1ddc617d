------------------------------ MODULE ResponseShape ------------------------------
(***************************************************************************)
(* What becomes of an answer on its way out: the headers set on a          *)
(* ShimServerResponse (src/runtime/http/response.ts), the compression and  *)
(* the padding of its body (src/runtime/http/sink.ts), and the Responses   *)
(* of middleware and of other origins (sendWebResponse,                    *)
(* src/runtime/core.ts). A header is the sequence of its values.           *)
(***************************************************************************)
EXTENDS Integers, FiniteSets, SequencesExt

CONSTANTS
    Calls,     \* what is called before the first byte, writeHead last: sequences of calls
    Responses, \* a body with what is said of it, and where it is from
    Requests,  \* who asks: the method, and what encodings it accepts
    Sinks      \* whether `compress` is on, and whether an empty body is padded

HeaderNames == {"set-cookie", "location", "vary", "link", "content-encoding", "content-length"}
NoHeaders == [n \in HeaderNames |-> <<>>]

-----------------------------------------------------------------------------
(* The headers. A call is [op, pairs], of one pair but for writeHead. *)

SetHeader(store, name, values) == [store EXCEPT ![name] = values]
AppendHeader(store, name, values) == [store EXCEPT ![name] = @ \o values]
RemoveHeader(store, names) == [n \in HeaderNames |-> IF n \in names THEN <<>> ELSE store[n]]

NamesOf(pairs) == {pairs[i].name : i \in DOMAIN pairs}
SetAll(store, pairs) == FoldLeft(LAMBDA s, pair : SetHeader(s, pair.name, pair.values), store, pairs)
AppendAll(store, pairs) == FoldLeft(LAMBDA s, pair : AppendHeader(s, pair.name, pair.values), store, pairs)
\* Mutant: each pair in its turn.
LastOfEach(store, pairs) == SetAll(store, pairs)
\* The array form of writeHead, where a name may be more than once.
WriteHeadPairs(store, pairs) == AppendAll(RemoveHeader(store, NamesOf(pairs)), pairs)

\* Of the dispatcher's headers, or a Response's: cookies are added, one by one.
ApplyHeaders(store, pairs) ==
    AppendAll(SetAll(store, SelectSeq(pairs, LAMBDA pair : pair.name # "set-cookie")),
              SelectSeq(pairs, LAMBDA pair : pair.name = "set-cookie"))

Called(store, call) ==
    CASE call.op = "set" -> SetAll(store, call.pairs)
      [] call.op = "append" -> AppendAll(store, call.pairs)
      [] call.op = "remove" -> RemoveHeader(store, NamesOf(call.pairs))
      [] call.op = "writeHead" -> WriteHeadPairs(store, call.pairs)
      [] call.op = "apply" -> ApplyHeaders(store, call.pairs)

SetCookieList(values) == SelectSeq(values, LAMBDA cookie : cookie # "")
BuildHead(store) ==
    [n \in HeaderNames |->
        CASE n = "set-cookie" -> SetCookieList(store[n])
          [] n = "location" /\ store[n] # <<>> -> <<Last(store[n])>>
          [] OTHER -> store[n]]

-----------------------------------------------------------------------------
(* The body. `coding` is what it is encoded with, the head what is said of it. *)

StaleFramingHeaders == {"content-encoding", "content-length"}
\* Mutant: as they came.
AsReceived(response) == response
\* Of `fetch`, which decodes what it gets and keeps the headers.
SendWebResponse(response) == [response EXCEPT !.said = RemoveHeader(@, StaleFramingHeaders)]
Fetched(response) == [response EXCEPT !.coding = "identity"]
Sent(response) == IF response.web THEN SendWebResponse(Fetched(response)) ELSE response

UncompressableStatus == {204, 206, 304}
\* Each of a client's codings, [name, q].
WildcardWins(accepts) == \E i \in DOMAIN accepts : accepts[i].name \in {"gzip", "*"} /\ accepts[i].q > 0
AcceptsGzip(accepts) ==
    LET gzips == SelectSeq(accepts, LAMBDA c : c.name = "gzip")
        wildcards == SelectSeq(accepts, LAMBDA c : c.name = "*")
    IN  IF gzips # <<>> THEN Head(gzips).q > 0 ELSE wildcards # <<>> /\ Last(wildcards).q > 0

CompressRange(request, response, sink) ==
    /\ sink.compress /\ request.method # "HEAD" /\ response.status \notin {204, 304}
    /\ response.said["content-encoding"] = <<>> /\ response.compressible /\ ~response.noTransform
    /\ AcceptsGzip(request.accepts)
ShouldGzip(request, response, sink) ==
    /\ sink.compress /\ request.method # "HEAD" /\ response.status \notin UncompressableStatus
    /\ response.said["content-encoding"] = <<>> /\ response.compressible /\ ~response.noTransform
    /\ AcceptsGzip(request.accepts)

WithGzipHeaders(head) ==
    [head EXCEPT !["content-encoding"] = <<"gzip">>, !["content-length"] = <<>>,
                 !["vary"] = IF "accept-encoding" \in ToSet(@) THEN @ ELSE Append(@, "accept-encoding")]

\* Mutant: zlib keeps a chunk until the next.
HeldByZlib(chunks) == IF chunks = <<>> THEN <<>> ELSE Front(chunks)
\* A sync flush on every chunk.
Flushed(chunks) == chunks

PadEmptyBody(chunks, sink) == IF sink.pads /\ chunks = <<>> THEN <<" ">> ELSE chunks
\* What is on the wire: before the end, while a handler waits, and then.
PipeToSink(request, response, sink, head) ==
    LET sent == Sent(response)
        gzip == ShouldGzip(request, [sent EXCEPT !.said = head], sink)
        body == IF request.method = "HEAD" \/ sent.status \in {204, 304} THEN <<>> ELSE sent.chunks
    IN  [head |-> IF gzip THEN WithGzipHeaders(head) ELSE head,
         coding |-> IF gzip THEN "gzip" ELSE sent.coding,
         paused |-> IF gzip THEN Flushed(body) ELSE body,
         \* An ended gzip stream is not.
         empty |-> ~gzip /\ PadEmptyBody(body, sink) = <<>>]

Wire(asked) ==
    LET store == FoldLeft(Called, NoHeaders, asked.calls)
        sent == Sent(asked.response)
        head == BuildHead([n \in HeaderNames |-> IF sent.said[n] # <<>> THEN sent.said[n] ELSE store[n]])
    IN  PipeToSink(asked.request, asked.response, asked.sink, head)

-----------------------------------------------------------------------------
(* Properties. *)

\* The last call that replaces a header, and what is added after it.
Replaces(call, name) == name \in NamesOf(call.pairs) /\ call.op # "append" /\ (call.op = "apply" => name # "set-cookie")
Given(call, name) ==
    LET of == SelectSeq(call.pairs, LAMBDA pair : pair.name = name)
    IN  CASE call.op = "remove" \/ of = <<>> -> <<>>
          [] call.op \in {"set", "apply"} /\ Replaces(call, name) -> Last(of).values
          [] OTHER -> FlattenSeq([i \in DOMAIN of |-> of[i].values])
AsCalled(calls, name) ==
    LET replacing == {i \in DOMAIN calls : Replaces(calls[i], name)}
        from == CHOOSE i \in replacing \cup {0} : \A j \in replacing : j <= i
    IN  FlattenSeq([i \in DOMAIN calls |-> IF i < from THEN <<>> ELSE Given(calls[i], name)])

\* A client gets the headers a handler set as node:http would send them, but for one
\* Location and no empty cookie; what the body is said to be encoded with is what it is,
\* and the client can read it; a length that is given is the body's; caches are told that
\* the encoding varies; all that a handler wrote before it waits is there; and a Lambda's
\* answer is never empty (pipeToSink, buildHead, sendWebResponse).
ResponseAsWritten(asked) ==
    LET wire == Wire(asked)
        sent == Sent(asked.response)
        accepts(name) == \E i \in DOMAIN asked.request.accepts :
                            asked.request.accepts[i] = [name |-> name, q |-> 1]
        called(name) == AsCalled(asked.calls, name)
        bodiless == asked.request.method = "HEAD" \/ asked.response.status \in {204, 304}
        told == wire.head["content-encoding"]
    IN  /\ wire.head["set-cookie"] = SelectSeq(called("set-cookie"), LAMBDA c : c # "")
        /\ wire.head["link"] = called("link")
        /\ wire.head["location"] = (IF called("location") = <<>> THEN <<>> ELSE <<Last(called("location"))>>)
        /\ ToSet(called("vary")) \subseteq ToSet(wire.head["vary"])
        /\ bodiless \/ told = (IF wire.coding = "identity" THEN <<>> ELSE <<wire.coding>>)
        /\ wire.coding # sent.coding =>
              /\ accepts("gzip") \/ (accepts("*") /\ \A i \in DOMAIN asked.request.accepts : asked.request.accepts[i].name # "gzip")
              /\ "accept-encoding" \in ToSet(wire.head["vary"])
              /\ asked.response.status # 206 /\ ~asked.response.noTransform /\ ~bodiless
        /\ ~bodiless /\ wire.head["content-length"] # <<>> => wire.head["content-length"] = <<"whole">> /\ wire.coding = sent.coding
        /\ ~bodiless => wire.paused = asked.response.chunks
        /\ asked.sink.pads => ~wire.empty
=================================================================================
