------------------------------ MODULE H3Request ------------------------------
(***************************************************************************)
(* One HTTP/3 request of server/quic/service.rs: read_http3_body, a task   *)
(* of its own, forwards the client's DATA chunks into a bounded channel;   *)
(* the route handler reads the channel as its request body and returns a   *)
(* response; handle_http3_request_impl joins the reader, which owns the    *)
(* stream, and only then writes head, chunks and FIN.                      *)
(*                                                                         *)
(* A chunk is the range of body bytes it carries, from its first to the    *)
(* one after its last.  The handler is user code: it reads what it likes,  *)
(* may keep the request body inside a streaming response, may panic, and   *)
(* need not return.  yield_now in the write loop changes no state and is   *)
(* left out.                                                               *)
(***************************************************************************)
EXTENDS Naturals, Sequences, FiniteSets

CONSTANTS
    Cap,            \* capacity of mpsc::channel (8 in the code)
    MaxBody,        \* max_body_size
    HasReadTimeout, \* h3_read_timeout is Some
    ChunkSize,      \* h3_chunk_size
    ChunkLens,      \* lengths of the chunks a client sends
    MaxChunks,      \* bound: chunks per request
    RespBodies,     \* response bodies a handler builds, as frame lengths
    Error           \* an Err item of the channel

ASSUME H3RequestAssumption ==
    /\ Cap \in Nat \ {0} /\ ChunkSize \in Nat \ {0}
    /\ MaxBody \in Nat /\ HasReadTimeout \in BOOLEAN
    /\ ChunkLens \subseteq Nat /\ MaxChunks \in Nat
    /\ RespBodies \subseteq Seq(Nat)

Chunk == [from : Nat, to : Nat]

ASSUME ErrorAssumption == Error \notin Chunk

VARIABLES
    client,     \* "open", "eof" after FIN, "reset"
    sent,       \* chunks the client has sent
    received,   \* how many of them recv_data has returned
    reader,     \* read_http3_body
    held,       \* the item its sender.send is delivering
    total,      \* its running body size
    chan,       \* the mpsc channel
    rx,         \* who holds the Receiver: "handler", "response" or "closed"
    got,        \* chunks taken out of the channel by handler or response
    saw,        \* how the body stream ended for whoever reads it
    writer,     \* handle_http3_request_impl
    frames,     \* frames of the response body not yet read
    framed,     \* response bytes read from the body so far
    buf,        \* rest of the frame being chunked
    out         \* response chunks written

clientVars == <<client, sent>>
readerVars == <<reader, held, total>>
bodyVars == <<chan, rx, got, saw>>
writerVars == <<writer, frames, framed, buf, out>>
vars == <<client, sent, received, reader, held, total, chan, rx, got, saw,
          writer, frames, framed, buf, out>>

Items == Chunk \cup {Error}
Size(chunk) == chunk.to - chunk.from
EndOf(chunks) == IF chunks = <<>> THEN 0 ELSE chunks[Len(chunks)].to
ReaderEnded == reader \in {"ok", "err"}
AllReceived == received = Len(sent)

TypeOK ==
    /\ client \in {"open", "eof", "reset"}
    /\ sent \in Seq(Chunk) /\ received \in 0..Len(sent)
    /\ reader \in {"recv", "send", "ok", "err"}
    /\ held \in Seq(Items) /\ Len(held) <= 1
    /\ total \in Nat
    /\ chan \in Seq(Items) /\ Len(chan) <= Cap
    /\ rx \in {"handler", "response", "closed"}
    /\ got \in Seq(Chunk)
    /\ saw \in {"nothing", "end", "error"}
    /\ writer \in {"handler", "join", "head", "body", "done", "failed"}
    /\ frames \in Seq(Nat) /\ framed \in Nat /\ buf \in Nat
    /\ out \in Seq(Chunk)

Init ==
    /\ client = "open" /\ sent = <<>> /\ received = 0
    /\ reader = "recv" /\ held = <<>> /\ total = 0
    /\ chan = <<>> /\ rx = "handler" /\ got = <<>> /\ saw = "nothing"
    /\ writer = "handler" /\ frames = <<>> /\ framed = 0
    /\ buf = 0 /\ out = <<>>

-----------------------------------------------------------------------------
(* The client                                                              *)

ClientSend(n) ==
    /\ client = "open"
    /\ Len(sent) < MaxChunks
    /\ sent' = Append(sent, [from |-> EndOf(sent), to |-> EndOf(sent) + n])
    /\ UNCHANGED <<client, received, readerVars, bodyVars, writerVars>>

ClientEnd(how) ==
    /\ client = "open"
    /\ client' = how
    /\ UNCHANGED <<sent, received, readerVars, bodyVars, writerVars>>

-----------------------------------------------------------------------------
(* read_http3_body                                                         *)

TooLong(t) == t > MaxBody

\* Mutant: the limit is tested before the chunk is added.
RecvChunkLateLimit ==
    /\ reader = "recv"
    /\ ~AllReceived
    /\ received' = received + 1
    /\ LET bytes == sent[received + 1]
       IN  /\ total' = total + Size(bytes)
           /\ held' = <<IF TooLong(total) THEN Error ELSE bytes>>
           /\ reader' = "send"
    /\ UNCHANGED <<clientVars, bodyVars, writerVars>>

\* recv_data() returns a chunk: an empty one is skipped, one that takes the
\* total over the limit becomes an Err item, any other is forwarded.
RecvChunk ==
    /\ reader = "recv"
    /\ ~AllReceived
    /\ received' = received + 1
    /\ LET bytes == sent[received + 1]
       IN  /\ total' = total + Size(bytes)
           /\ IF Size(bytes) = 0
              THEN UNCHANGED <<reader, held>>
              ELSE /\ held' = <<IF TooLong(total') THEN Error ELSE bytes>>
                   /\ reader' = "send"
    /\ UNCHANGED <<clientVars, bodyVars, writerVars>>

\* recv_data() returns None: the sender is dropped with the task.
RecvEnd ==
    /\ reader = "recv"
    /\ AllReceived /\ client = "eof"
    /\ reader' = "ok"
    /\ UNCHANGED <<clientVars, received, held, total, bodyVars, writerVars>>

\* Mutant: the task bails without telling the body stream.
RecvFailSilent ==
    /\ reader = "recv"
    /\ \/ client = "reset"
       \/ HasReadTimeout /\ client = "open" /\ AllReceived
    /\ reader' = "err"
    /\ UNCHANGED <<clientVars, received, held, total, bodyVars, writerVars>>

\* recv_data() fails, or the read timeout fires with nothing to read: an Err
\* item is delivered before the task ends with an error.
RecvFail ==
    /\ reader = "recv"
    /\ \/ client = "reset"
       \/ HasReadTimeout /\ client = "open" /\ AllReceived
    /\ held' = <<Error>>
    /\ reader' = "send"
    /\ UNCHANGED <<clientVars, received, total, bodyVars, writerVars>>

Deliverable == rx # "closed" /\ Len(chan) < Cap

\* Mutant: try_send, the chunk is dropped when the channel is full.
SendItemTry ==
    /\ reader = "send"
    /\ chan' = IF Deliverable THEN chan \o held ELSE chan
    /\ reader' = IF held = <<Error>> THEN "err" ELSE "recv"
    /\ held' = <<>>
    /\ UNCHANGED <<clientVars, received, total, rx, got, saw, writerVars>>

\* Mutant: the send goes on waiting after the receiver is gone.
SendItemDeaf ==
    /\ reader = "send"
    /\ Deliverable
    /\ chan' = chan \o held
    /\ reader' = IF held = <<Error>> THEN "err" ELSE "recv"
    /\ held' = <<>>
    /\ UNCHANGED <<clientVars, received, total, rx, got, saw, writerVars>>

\* sender.send(..).await completes: there is room, or the receiver is gone
\* (a chunk then ends the task early with Ok, an Err item is ignored).
SendItem ==
    /\ reader = "send"
    /\ \/ /\ Deliverable
          /\ chan' = chan \o held
          /\ reader' = IF held = <<Error>> THEN "err" ELSE "recv"
       \/ /\ rx = "closed"
          /\ UNCHANGED chan
          /\ reader' = IF held = <<Error>> THEN "err" ELSE "ok"
    /\ held' = <<>>
    /\ UNCHANGED <<clientVars, received, total, rx, got, saw, writerVars>>

ReaderStep == RecvChunk \/ RecvEnd \/ RecvFail \/ SendItem

-----------------------------------------------------------------------------
(* Reading the request body: ReceiverStream, by the handler or by the      *)
(* response that took it over                                              *)

PopItem ==
    /\ chan # <<>>
    /\ chan' = Tail(chan)
    /\ IF Head(chan) = Error
       THEN saw' = "error" /\ UNCHANGED got
       ELSE got' = Append(got, Head(chan)) /\ UNCHANGED saw
    /\ UNCHANGED rx

\* Mutant: a stream that has ended is pending when it is polled again.
PopEndOnce ==
    /\ chan = <<>> /\ ReaderEnded /\ saw = "nothing"
    /\ saw' = "end"
    /\ UNCHANGED <<chan, rx, got>>

\* The sender is gone: None, however often it is asked for.
PopEnd ==
    /\ chan = <<>> /\ ReaderEnded /\ saw # "error"
    /\ saw' = "end"
    /\ UNCHANGED <<chan, rx, got>>

HandlerRead ==
    /\ writer = "handler" /\ rx = "handler"
    /\ PopItem \/ PopEnd
    /\ UNCHANGED <<clientVars, received, readerVars, writerVars>>

\* The handler returns a response that does not use the request body, which
\* is dropped with the Request.
HandlerReturn(body) ==
    /\ writer = "handler"
    /\ writer' = "join"
    /\ frames' = body
    /\ rx' = "closed" /\ chan' = <<>>
    /\ UNCHANGED <<clientVars, received, readerVars, got, saw, framed, buf, out>>

\* The handler returns a response whose body is the rest of the request body,
\* which may be nothing.
HandlerReturnStream ==
    /\ writer = "handler"
    /\ writer' = "join"
    /\ rx' = "response"
    /\ UNCHANGED <<clientVars, received, readerVars, chan, got, saw, frames, framed,
                   buf, out>>

\* A panic unwinds the request task; the reader task is detached.
HandlerPanic ==
    /\ writer = "handler"
    /\ writer' = "failed"
    /\ rx' = "closed" /\ chan' = <<>>
    /\ UNCHANGED <<clientVars, received, readerVars, got, saw, frames, framed, buf,
                   out>>

-----------------------------------------------------------------------------
(* handle_http3_request_impl after the handler                             *)

\* Giving up drops the response and with it a request body it holds.
Fail ==
    /\ writer' = "failed"
    /\ rx' = "closed" /\ chan' = <<>>
    /\ UNCHANGED <<frames, framed, buf, out, got, saw>>

\* Mutant: a failed reader only costs the response the request body.
JoinReaderAny ==
    /\ writer = "join"
    /\ ReaderEnded
    /\ writer' = "head"
    /\ IF reader = "err" THEN rx' = "closed" /\ chan' = <<>>
                         ELSE UNCHANGED <<rx, chan>>
    /\ UNCHANGED <<frames, framed, buf, out, clientVars, received, readerVars,
                   got, saw>>

\* read_task.await??: the stream comes back, or the request is abandoned.
JoinReader ==
    /\ writer = "join"
    /\ \/ reader = "err" /\ Fail
       \/ reader = "ok" /\ writer' = "head"
          /\ UNCHANGED <<frames, framed, buf, out, bodyVars>>
    /\ UNCHANGED <<clientVars, received, readerVars>>

SendHead ==
    /\ writer = "head"
    /\ writer' = "body"
    /\ UNCHANGED <<frames, framed, buf, out, clientVars, received, readerVars,
                   bodyVars>>

\* body.frame() of a response built by the handler, or of the request body; an
\* Err frame is a WriteFail.
NextFrame ==
    /\ writer = "body" /\ buf = 0
    /\ \/ /\ frames # <<>>
          /\ buf' = Head(frames)
          /\ frames' = Tail(frames)
          /\ UNCHANGED bodyVars
       \/ /\ rx = "response" /\ chan # <<>> /\ Head(chan) # Error
          /\ PopItem
          /\ buf' = Size(Head(chan))
          /\ UNCHANGED frames
    /\ framed' = framed + buf'
    /\ UNCHANGED <<writer, out, clientVars, received, readerVars>>

\* Mutant: the last, shorter chunk of a frame is dropped.
SendChunkShort ==
    /\ writer = "body" /\ buf > 0
    /\ IF buf < ChunkSize
       THEN buf' = 0 /\ UNCHANGED out
       ELSE /\ buf' = buf - ChunkSize
            /\ out' = Append(out, [from |-> framed - buf,
                                   to |-> framed - buf + ChunkSize])
    /\ UNCHANGED <<writer, frames, framed, clientVars, received, readerVars,
                   bodyVars>>

\* split_to(min(len, h3_chunk_size)) and send_data.
SendChunk ==
    /\ writer = "body" /\ buf > 0
    /\ LET n == IF buf < ChunkSize THEN buf ELSE ChunkSize
       IN  /\ buf' = buf - n
           /\ out' = Append(out, [from |-> framed - buf,
                                  to |-> framed - buf + n])
    /\ UNCHANGED <<writer, frames, framed, clientVars, received, readerVars,
                   bodyVars>>

\* body.frame() returns None, and finish() completes.
Finish ==
    /\ writer = "body" /\ buf = 0 /\ frames = <<>>
    /\ \/ rx = "response" /\ PopEnd
       \/ rx = "closed" /\ UNCHANGED bodyVars
    /\ writer' = "done"
    /\ UNCHANGED <<frames, framed, buf, out, clientVars, received, readerVars>>

\* send_response, body.frame, send_data or finish fails.
WriteFail ==
    /\ writer \in {"head", "body"}
    /\ Fail
    /\ UNCHANGED <<clientVars, received, readerVars>>

\* The write loop as long as nothing fails.
WriteStep == SendHead \/ NextFrame \/ SendChunk \/ Finish

WriterStep == JoinReader \/ WriteStep \/ WriteFail

-----------------------------------------------------------------------------

Next ==
    \/ \E n \in ChunkLens : ClientSend(n)
    \/ \E how \in {"eof", "reset"} : ClientEnd(how)
    \/ ReaderStep
    \/ HandlerRead \/ HandlerReturnStream \/ HandlerPanic
    \/ \E body \in RespBodies : HandlerReturn(body)
    \/ WriterStep

\* Both tasks are polled and the read timeout fires.  Neither the client nor
\* the handler is assumed to make progress, and so no write is: send_response,
\* send_data and finish have no timeout and wait for the client's flow control.
Fairness == WF_vars(ReaderStep) /\ WF_vars(JoinReader)

Spec == Init /\ [][Next]_vars /\ Fairness

-----------------------------------------------------------------------------
(* Properties                                                              *)

\* A chunk that is not empty and begins where the one before it ends.
Follows(chunks, i) ==
    /\ chunks[i].from = (IF i = 1 THEN 0 ELSE chunks[i - 1].to)
    /\ chunks[i].from < chunks[i].to

Gapless(chunks) == \A i \in DOMAIN chunks : Follows(chunks, i)

ReceivedWhole == client = "eof" /\ Gapless(got) /\ EndOf(got) = EndOf(sent)

UnderWay == IF rx = "closed" THEN <<>> ELSE chan \o held
Delivered == got \o UnderWay

\* What the handler reads is, in order and without loss or duplication, the
\* beginning of what the client sent, and so is what is still under way to it,
\* up to an error, which comes last; and it is never more than max_body_size
\* bytes, however the chunks are cut.
BodyIntact ==
    \A i \in DOMAIN Delivered :
        IF Delivered[i] = Error
        THEN i = Len(Delivered)
        ELSE /\ Follows(Delivered, i)
             /\ Delivered[i].to <= MaxBody /\ Delivered[i].to <= EndOf(sent)

\* A clean end of the body stream means the whole body was read: a reset, a
\* timeout or an oversized body always reaches the reader as an error first.
EndMeansComplete == saw = "end" => ReceivedWhole

\* A response is only written on a stream whose request body did not fail: no
\* client that was cut off for size, timeout or reset gets a response.
NoResponseAfterBadBody ==
    out # <<>> \/ writer = "done" =>
        reader = "ok" /\ saw # "error" /\ total <= MaxBody

\* A finished response carries every byte of its frames, in chunks no longer
\* than h3_chunk_size, and an echo of the request body all of that body.
ResponseComplete ==
    writer = "done" =>
        /\ Gapless(out) /\ EndOf(out) = framed
        /\ \A i \in DOMAIN out : Size(out[i]) <= ChunkSize
        /\ rx = "response" => ReceivedWhole

\* With a read timeout the wait for the reader ends, unless the response holds
\* on to a request body of as many chunks as the channel has room for: the
\* reader then waits for the writer, which waits for the reader.
Fits ==
    rx = "response" =>
        Cardinality({i \in DOMAIN sent : Size(sent[i]) > 0}) < Cap

JoinEnds ==
    (writer = "join" /\ Fits) ~> (writer # "join" \/ ~Fits)

\* After the join nothing inside the server holds the response up: its next
\* frame, chunk or FIN can be written as soon as the client takes it, also when
\* the body is a request body the handler has read a part or all of.
WriterNeverStuck == writer \in {"head", "body"} => ENABLED WriteStep

=============================================================================
