--------------------------- MODULE QuicConnection ---------------------------
(***************************************************************************)
(* One QUIC connection of the server (server/quic/service.rs).  The future *)
(* handle_quic_connection, which is the connection task of NetServer,      *)
(* accepts HTTP/3 requests and spawns a detached task for each; the task   *)
(* resolves the request and serves it, or opens a WebTransport session and *)
(* gives its stream to a handler: the default EchoHandler (echo.rs), or    *)
(* one of the user's, which may also send and receive datagrams.           *)
(*                                                                         *)
(* Module H3Request has the inside of a plain request.  Sessions share     *)
(* nothing but the connection, so one of them, Focus, is modelled down to  *)
(* its bucket (module Datagram) and its stream, on which the client sends  *)
(* numbered chunks.  quinn and h3 are external.                            *)
(***************************************************************************)
EXTENDS Datagram, Sequences

CONSTANTS
    Requests,   \* requests of the connection
    Focus,      \* the one that may become the observed session
    MaxChunk    \* bound: chunks the client sends on its stream

ASSUME QuicAssumption == Focus \in Requests /\ MaxChunk \in Nat

VARIABLES
    link,       \* the QUIC connection: "up" or "lost"
    loop,       \* handle_quic_connection
    task,       \* the detached task of each request
    handler,    \* the WebTransportHandler: "echo" or "user"
    chunks,     \* chunks the client has sent: the kind of each
    fin,        \* the client has ended its stream
    payload,    \* chunks EchoHandler has collected
    reply       \* what it has sent back: one message, or none

streamVars == <<chunks, fin>>
echoVars == <<payload, reply>>
vars == <<bucketVars, link, loop, task, handler, streamVars, echoVars>>

\* Text, bytes that are not UTF-8, and a chunk beyond max_frame_size.
Kind == {"text", "bytes", "big"}

TaskState == {"none", "resolving", "plain", "answering", "opening", "session",
              "replying", "ended"}

TypeOK ==
    /\ BucketTypeOK
    /\ link \in {"up", "lost"}
    /\ loop \in {"handshake", "building", "accepting", "ended"}
    /\ task \in [Requests -> TaskState]
    /\ handler \in {"echo", "user"}
    /\ chunks \in Seq(Kind) /\ fin \in BOOLEAN
    /\ payload \in Seq(1..MaxChunk) /\ reply \in Seq(Seq(0..MaxChunk))

Init ==
    /\ BucketInit
    /\ link = "up" /\ loop = "handshake"
    /\ task = [r \in Requests |-> "none"]
    /\ handler \in {"echo", "user"}
    /\ chunks = <<>> /\ fin = FALSE
    /\ payload = <<>> /\ reply = <<>>

Goto(r, from_, to) == task[r] = from_ /\ task' = [task EXCEPT ![r] = to]

-----------------------------------------------------------------------------
(* The connection future                                                   *)

OutsideLoop == UNCHANGED <<bucketVars, handler, streamVars, echoVars>>

\* incoming.await and the h3 builder: an error ends the future.
Establish ==
    /\ \/ loop = "handshake" /\ loop' \in {"building", "ended"}
       \/ loop = "building" /\ loop' \in {"accepting", "ended"}
    /\ link = "lost" => loop' = "ended"
    /\ UNCHANGED <<link, task>> /\ OutsideLoop

\* accept() returns a request: its task is spawned and forgotten.
Accept(r) ==
    /\ loop = "accepting" /\ link = "up"
    /\ Goto(r, "none", "resolving")
    /\ UNCHANGED <<loop, link>> /\ OutsideLoop

\* Mutant: an error of accept() is logged and the loop goes on.
LeaveOnlyAtEnd ==
    /\ loop = "accepting" /\ link = "up" /\ loop' = "ended"
    /\ UNCHANGED <<link, task>> /\ OutsideLoop

\* accept() returns the end of the connection, or an error: both break.
Leave ==
    /\ loop = "accepting" /\ loop' = "ended"
    /\ UNCHANGED <<link, task>> /\ OutsideLoop

\* The server aborts the connection task in its forced shutdown.
Abort ==
    /\ loop # "ended" /\ loop' = "ended"
    /\ UNCHANGED <<link, task>> /\ OutsideLoop

\* The client closes, disappears, or h3 closes after the future is gone.
Lose ==
    /\ link = "up" /\ link' = "lost"
    /\ UNCHANGED <<loop, task>> /\ OutsideLoop

-----------------------------------------------------------------------------
(* The task of a request                                                   *)

OutsideTask == UNCHANGED <<link, loop, handler, streamVars>>

\* resolve_request: a plain request, an extended CONNECT, or an error.
Resolve(r, to) ==
    /\ Goto(r, "resolving", to)
    /\ link = "lost" => to = "ended"
    /\ UNCHANGED <<bucketVars, echoVars>> /\ OutsideTask

\* handle_http3_request returns, and the session of any other request.
Serve(r) ==
    /\ \/ Goto(r, "plain", "ended")
       \/ r # Focus /\ Goto(r, "answering", "ended")
    /\ UNCHANGED <<bucketVars, echoVars>> /\ OutsideTask

\* The handshake response is sent and the stream made ...
Answer ==
    /\ Goto(Focus, "answering", "opening") /\ link = "up"
    /\ NewStream
    /\ UNCHANGED <<now, reading, result, charged, calls, from, echoVars>>
    /\ OutsideTask

\* ... or not.
AnswerErr ==
    /\ Goto(Focus, "answering", "ended")
    /\ UNCHANGED <<bucketVars, echoVars>> /\ OutsideTask

\* The empty datagram of try_send_datagram takes a token; its result is ignored.
Open(accepted) ==
    /\ Goto(Focus, "opening", "session")
    /\ accepted => link = "up"
    /\ TrySend(TRUE, accepted)
    /\ UNCHANGED echoVars /\ OutsideTask

-----------------------------------------------------------------------------
(* EchoHandler                                                             *)

Echoing == handler = "echo" /\ task[Focus] = "session"
Pending == Len(payload) + 1

EchoChunk ==
    /\ Echoing /\ Pending <= Len(chunks) /\ chunks[Pending] # "big"
    /\ RecvData("ok")
    /\ payload' = Append(payload, Pending)
    /\ UNCHANGED <<task, reply>> /\ OutsideTask

\* The frame limit of recv_data leaves the handler.
EchoOver ==
    /\ Echoing /\ Pending <= Len(chunks) /\ chunks[Pending] = "big"
    /\ RecvData("oversize")
    /\ Goto(Focus, "session", "ended")
    /\ UNCHANGED echoVars /\ OutsideTask

EchoEnd ==
    /\ Echoing /\ Pending > Len(chunks) /\ fin
    /\ RecvData("closed")
    /\ Goto(Focus, "session", "replying")
    /\ UNCHANGED echoVars /\ OutsideTask

\* Mutant: what was collected until an error is answered.
EchoErrAnswers ==
    /\ Echoing
    /\ RecvDataErr
    /\ Goto(Focus, "session", "replying")
    /\ UNCHANGED echoVars /\ OutsideTask

\* The connection is lost, the stream reset or its read timed out.
EchoErr ==
    /\ Echoing
    /\ RecvDataErr
    /\ Goto(Focus, "session", "ended")
    /\ UNCHANGED echoVars /\ OutsideTask

\* from_utf8 of the whole payload: 0 stands for "<binary>".
Message(read) ==
    IF \E i \in DOMAIN read : chunks[read[i]] = "bytes" THEN <<0>> ELSE read

\* send_data, then finish; either may fail.
Reply(delivered) ==
    /\ Goto(Focus, "replying", "ended")
    /\ delivered => link = "up"
    /\ reply' = IF delivered THEN <<Message(payload)>> ELSE reply
    /\ UNCHANGED <<bucketVars, payload>> /\ OutsideTask

-----------------------------------------------------------------------------
(* A handler of the user: calls in any order                               *)

UserCall ==
    /\ handler = "user" /\ task[Focus] = "session"
    /\ \/ \E fits, accepted \in BOOLEAN :
             (accepted => link = "up") /\ TrySend(fits, accepted)
       \/ \E read \in {"ok", "oversize", "closed"} : RecvData(read)
       \/ RecvDataErr
       \/ RecvBegin
       \/ \E fits \in BOOLEAN : RecvDatagram(fits)
    /\ UNCHANGED <<task, echoVars>> /\ OutsideTask

\* read_datagram reports the end of the connection.
UserCut(how) ==
    /\ link = "lost"
    /\ RecvClosed(how)
    /\ UNCHANGED <<task, echoVars>> /\ OutsideTask

UserReturn ==
    /\ handler = "user" /\ ~reading
    /\ Goto(Focus, "session", "ended")
    /\ UNCHANGED <<bucketVars, echoVars>> /\ OutsideTask

-----------------------------------------------------------------------------
(* The client's side of the stream                                         *)

\* Only EchoHandler tells chunks apart.
Streaming ==
    link = "up" /\ handler = "echo" /\ task[Focus] = "session" /\ ~fin

SendChunk(kind) ==
    /\ Streaming /\ Len(chunks) < MaxChunk
    /\ chunks' = Append(chunks, kind)
    /\ UNCHANGED <<bucketVars, link, loop, task, handler, fin, echoVars>>

SendFin ==
    /\ Streaming
    /\ fin' = TRUE
    /\ UNCHANGED <<bucketVars, link, loop, task, handler, chunks, echoVars>>

\* Time matters to the bucket only, and only a handler of the user charges it.
Pass ==
    /\ handler = "user" /\ task[Focus] = "session"
    /\ Clock
    /\ UNCHANGED <<link, loop, task, handler, streamVars, echoVars>>

LoopStep == Establish \/ Leave

TaskStep(r) ==
    \/ \E to \in {"plain", "answering", "ended"} : Resolve(r, to)
    \/ Serve(r)

OpenStep ==
    Answer \/ AnswerErr \/ \E accepted \in BOOLEAN : Open(accepted)

EchoStep ==
    \/ EchoChunk \/ EchoOver \/ EchoEnd \/ EchoErr
    \/ \E delivered \in BOOLEAN : Reply(delivered)

CutStep == \E how \in {"closed", "failed"} : UserCut(how)

FocusStep == OpenStep \/ EchoStep \/ CutStep \/ UserReturn

Next ==
    \/ LoopStep \/ Abort \/ Lose
    \/ \E r \in Requests : Accept(r) \/ TaskStep(r)
    \/ FocusStep \/ UserCall
    \/ SendFin \/ \E kind \in Kind : SendChunk(kind)
    \/ Pass

\* Once the connection is lost, every await on it is over: accept() in the
\* loop, resolve_request, the set-up of a session, the reads and writes of
\* EchoHandler, read_datagram.  The handler of a plain request and one of the
\* user await what they like, and nothing cancels their tasks: they are not
\* assumed to return.
Fairness ==
    /\ WF_vars(link = "lost" /\ LoopStep)
    /\ \A r \in Requests :
          /\ WF_vars(link = "lost" /\ Resolve(r, "ended"))
          /\ WF_vars(link = "lost" /\ handler = "echo"
                         /\ task[r] = "answering" /\ Serve(r))
    /\ WF_vars(link = "lost" /\ OpenStep)
    /\ WF_vars(link = "lost" /\ EchoStep)
    /\ WF_vars(CutStep)

Spec == Init /\ [][Next]_vars /\ Fairness

-----------------------------------------------------------------------------
(* Properties                                                              *)

\* EchoHandler answers a session with what the client sent, all of it and in
\* order, or not at all: no read error, time-out, frame limit or lost
\* connection on the way makes it answer with less.
EchoWhole ==
    reply # <<>> =>
        /\ fin /\ \A i \in DOMAIN chunks : chunks[i] # "big"
        /\ reply[1] = Message([i \in DOMAIN chunks |-> i])

\* Code outside this module runs in the task: the handler of a plain request,
\* or a session's handler of the user (no other session is followed that far).
InUserCode(r) ==
    \/ task[r] = "plain"
    \/ /\ handler = "user"
       /\ task[r] = IF r = Focus THEN "session" ELSE "answering"

\* A lost connection leaves nothing of its own behind: its future returns, and
\* each of the tasks it spawned, though nobody joins or aborts them, is gone or
\* in the hands of user code, which is not left waiting for a datagram.
LostConnectionEnds ==
    link = "lost" ~>
        /\ loop = "ended" /\ ~reading
        /\ \A r \in Requests : task[r] \in {"none", "ended"} \/ InUserCode(r)

=============================================================================
