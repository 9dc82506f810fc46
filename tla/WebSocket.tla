------------------------------ MODULE WebSocket ------------------------------
(***************************************************************************)
(* One WebSocket of the server.  The hyper service puts the receiving end  *)
(* of a oneshot channel into the request and fills it once the connection  *)
(* has switched protocols (hyper_service.rs, upgrade.rs); the handler      *)
(* wrapper answers 101 and leaves a detached task waiting for it           *)
(* (handler_wrapper_websocket.rs); that task calls on_connect and starts   *)
(* the sending and the receiving task, detached as well (websocket.rs).    *)
(*                                                                         *)
(* Callbacks, middlewares and whoever holds the message channel are user   *)
(* code.  A message is its number; on_send may turn it into a close frame, *)
(* which is all of its content that the tasks tell apart.  hyper, the      *)
(* oneshot and tungstenite are external.  A callback that panics is left   *)
(* out.                                                                    *)
(***************************************************************************)
EXTENDS Naturals, Sequences

CONSTANTS
    MaxPush,    \* bound: messages pushed into the channel
    MaxFrames   \* bound: frames the peer sends

ASSUME WebSocketAssumption == MaxPush \in Nat /\ MaxFrames \in Nat

VARIABLES
    hooks,      \* callbacks the WebSocketHandler has
    service,    \* HyperServiceHandler::call and the task it spawns
    status,     \* status of the response, 0 before there is one
    slot,       \* AsyncUpgradeRx: "absent", "full" or "taken"
    oneshot,    \* "none", "pending", "sent" or "dropped"
    task,       \* the detached upgrade task
    queue,      \* the unbounded channel
    txs,        \* owners of a Sender of it
    pushed,     \* messages pushed so far
    refused,    \* of which on_send refused
    sender,     \* the sending task
    flight,     \* the message it works on
    written,    \* frames written to the socket
    receiver,   \* the receiving task
    peer,       \* "open", "closed" after a close frame, "gone"
    arrived,    \* frames it has sent
    wire,       \* of which the receiving task has not read
    fused,      \* the socket reported an error: its stream has ended
    shut,       \* a close frame was sent or received
    log         \* calls of on_connect, on_receive and on_close

upgradeVars == <<service, status, slot, oneshot>>
senderVars == <<refused, sender, flight, written>>
peerVars == <<peer, arrived, wire>>
vars == <<hooks, service, status, slot, oneshot, task, queue, txs, pushed,
          refused, sender, flight, written, receiver, peer, arrived, wire,
          fused, shut, log>>

Hooks == {"connect", "send", "receive", "close"}
Message == [id : 1..MaxPush, close : BOOLEAN]
Frame == {"data", "close", "bad"}

TypeOK ==
    /\ hooks \subseteq Hooks
    /\ service \in {"handling", "responding", "upgrading", "ended"}
    /\ status \in {0, 101, 400, 500}
    /\ slot \in {"absent", "full", "taken"}
    /\ oneshot \in {"none", "pending", "sent", "dropped"}
    /\ task \in {"none", "start", "waiting", "connecting", "open", "failed"}
    /\ queue \in Seq(Message) /\ txs \subseteq {"handle", "user"}
    /\ pushed \in 0..MaxPush /\ refused \subseteq 1..MaxPush
    /\ sender \in {"off", "idle", "filtering", "sending", "ended"}
    /\ flight \in Seq(Message) /\ written \in Seq(Message)
    /\ receiver \in {"off", "reading", "receiving", "closing", "ended"}
    /\ peer \in {"open", "closed", "gone"} /\ wire \in Seq(Frame)
    /\ arrived \in 0..MaxFrames
    /\ fused \in BOOLEAN /\ shut \in BOOLEAN
    /\ log \in Seq({"connect", "receive", "close"})

\* HyperServiceHandler::call up to the handler: hyper offers an upgrade
\* (OnUpgrade) or not, and with it goes the oneshot into the extensions.
Init ==
    /\ hooks \in SUBSET Hooks
    /\ service = "handling" /\ status = 0
    /\ \/ slot = "absent" /\ oneshot = "none"
       \/ slot = "full" /\ oneshot = "pending"
    /\ task = "none"
    /\ queue = <<>> /\ txs = {} /\ pushed = 0
    /\ refused = {} /\ sender = "off" /\ flight = <<>> /\ written = <<>>
    /\ receiver = "off" /\ peer = "open" /\ wire = <<>>
    /\ arrived = 0
    /\ fused = FALSE /\ shut = FALSE /\ log = <<>>

-----------------------------------------------------------------------------
(* The request                                                             *)

SocketIdle ==
    UNCHANGED <<hooks, queue, txs, pushed, senderVars, receiver, peerVars,
                fused, shut, log>>

\* A middleware takes the receiver out of the shared slot before the handler
\* is called; the slot is an Arc, so the extension itself stays.
TakeSlot ==
    /\ service = "handling" /\ status = 0 /\ slot = "full"
    /\ slot' = "taken"
    /\ UNCHANGED <<service, status, oneshot, task>> /\ SocketIdle

\* HandlerWrapperWebSocket::call: websocket_handler checks the headers, and
\* only a good request leaves an upgrade task.
Call(good) ==
    /\ service = "handling" /\ status = 0
    /\ status' = IF good THEN 101 ELSE 400
    /\ task' = IF good THEN "start" ELSE task
    /\ UNCHANGED <<service, slot, oneshot>> /\ SocketIdle

\* The request fails before or after the handler (a middleware, a timeout).
Fail ==
    /\ service = "handling" /\ status \in {0, 101}
    /\ status' = 500
    /\ UNCHANGED <<service, slot, oneshot, task>> /\ SocketIdle

\* The response future is done: with an OnUpgrade a task waits for hyper.
Respond ==
    /\ service = "handling" /\ status # 0
    /\ service' = IF oneshot = "pending" THEN "upgrading" ELSE "ended"
    /\ UNCHANGED <<status, slot, oneshot, task>> /\ SocketIdle

\* on_upgrade.await: hyper hands the connection over after a 101 ...
Upgrade ==
    /\ service = "upgrading" /\ status = 101
    /\ service' = "ended" /\ oneshot' = "sent"
    /\ UNCHANGED <<status, slot, task>> /\ SocketIdle

\* ... or fails, after any other response or when the connection is lost: tx
\* is dropped unused.
NoUpgrade ==
    /\ service = "upgrading"
    /\ service' = "ended" /\ oneshot' = "dropped"
    /\ UNCHANGED <<status, slot, task>> /\ SocketIdle

\* The connection is lost, or its task aborted, before the response: the
\* future is dropped and tx_opt with it.
Abandon ==
    /\ service = "handling"
    /\ service' = "ended"
    /\ oneshot' = IF oneshot = "pending" THEN "dropped" ELSE oneshot
    /\ UNCHANGED <<status, slot, task>> /\ SocketIdle

-----------------------------------------------------------------------------
(* The upgrade task: upgrade::on and WebSocket::handle                     *)

\* upgrade::on up to its await: no extension, or an empty slot, is an error.
TakeRx ==
    /\ task = "start"
    /\ task' = IF slot = "full" THEN "waiting" ELSE "failed"
    /\ slot' = IF slot = "full" THEN "taken" ELSE slot
    /\ UNCHANGED <<service, status, oneshot>> /\ SocketIdle

RxDropped ==
    /\ task = "waiting" /\ oneshot = "dropped"
    /\ task' = "failed"
    /\ UNCHANGED upgradeVars /\ SocketIdle

\* Both tasks are spawned and handle returns, which drops its own Sender.
Spawn ==
    /\ task' = "open"
    /\ sender' = "idle" /\ receiver' = "reading"

\* The socket arrives: handle creates the channel and calls on_connect with a
\* clone of the Sender, if there is one.
RxSent ==
    /\ task = "waiting" /\ oneshot = "sent"
    /\ \/ /\ "connect" \in hooks
          /\ task' = "connecting" /\ txs' = {"handle", "user"}
          /\ log' = Append(log, "connect")
          /\ UNCHANGED <<sender, receiver>>
       \/ /\ "connect" \notin hooks
          /\ Spawn
          /\ UNCHANGED <<txs, log>>
    /\ UNCHANGED <<hooks, upgradeVars, queue, pushed, refused, flight,
                   written, peerVars, fused, shut>>

\* Mutant: the Sender of handle lives on in one of the tasks.
OnConnectOkKeepsTx ==
    /\ task = "connecting"
    /\ Spawn
    /\ UNCHANGED <<hooks, upgradeVars, queue, txs, pushed, refused, flight,
                   written, peerVars, fused, shut, log>>

OnConnectOk ==
    /\ task = "connecting"
    /\ Spawn
    /\ txs' = txs \ {"handle"}
    /\ UNCHANGED <<hooks, upgradeVars, queue, pushed, refused, flight,
                   written, peerVars, fused, shut, log>>

\* An error of on_connect leaves by ?: socket and channel are dropped and
\* on_close is not called.
OnConnectErr ==
    /\ task = "connecting"
    /\ task' = "failed"
    /\ txs' = txs \ {"handle"} /\ queue' = <<>>
    /\ UNCHANGED <<hooks, upgradeVars, pushed, senderVars, receiver,
                   peerVars, fused, shut, log>>

-----------------------------------------------------------------------------
(* The message channel, in the hands of the user                           *)

\* Sender::send; it fails once the receiving end is gone.
Push(close) ==
    /\ "user" \in txs /\ pushed < MaxPush
    /\ task = "connecting" \/ sender \in {"idle", "filtering", "sending"}
    /\ pushed' = pushed + 1
    /\ queue' = Append(queue, [id |-> pushed + 1, close |-> close])
    /\ UNCHANGED <<hooks, upgradeVars, task, txs, senderVars, receiver,
                   peerVars, fused, shut, log>>

DropTx ==
    /\ "user" \in txs
    /\ txs' = txs \ {"user"}
    /\ UNCHANGED <<hooks, upgradeVars, task, queue, pushed, senderVars,
                   receiver, peerVars, fused, shut, log>>

-----------------------------------------------------------------------------
(* The sending task                                                        *)

OutsideSender ==
    UNCHANGED <<hooks, upgradeVars, task, txs, pushed, receiver, peerVars,
                fused, log>>

\* rx.recv() returns a message.
TakeMessage ==
    /\ sender = "idle" /\ queue # <<>>
    /\ flight' = <<Head(queue)>> /\ queue' = Tail(queue)
    /\ sender' = IF "send" \in hooks THEN "filtering" ELSE "sending"
    /\ UNCHANGED <<refused, written, shut>> /\ OutsideSender

\* rx.recv() fails: empty, and every Sender dropped.
ChannelClosed ==
    /\ sender = "idle" /\ queue = <<>> /\ txs = {}
    /\ sender' = "ended"
    /\ UNCHANGED <<queue, refused, flight, written, shut>> /\ OutsideSender

\* on_send returns the message, as it was or changed.
OnSendOk(close) ==
    /\ sender = "filtering"
    /\ sender' = "sending"
    /\ flight' = <<[flight[1] EXCEPT !.close = close]>>
    /\ UNCHANGED <<queue, refused, written, shut>> /\ OutsideSender

\* An error of on_send skips this message and continues.
OnSendErr ==
    /\ sender = "filtering"
    /\ sender' = "idle" /\ flight' = <<>>
    /\ refused' = refused \cup {flight[1].id}
    /\ UNCHANGED <<queue, written, shut>> /\ OutsideSender

\* ws_tx.send; a peer that is gone may still be written to for a while.
Write ==
    /\ sender = "sending" /\ ~shut
    /\ written' = written \o flight /\ flight' = <<>>
    /\ shut' = flight[1].close
    /\ sender' = "idle"
    /\ UNCHANGED <<queue, refused>> /\ OutsideSender

\* Mutant: after a failed send the loop goes on.
WriteErrContinues ==
    /\ sender = "sending" /\ (shut \/ peer = "gone")
    /\ sender' = "idle" /\ flight' = <<>>
    /\ UNCHANGED <<queue, refused, written, shut>> /\ OutsideSender

\* It fails after a close frame in either direction and on a broken
\* connection: the loop breaks, and what is queued is dropped with rx.
WriteErr ==
    /\ sender = "sending" /\ (shut \/ peer = "gone")
    /\ sender' = "ended" /\ flight' = <<>> /\ queue' = <<>>
    /\ UNCHANGED <<refused, written, shut>> /\ OutsideSender

-----------------------------------------------------------------------------
(* The receiving task                                                      *)

OutsideReceiver ==
    UNCHANGED <<hooks, upgradeVars, task, queue, txs, pushed, senderVars,
                peer, arrived>>

\* The code after the loop: on_close, if there is one.
Leave ==
    /\ receiver' = IF "close" \in hooks THEN "closing" ELSE "ended"
    /\ log' = IF "close" \in hooks THEN Append(log, "close") ELSE log

\* ws_rx.next() is an error: the loop ignores it, but the stream has ended.
ReadBad ==
    /\ receiver = "reading" /\ wire # <<>> /\ Head(wire) = "bad"
    /\ wire' = <<>> /\ fused' = TRUE
    /\ UNCHANGED <<receiver, shut, log>> /\ OutsideReceiver

ReadEnd ==
    /\ receiver = "reading" /\ fused
    /\ Leave
    /\ UNCHANGED <<wire, fused, shut>> /\ OutsideReceiver

ReadClose ==
    /\ receiver = "reading" /\ wire # <<>> /\ Head(wire) = "close"
    /\ wire' = Tail(wire) /\ shut' = TRUE
    /\ Leave
    /\ UNCHANGED fused /\ OutsideReceiver

ReadData ==
    /\ receiver = "reading" /\ wire # <<>> /\ Head(wire) = "data"
    /\ wire' = Tail(wire)
    /\ \/ /\ "receive" \in hooks
          /\ receiver' = "receiving" /\ log' = Append(log, "receive")
       \/ "receive" \notin hooks /\ UNCHANGED <<receiver, log>>
    /\ UNCHANGED <<fused, shut>> /\ OutsideReceiver

OnReceiveOk ==
    /\ receiver = "receiving"
    /\ receiver' = "reading"
    /\ UNCHANGED <<wire, fused, shut, log>> /\ OutsideReceiver

\* Mutant: an error of on_receive calls on_close and goes on reading.
OnReceiveErrContinues ==
    /\ receiver = "receiving"
    /\ receiver' = "reading" /\ log' = Append(log, "close")
    /\ UNCHANGED <<wire, fused, shut>> /\ OutsideReceiver

\* An error of on_receive ends the loop; the socket stays open to the sender.
OnReceiveErr ==
    /\ receiver = "receiving"
    /\ Leave
    /\ UNCHANGED <<wire, fused, shut>> /\ OutsideReceiver

OnCloseDone ==
    /\ receiver = "closing"
    /\ receiver' = "ended"
    /\ UNCHANGED <<wire, fused, shut, log>> /\ OutsideReceiver

-----------------------------------------------------------------------------
(* The peer                                                                *)

Connected == oneshot = "sent"

PeerSend(f) ==
    /\ Connected /\ peer = "open" /\ arrived < MaxFrames
    /\ arrived' = arrived + 1
    /\ wire' = Append(wire, f)
    /\ peer' = IF f = "close" THEN "closed" ELSE peer
    /\ UNCHANGED <<hooks, upgradeVars, task, queue, txs, pushed, senderVars,
                   receiver, fused, shut, log>>

\* The connection breaks: the next read, after what has arrived, is an error.
PeerGone ==
    /\ Connected /\ peer # "gone"
    /\ peer' = "gone" /\ wire' = Append(wire, "bad")
    /\ UNCHANGED <<arrived, hooks, upgradeVars, task, queue, txs, pushed, senderVars,
                   receiver, fused, shut, log>>

ServiceStep ==
    \/ TakeSlot \/ \E good \in BOOLEAN : Call(good)
    \/ Fail \/ Respond \/ Upgrade \/ NoUpgrade \/ Abandon

TaskStep ==
    TakeRx \/ RxDropped \/ RxSent \/ OnConnectOk \/ OnConnectErr

SenderStep ==
    \/ TakeMessage \/ ChannelClosed \/ WriteErr
    \/ \E close \in BOOLEAN : OnSendOk(close)
    \/ OnSendErr

ReceiverStep ==
    \/ ReadBad \/ ReadEnd \/ ReadClose \/ ReadData
    \/ OnReceiveOk \/ OnReceiveErr \/ OnCloseDone

UserStep == DropTx \/ \E close \in BOOLEAN : Push(close)

PeerStep == PeerGone \/ \E f \in Frame : PeerSend(f)

Next ==
    \/ ServiceStep \/ TaskStep \/ SenderStep \/ Write \/ ReceiverStep
    \/ UserStep \/ PeerStep

\* The executors poll every task that can run, hyper settles every request
\* and every upgrade, and callbacks return.  A write ends once the peer is
\* gone; a peer that stays may stop reading, and then it need not.
Fairness ==
    /\ WF_vars(ServiceStep) /\ WF_vars(TaskStep)
    /\ WF_vars(SenderStep) /\ WF_vars(ReceiverStep)
    /\ WF_vars(peer = "gone" /\ Write)

Spec == Init /\ [][Next]_vars /\ Fairness

-----------------------------------------------------------------------------
(* Properties                                                              *)

Ids(s) == {s[i].id : i \in DOMAIN s}
LastId(s) == IF s = <<>> THEN 0 ELSE s[Len(s)].id

\* s has, in order, the first n messages except those on_send refused.
Complete(s, n) ==
    /\ \A i, j \in DOMAIN s : i < j => s[i].id < s[j].id
    /\ Ids(s) = (1..n) \ refused

\* Nothing pushed into the channel is lost, doubled or overtaken: as long as
\* the sending task lives, written, current and queued messages are together,
\* in order, all that were pushed except those on_send refused; when it has
\* stopped, what was written is all of them up to the last one written, and
\* nothing follows a close frame.
DeliveredInOrder ==
    /\ IF sender = "ended"
       THEN Complete(written, LastId(written))
       ELSE task # "failed" => Complete(written \o flight \o queue, pushed)
    /\ \A i \in 1..(Len(written) - 1) : ~written[i].close

\* on_close is called at most once, after on_connect and every on_receive;
\* on_receive runs only between a successful on_connect and on_close; a socket
\* whose on_connect failed hears of neither.  on_send, which the sending task
\* calls, also after on_close, has no place in this order.
CallbackOrder ==
    /\ \A i \in DOMAIN log :
          /\ log[i] = "connect" => i = 1
          /\ log[i] = "close" => i = Len(log)
          /\ log[i] # "connect" /\ "connect" \in hooks => i > 1
    /\ task = "failed" => Len(log) <= 1
    /\ receiver = "ended" /\ "close" \in hooks
          => log # <<>> /\ log[Len(log)] = "close"

\* Every detached task ends.  The upgrade task waits for ever for no request,
\* whether refused by a middleware, abandoned, or not upgraded by hyper (which
\* settles OnUpgrade at the end of the connection if not before); a
\* peer that closes or disappears is noticed, and the receiving task, after
\* what had arrived and on_close, is over; and once the peer is gone and the
\* user has dropped its Sender, so is the sending task.
TasksEnd ==
    /\ task \in {"start", "waiting"} ~>
           task \in {"connecting", "open", "failed"}
    /\ receiver = "reading" /\ peer # "open" ~> receiver = "ended"
    /\ task = "open" /\ peer = "gone" /\ "user" \notin txs
           ~> sender = "ended" /\ receiver = "ended"

=============================================================================
