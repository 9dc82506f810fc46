--------------------------- MODULE WebSocketProofs ---------------------------
(***************************************************************************)
(* Theorems about WebSocket, for any number of messages and frames: what   *)
(* is pushed into the channel is neither lost, doubled nor overtaken, and  *)
(* the callbacks come in order.                                            *)
(***************************************************************************)
EXTENDS WebSocket, SequenceTheorems, TLAPS

-----------------------------------------------------------------------------
(* Sequences of messages                                                   *)

\* The fields of a message.
LEMMA MessageShape ==
    ASSUME NEW m \in Message
    PROVE  m.id \in 1..MaxPush /\ m.id \in Nat /\ m.close \in BOOLEAN
BY WebSocketAssumption DEF Message

\* Positions of a concatenation.
LEMMA Joined ==
    ASSUME NEW s \in Seq(Message), NEW t \in Seq(Message)
    PROVE  /\ s \o t \in Seq(Message) /\ Len(s \o t) = Len(s) + Len(t)
           /\ Len(s) \in Nat /\ Len(t) \in Nat
           /\ DOMAIN s = 1..Len(s) /\ DOMAIN t = 1..Len(t)
           /\ DOMAIN (s \o t) = 1..Len(s) + Len(t)
           /\ \A i \in 1..Len(s) : (s \o t)[i] = s[i]
           /\ \A i \in 1..Len(t) : (s \o t)[Len(s) + i] = t[i]
OBVIOUS

\* An element of a sequence of messages has a number.
LEMMA IdShape ==
    ASSUME NEW s \in Seq(Message), NEW i \in DOMAIN s
    PROVE  s[i] \in Message /\ s[i].id \in Nat /\ s[i].id \in Ids(s)
<1>1. s[i] \in Message
    OBVIOUS
<1>. QED
    BY <1>1, MessageShape DEF Ids

\* Only the numbers count.
LEMMA CompleteSame ==
    ASSUME NEW s \in Seq(Message), NEW t \in Seq(Message), NEW n \in Nat,
           Len(s) = Len(t), \A i \in 1..Len(s) : s[i].id = t[i].id,
           Complete(s, n)
    PROVE  Complete(t, n)
<1>1. DOMAIN s = 1..Len(s) /\ DOMAIN t = 1..Len(s)
    OBVIOUS
<1>2. Ids(s) = Ids(t)
    BY <1>1 DEF Ids
<1>3. \A i, j \in DOMAIN t : i < j => t[i].id < t[j].id
    BY <1>1 DEF Complete
<1>. QED
    BY <1>2, <1>3 DEF Complete

\* One more message.
LEMMA CompletePush ==
    ASSUME NEW s \in Seq(Message), NEW n \in Nat, Complete(s, n),
           NEW m \in Message, m.id = n + 1, n + 1 \notin refused
    PROVE  Complete(Append(s, m), n + 1)
<1>. DEFINE t == Append(s, m)
<1>1. /\ Len(t) = Len(s) + 1 /\ DOMAIN t = 1..Len(s) + 1 /\ DOMAIN s = 1..Len(s)
      /\ Len(s) \in Nat /\ t[Len(s) + 1] = m
      /\ \A i \in 1..Len(s) : t[i] = s[i]
    OBVIOUS
<1>. HIDE DEF t
<1>2. Ids(t) = Ids(s) \cup {n + 1}
    BY <1>1 DEF Ids
<1>3. Ids(t) = (1..n + 1) \ refused
    BY <1>2 DEF Complete
<1>4. ASSUME NEW i \in DOMAIN t, NEW j \in DOMAIN t, i < j
      PROVE  t[i].id < t[j].id
    <2>1. i \in 1..Len(s) /\ i \in DOMAIN s
        BY <1>1, <1>4
    <2>2. s[i].id \in 1..n
        BY <2>1, IdShape DEF Complete
    <2>3. CASE j = Len(s) + 1
        BY <1>1, <2>1, <2>2, <2>3
    <2>4. CASE j \in 1..Len(s)
        BY <1>1, <1>4, <2>1, <2>4 DEF Complete
    <2>. QED
        BY <1>1, <2>3, <2>4
<1>. QED
    BY <1>3, <1>4 DEF Complete, t

\* What was written before a stop is complete up to its last message.
LEMMA CompletePrefix ==
    ASSUME NEW w \in Seq(Message), NEW t \in Seq(Message), NEW n \in Nat,
           Complete(w \o t, n)
    PROVE  Complete(w, LastId(w))
<1>. DEFINE s == w \o t
<1>1. /\ s \in Seq(Message) /\ Len(s) = Len(w) + Len(t)
      /\ Len(w) \in Nat /\ Len(t) \in Nat
      /\ DOMAIN w = 1..Len(w) /\ DOMAIN s = 1..Len(w) + Len(t)
      /\ \A i \in 1..Len(w) : s[i] = w[i]
    BY Joined
<1>2. \A i, j \in DOMAIN s : i < j => s[i].id < s[j].id
    BY DEF Complete
<1>3. Ids(s) = (1..n) \ refused
    BY DEF Complete
<1>. HIDE DEF s
<1>4. \A i, j \in DOMAIN w : i < j => w[i].id < w[j].id
    BY <1>1, <1>2
<1>5. CASE w = <<>>
    BY <1>5 DEF Complete, Ids, LastId
<1>6. CASE w # <<>>
    <2>1. Len(w) \in DOMAIN w /\ LastId(w) = w[Len(w)].id /\ LastId(w) \in Nat
        BY <1>1, <1>6, IdShape DEF LastId
    <2>2. ASSUME NEW k \in Ids(w) PROVE k \in (1..LastId(w)) \ refused
        <3>1. PICK i \in DOMAIN w : k = w[i].id
            BY <2>2 DEF Ids
        <3>2. i \in DOMAIN s /\ s[i].id = k
            BY <1>1, <3>1
        <3>3. k \in (1..n) \ refused
            BY <1>1, <1>3, <3>2, IdShape
        <3>4. i = Len(w) \/ i < Len(w)
            BY <1>1, <3>1
        <3>5. k <= LastId(w)
            BY <1>4, <2>1, <3>1, <3>3, <3>4
        <3>. QED
            BY <2>1, <3>3, <3>5
    <2>3. ASSUME NEW k \in (1..LastId(w)) \ refused PROVE k \in Ids(w)
        <3>1. LastId(w) \in 1..n
            <4>1. Len(w) \in DOMAIN s /\ s[Len(w)].id = LastId(w)
                BY <1>1, <2>1
            <4>. QED
                BY <1>1, <1>3, <4>1, IdShape
        <3>2. k \in Ids(s)
            BY <1>3, <2>3, <3>1
        <3>3. PICK i \in DOMAIN s : k = s[i].id
            BY <3>2 DEF Ids
        <3>4. i <= Len(w)
            <4>1. Len(w) \in DOMAIN s /\ s[Len(w)].id = LastId(w)
                BY <1>1, <2>1
            <4>2. ~(Len(w) < i)
                BY <1>2, <2>1, <2>3, <3>3, <4>1
            <4>. QED
                BY <1>1, <4>2
        <3>5. i \in DOMAIN w /\ w[i].id = k
            BY <1>1, <3>3, <3>4
        <3>. QED
            BY <3>5 DEF Ids
    <2>4. Ids(w) = (1..LastId(w)) \ refused
        BY <2>2, <2>3
    <2>. QED
        BY <1>4, <2>4 DEF Complete
<1>. QED
    BY <1>5, <1>6

\* A message is refused: it is taken out of the middle.
LEMMA CompleteRefuse ==
    ASSUME NEW w \in Seq(Message), NEW f \in Message, NEW q \in Seq(Message),
           NEW n \in Nat, Complete((w \o <<f>>) \o q, n)
    PROVE  /\ f.id \in (1..n) \ refused
           /\ \A i, j \in DOMAIN (w \o q) : i < j => (w \o q)[i].id < (w \o q)[j].id
           /\ Ids(w \o q) = (1..n) \ (refused \cup {f.id})
<1>. DEFINE s == (w \o <<f>>) \o q
            t == w \o q
            old(i) == IF i <= Len(w) THEN i ELSE i + 1
<1>1. /\ s \in Seq(Message) /\ t \in Seq(Message)
      /\ Len(w) \in Nat /\ Len(q) \in Nat
      /\ DOMAIN s = 1..Len(w) + 1 + Len(q) /\ DOMAIN t = 1..Len(w) + Len(q)
      /\ s[Len(w) + 1] = f
      /\ \A i \in 1..Len(w) : s[i] = w[i] /\ t[i] = w[i]
      /\ \A i \in 1..Len(q) : s[Len(w) + 1 + i] = q[i] /\ t[Len(w) + i] = q[i]
    <2>1. /\ w \o <<f>> \in Seq(Message) /\ Len(w \o <<f>>) = Len(w) + 1
          /\ \A i \in 1..Len(w) : (w \o <<f>>)[i] = w[i]
          /\ (w \o <<f>>)[Len(w) + 1] = f
        OBVIOUS
    <2>2. /\ s \in Seq(Message) /\ DOMAIN s = 1..Len(w \o <<f>>) + Len(q)
          /\ \A i \in 1..Len(w \o <<f>>) : s[i] = (w \o <<f>>)[i]
          /\ \A i \in 1..Len(q) : s[Len(w \o <<f>>) + i] = q[i]
        BY <2>1, Joined
    <2>3. /\ t \in Seq(Message) /\ DOMAIN t = 1..Len(w) + Len(q)
          /\ Len(w) \in Nat /\ Len(q) \in Nat
          /\ \A i \in 1..Len(w) : t[i] = w[i]
          /\ \A i \in 1..Len(q) : t[Len(w) + i] = q[i]
        BY Joined
    <2>. DEFINE v == w \o <<f>>
    <2>. HIDE DEF s, t, v
    <2>4. /\ Len(v) = Len(w) + 1 /\ v[Len(w) + 1] = f
          /\ \A i \in 1..Len(w) : v[i] = w[i]
        BY <2>1 DEF v
    <2>5. /\ DOMAIN s = 1..Len(v) + Len(q) /\ \A i \in 1..Len(v) : s[i] = v[i]
          /\ \A i \in 1..Len(q) : s[Len(v) + i] = q[i]
        BY <2>2 DEF v
    <2>6. Len(w) + 1 \in 1..Len(v) /\ 1..Len(w) \subseteq 1..Len(v)
        BY <2>3, <2>4
    <2>7. /\ s[Len(w) + 1] = f /\ \A i \in 1..Len(w) : s[i] = w[i]
        BY <2>4, <2>5, <2>6
    <2>8. /\ DOMAIN s = 1..Len(w) + 1 + Len(q)
          /\ \A i \in 1..Len(q) : s[Len(w) + 1 + i] = q[i]
        BY <2>4, <2>5
    <2>. QED
        BY <2>2, <2>3, <2>7, <2>8
<1>2. /\ \A i, j \in DOMAIN s : i < j => s[i].id < s[j].id
      /\ Ids(s) = (1..n) \ refused
    BY DEF Complete
<1>. HIDE DEF s, t
<1>3. ASSUME NEW i \in DOMAIN t
      PROVE  old(i) \in DOMAIN s /\ t[i] = s[old(i)] /\ old(i) # Len(w) + 1
    <2>1. CASE i <= Len(w)
        BY <1>1, <2>1
    <2>2. CASE i > Len(w)
        <3>1. i - Len(w) \in 1..Len(q)
            BY <1>1, <2>2
        <3>2. /\ Len(w) + (i - Len(w)) = i
              /\ Len(w) + 1 + (i - Len(w)) = i + 1
            BY <1>1, <2>2
        <3>3. t[i] = q[i - Len(w)] /\ s[i + 1] = q[i - Len(w)]
            BY <1>1, <3>1, <3>2
        <3>. QED
            BY <1>1, <2>2, <3>3
    <2>. QED
        BY <1>1, <2>1, <2>2
<1>4. ASSUME NEW i \in DOMAIN s, i # Len(w) + 1
      PROVE  \E k \in DOMAIN t : s[i] = t[k]
    <2>1. CASE i <= Len(w)
        BY <1>1, <2>1
    <2>2. CASE i > Len(w) + 1
        <3>1. i - 1 \in DOMAIN t /\ ~(i - 1 <= Len(w)) /\ (i - 1) + 1 = i
            BY <1>1, <2>2
        <3>2. t[i - 1] = s[i]
            BY <1>3, <3>1
        <3>. QED
            BY <3>1, <3>2
    <2>. QED
        BY <1>1, <1>4, <2>1, <2>2
<1>5. \A i, j \in DOMAIN t : i < j => t[i].id < t[j].id
    <2>. SUFFICES ASSUME NEW i \in DOMAIN t, NEW j \in DOMAIN t, i < j
                 PROVE  t[i].id < t[j].id
        OBVIOUS
    <2>1. old(i) < old(j)
        BY <1>1
    <2>2. /\ old(i) \in DOMAIN s /\ t[i] = s[old(i)]
          /\ old(j) \in DOMAIN s /\ t[j] = s[old(j)]
        BY <1>3
    <2>. QED
        BY <1>2, <2>1, <2>2
<1>6. Len(w) + 1 \in DOMAIN s /\ f.id \in Ids(s)
    BY <1>1 DEF Ids
<1>7. \A i \in DOMAIN s : i # Len(w) + 1 => s[i].id # f.id
    <2>. SUFFICES ASSUME NEW i \in DOMAIN s, i # Len(w) + 1
                 PROVE  s[i].id # f.id
        OBVIOUS
    <2>1. i < Len(w) + 1 \/ Len(w) + 1 < i
        BY <1>1
    <2>2. s[i].id < f.id \/ f.id < s[i].id
        BY <1>1, <1>2, <1>6, <2>1
    <2>3. s[i].id \in Nat /\ f.id \in Nat
        BY <1>1, IdShape, MessageShape
    <2>. QED
        BY <2>2, <2>3
<1>8. Ids(t) = Ids(s) \ {f.id}
    <2>1. ASSUME NEW k \in Ids(t) PROVE k \in Ids(s) /\ k # f.id
        <3>1. PICK i \in DOMAIN t : k = t[i].id
            BY <2>1 DEF Ids
        <3>2. old(i) \in DOMAIN s /\ t[i] = s[old(i)] /\ old(i) # Len(w) + 1
            BY <1>3
        <3>. HIDE DEF old
        <3>. QED
            BY <1>7, <3>1, <3>2 DEF Ids
    <2>2. ASSUME NEW k \in Ids(s), k # f.id PROVE k \in Ids(t)
        <3>1. PICK i \in DOMAIN s : k = s[i].id
            BY <2>2 DEF Ids
        <3>2. i # Len(w) + 1
            BY <1>1, <2>2, <3>1
        <3>3. PICK j \in DOMAIN t : s[i] = t[j]
            BY <1>4, <3>2
        <3>. QED
            BY <3>1, <3>3 DEF Ids
    <2>. QED
        BY <2>1, <2>2
<1>. QED
    BY <1>2, <1>5, <1>6, <1>8 DEF t

\* Taking the next message, and writing the current one, move it along.
LEMMA TakeSame ==
    ASSUME NEW w \in Seq(Message), NEW q \in Seq(Message), q # <<>>
    PROVE  /\ (w \o <<>>) \o q = (w \o <<Head(q)>>) \o Tail(q)
           /\ Head(q) \in Message /\ Tail(q) \in Seq(Message)
<1>1. /\ Head(q) \in Message /\ Tail(q) \in Seq(Message)
      /\ <<Head(q)>> \in Seq(Message) /\ q = <<Head(q)>> \o Tail(q)
    OBVIOUS
<1>2. w \o <<>> = w
    BY ConcatEmptySeq
<1>3. (w \o <<Head(q)>>) \o Tail(q) = w \o (<<Head(q)>> \o Tail(q))
    BY <1>1, ConcatAssociative
<1>. QED
    BY <1>1, <1>2, <1>3

-----------------------------------------------------------------------------
(* The invariant                                                           *)

Early == {"none", "start", "waiting"}

\* The sending and the receiving task exist exactly when handle has returned.
StageOK ==
    /\ sender = "off" <=> task # "open"
    /\ receiver = "off" <=> task # "open"
    /\ status = 0 => task = "none"

\* The sending task works on a message exactly between recv and send.
FlightOK ==
    IF sender \in {"filtering", "sending"} THEN Len(flight) = 1
                                           ELSE flight = <<>>

OrderOK ==
    /\ refused \subseteq 1..pushed
    /\ IF sender = "ended"
       THEN Complete(written, LastId(written))
       ELSE task # "failed" => Complete(written \o flight \o queue, pushed)

\* A close frame is the last one written, and tungstenite knows it.
ShutOK == \A i \in DOMAIN written : written[i].close => shut /\ i = Len(written)

\* The callbacks: on_connect first, on_close last.
LogOK ==
    /\ \A i \in DOMAIN log :
          /\ log[i] = "connect" => i = 1
          /\ log[i] = "close" => i = Len(log) /\ receiver \in {"closing", "ended"}
    /\ task \in Early => log = <<>>
    /\ task # "open" => Len(log) <= 1
    /\ "connect" \in hooks =>
          /\ task \in {"connecting", "open"} => log # <<>>
          /\ log # <<>> => log[1] = "connect"
    /\ receiver \in {"closing", "ended"} /\ "close" \in hooks =>
          log # <<>> /\ log[Len(log)] = "close"

IInv ==
    /\ TypeOK /\ StageOK /\ FlightOK /\ OrderOK /\ ShutOK /\ LogOK

\* The handler has not run and nothing was pushed.
LEMMA InitOK == Init => IInv
<1>. SUFFICES ASSUME Init PROVE IInv
    OBVIOUS
<1>1. TypeOK
    <2>1. \A S : <<>> \in Seq(S)
        OBVIOUS
    <2>2. 0 \in 0..MaxPush /\ 0 \in 0..MaxFrames
        BY WebSocketAssumption
    <2>3. /\ hooks \subseteq Hooks /\ slot \in {"absent", "full", "taken"}
          /\ oneshot \in {"none", "pending", "sent", "dropped"}
        BY DEF Init
    <2>. QED
        BY <2>1, <2>2, <2>3 DEF Init, TypeOK
<1>2. StageOK /\ FlightOK /\ ShutOK /\ LogOK
    BY DEF Init, StageOK, FlightOK, ShutOK, LogOK, Early
<1>3. OrderOK
    <2>1. written \o flight \o queue = <<>> /\ pushed = 0 /\ refused = {}
        BY DEF Init
    <2>2. Complete(<<>>, 0)
        BY <2>1 DEF Complete, Ids
    <2>. QED
        BY <2>1, <2>2 DEF Init, OrderOK
<1>. QED
    BY <1>1, <1>2, <1>3 DEF IInv

-----------------------------------------------------------------------------
(* The request and the upgrade task                                        *)

\* Steps before there is a socket.
LEMMA IdleOK ==
    ASSUME IInv, SocketIdle, TypeOK',
           \/ task' = task
           \/ task \in Early /\ task' \in {"start", "waiting", "failed"},
           status' = 0 => status = 0 /\ task' = task
    PROVE  IInv'
<1>1. UNCHANGED <<hooks, queue, txs, pushed, refused, sender, flight, written,
                  receiver, peer, arrived, wire, fused, shut, log>>
    BY DEF SocketIdle, senderVars, peerVars
<1>2. StageOK' /\ FlightOK' /\ ShutOK'
    BY <1>1 DEF IInv, StageOK, FlightOK, ShutOK, Early
<1>3. OrderOK'
    BY <1>1 DEF IInv, OrderOK, Early, Complete, Ids, LastId
<1>4. LogOK'
    BY <1>1 DEF IInv, LogOK, Early
<1>. QED
    BY <1>2, <1>3, <1>4 DEF IInv

\* The service.
LEMMA ServiceOK == ASSUME IInv, ServiceStep PROVE IInv'
<1>1. SocketIdle
    BY DEF ServiceStep, TakeSlot, Call, Fail, Respond, Upgrade, NoUpgrade,
       Abandon
<1>2. UNCHANGED <<hooks, queue, txs, pushed, refused, sender, flight, written,
                  receiver, peer, arrived, wire, fused, shut, log>>
    BY <1>1 DEF SocketIdle, senderVars, peerVars
<1>3. \/ task' = task
      \/ task \in Early /\ task' \in {"start", "waiting", "failed"}
    BY DEF ServiceStep, TakeSlot, Call, Fail, Respond, Upgrade, NoUpgrade,
       Abandon, IInv, StageOK, Early
<1>4. status' = 0 => status = 0 /\ task' = task
    BY DEF ServiceStep, TakeSlot, Call, Fail, Respond, Upgrade, NoUpgrade,
       Abandon
<1>5. TypeOK'
    BY <1>2
    DEF ServiceStep, TakeSlot, Call, Fail, Respond, Upgrade, NoUpgrade,
        Abandon, IInv, TypeOK
<1>. QED
    BY <1>1, <1>3, <1>4, <1>5, IdleOK

\* The upgrade task: it waits for the socket, and starts the others.
LEMMA TaskOK == ASSUME IInv, TaskStep PROVE IInv'
<1>1. CASE TakeRx \/ RxDropped
    <2>1. SocketIdle
        BY <1>1 DEF TakeRx, RxDropped
    <2>2. task \in Early /\ task' \in {"waiting", "failed"} /\ status' = status
        BY <1>1 DEF TakeRx, RxDropped, Early, upgradeVars
    <2>3. TypeOK'
        BY <1>1, <2>1
        DEF TakeRx, RxDropped, IInv, TypeOK, SocketIdle, senderVars, peerVars,
            upgradeVars
    <2>4. status' # 0
        BY <2>2, <1>1 DEF IInv, StageOK, TakeRx, RxDropped
    <2>. QED
        BY <2>1, <2>2, <2>3, <2>4, IdleOK
<1>2. CASE RxSent \/ OnConnectOk \/ OnConnectErr
    <2>1. /\ UNCHANGED <<hooks, service, status, slot, oneshot, pushed, refused,
                         flight, written, peer, arrived, wire, fused, shut>>
          /\ task \in {"waiting", "connecting"}
          /\ task' \in {"connecting", "open", "failed"}
          /\ sender = "off" /\ receiver = "off" /\ status # 0
        BY <1>2
        DEF RxSent, OnConnectOk, OnConnectErr, Spawn, upgradeVars, senderVars,
            peerVars, IInv, StageOK
    <2>2. /\ task' = "open" => sender' = "idle" /\ receiver' = "reading"
          /\ task' # "open" => sender' = "off" /\ receiver' = "off"
          /\ queue' = queue \/ (task' = "failed" /\ queue' = <<>>)
          /\ txs' \subseteq {"handle", "user"}
        BY <1>2, <2>1
        DEF RxSent, OnConnectOk, OnConnectErr, Spawn, senderVars, IInv, TypeOK
    <2>3. \/ /\ task = "waiting" /\ log = <<>> /\ "connect" \in hooks
             /\ log' = <<"connect">> /\ task' = "connecting"
          \/ /\ task = "waiting" /\ log = <<>> /\ "connect" \notin hooks
             /\ log' = <<>> /\ task' = "open"
          \/ /\ task = "connecting" /\ log' = log /\ task' \in {"open", "failed"}
        <3>1. task = "waiting" => log = <<>>
            BY DEF IInv, LogOK, Early
        <3>2. Append(<<>>, "connect") = <<"connect">>
            OBVIOUS
        <3>. QED
            BY <1>2, <3>1, <3>2 DEF RxSent, OnConnectOk, OnConnectErr, Spawn
    <2>4. TypeOK'
        <3>1. queue' \in Seq(Message)
            <4>1. <<>> \in Seq(Message)
                OBVIOUS
            <4>. QED
                BY <2>2, <4>1 DEF IInv, TypeOK
        <3>2. log' \in Seq({"connect", "receive", "close"})
            <4>1. /\ <<>> \in Seq({"connect", "receive", "close"})
                  /\ <<"connect">> \in Seq({"connect", "receive", "close"})
                OBVIOUS
            <4>. QED
                BY <2>3, <4>1 DEF IInv, TypeOK
        <3>. QED
            BY <2>1, <2>2, <3>1, <3>2 DEF IInv, TypeOK
    <2>5. StageOK' /\ FlightOK' /\ ShutOK'
        BY <2>1, <2>2 DEF IInv, StageOK, FlightOK, ShutOK
    <2>6. OrderOK'
        BY <2>1, <2>2 DEF IInv, OrderOK, Complete, Ids
    <2>7. LogOK'
        <3>1. CASE log' = <<"connect">> /\ task' = "connecting"
            BY <2>1, <2>2, <3>1 DEF LogOK, Early
        <3>2. CASE log' = <<>> /\ task' = "open" /\ "connect" \notin hooks
            BY <2>1, <2>2, <3>2 DEF LogOK, Early
        <3>3. CASE task = "connecting" /\ log' = log /\ task' \in {"open", "failed"}
            BY <2>1, <2>2, <3>3 DEF IInv, LogOK, Early
        <3>. QED
            BY <2>3, <3>1, <3>2, <3>3
    <2>. QED
        BY <2>4, <2>5, <2>6, <2>7 DEF IInv
<1>. QED
    BY <1>1, <1>2 DEF TaskStep

-----------------------------------------------------------------------------
(* The channel and the sending task                                        *)

\* The sequences of a typed state.
LEMMA Shapes ==
    ASSUME TypeOK
    PROVE  /\ queue \in Seq(Message) /\ flight \in Seq(Message)
           /\ written \in Seq(Message) /\ written \o flight \in Seq(Message)
           /\ (written \o flight) \o queue \in Seq(Message) /\ pushed \in Nat
<1>1. /\ queue \in Seq(Message) /\ flight \in Seq(Message)
      /\ written \in Seq(Message) /\ pushed \in Nat
    BY WebSocketAssumption DEF TypeOK
<1>2. written \o flight \in Seq(Message)
    BY <1>1, ConcatProperties
<1>. QED
    BY <1>1, <1>2, ConcatProperties

\* Steps of user and peer that the tasks do not see.
LEMMA OutsideOK ==
    ASSUME IInv, TypeOK',
           UNCHANGED <<hooks, status, task, queue, pushed, refused, sender,
                       flight, written, receiver, shut, log>>
    PROVE  IInv'
<1>1. StageOK' /\ FlightOK' /\ ShutOK' /\ LogOK'
    BY DEF IInv, StageOK, FlightOK, ShutOK, LogOK
<1>2. OrderOK'
    BY DEF IInv, OrderOK, Complete, Ids, LastId
<1>. QED
    BY <1>1, <1>2 DEF IInv

\* The user pushes a message, or lets go of the channel.
LEMMA UserOK == ASSUME IInv, UserStep PROVE IInv'
<1>1. CASE DropTx
    <2>1. TypeOK'
        BY <1>1
        DEF DropTx, IInv, TypeOK, upgradeVars, senderVars, peerVars
    <2>. QED
        BY <1>1, <2>1, OutsideOK DEF DropTx, upgradeVars, senderVars
<1>2. ASSUME NEW close \in BOOLEAN, Push(close) PROVE IInv'
    <2>. DEFINE m == [id |-> pushed + 1, close |-> close]
    <2>1. /\ pushed < MaxPush /\ pushed' = pushed + 1
          /\ queue' = Append(queue, m)
          /\ task = "connecting" \/ sender \in {"idle", "filtering", "sending"}
          /\ UNCHANGED <<hooks, service, status, slot, oneshot, task, txs,
                         refused, sender, flight, written, receiver, peer,
                         arrived, wire, fused, shut, log>>
        BY <1>2 DEF Push, upgradeVars, senderVars, peerVars
    <2>2. /\ pushed \in Nat /\ pushed + 1 \in 1..MaxPush
          /\ pushed + 1 \in 0..MaxPush
        BY <2>1, WebSocketAssumption DEF IInv, TypeOK
    <2>3. m \in Message /\ m.id = pushed + 1
        BY <2>2 DEF Message
    <2>. HIDE DEF m
    <2>4. queue' \in Seq(Message)
        <3>1. queue \in Seq(Message)
            BY DEF IInv, TypeOK
        <3>. QED
            BY <2>1, <2>3, <3>1, AppendProperties
    <2>5. TypeOK'
        BY <2>1, <2>2, <2>4 DEF IInv, TypeOK
    <2>6. StageOK' /\ FlightOK' /\ ShutOK' /\ LogOK'
        BY <2>1 DEF IInv, StageOK, FlightOK, ShutOK, LogOK
    <2>7. OrderOK'
        <3>1. sender # "ended" /\ task # "failed"
            BY <2>1 DEF IInv, StageOK
        <3>2. Complete((written \o flight) \o queue, pushed)
            BY <3>1 DEF IInv, OrderOK
        <3>3. (written \o flight) \o Append(queue, m) =
                  Append((written \o flight) \o queue, m)
            <4>1. /\ queue \in Seq(Message) /\ written \o flight \in Seq(Message)
                  /\ (written \o flight) \o queue \in Seq(Message)
                  /\ <<m>> \in Seq(Message)
                BY <2>3, Shapes DEF IInv
            <4>2. /\ Append(queue, m) = queue \o <<m>>
                  /\ Append((written \o flight) \o queue, m) =
                         ((written \o flight) \o queue) \o <<m>>
                BY <2>3, <4>1, AppendIsConcat
            <4>. QED
                BY <4>1, <4>2, ConcatAssociative
        <3>4. refused \subseteq 1..pushed /\ pushed + 1 \notin refused
            BY <2>2 DEF IInv, OrderOK
        <3>5. Complete(Append((written \o flight) \o queue, m), pushed + 1)
            BY <2>2, <2>3, <3>2, <3>4, Shapes, CompletePush DEF IInv
        <3>6. Complete(written \o flight \o queue, pushed)'
            BY <2>1, <3>3, <3>5 DEF Complete, Ids
        <3>7. (refused \subseteq 1..pushed)'
            BY <2>1, <2>2, <3>4
        <3>. QED
            BY <2>1, <3>1, <3>6, <3>7 DEF OrderOK
    <2>. QED
        BY <2>5, <2>6, <2>7 DEF IInv
<1>. QED
    BY <1>1, <1>2 DEF UserStep

\* What every step of the sending task leaves alone, and what is left to show.
LEMMA SenderFrame ==
    ASSUME IInv, OutsideSender, sender \in {"idle", "filtering", "sending"},
           sender' \in {"idle", "filtering", "sending", "ended"},
           queue' \in Seq(Message), flight' \in Seq(Message),
           written' \in Seq(Message), refused' \subseteq 1..MaxPush,
           shut' \in BOOLEAN, FlightOK', OrderOK', ShutOK'
    PROVE  IInv'
<1>1. UNCHANGED <<hooks, service, status, slot, oneshot, task, txs, pushed,
                  receiver, peer, arrived, wire, fused, log>>
    BY DEF OutsideSender, upgradeVars, peerVars
<1>2. TypeOK'
    BY <1>1 DEF IInv, TypeOK
<1>3. StageOK' /\ LogOK'
    BY <1>1 DEF IInv, StageOK, LogOK
<1>. QED
    BY <1>2, <1>3 DEF IInv

\* While the sending task lives the channel is complete.
LEMMA SenderLive ==
    ASSUME IInv, sender \in {"idle", "filtering", "sending"}
    PROVE  /\ task = "open" /\ Complete((written \o flight) \o queue, pushed)
           /\ sender = "idle" => flight = <<>>
           /\ sender # "idle" => flight = <<flight[1]>> /\ flight[1] \in Message
           /\ refused \subseteq 1..MaxPush /\ shut \in BOOLEAN
<1>1. task = "open" /\ Complete((written \o flight) \o queue, pushed)
    BY DEF IInv, StageOK, OrderOK
<1>2. sender = "idle" => flight = <<>>
    BY DEF IInv, FlightOK
<1>3. ASSUME sender # "idle"
      PROVE  flight = <<flight[1]>> /\ flight[1] \in Message
    <2>1. flight \in Seq(Message) /\ Len(flight) = 1
        BY <1>3 DEF IInv, TypeOK, FlightOK
    <2>. QED
        BY <2>1
<1>. QED
    BY <1>1, <1>2, <1>3 DEF IInv, TypeOK

\* The next message is taken.
LEMMA TakeMessageOK == ASSUME IInv, TakeMessage PROVE IInv'
<1>1. /\ sender = "idle" /\ queue # <<>> /\ flight' = <<Head(queue)>>
      /\ queue' = Tail(queue) /\ sender' \in {"filtering", "sending"}
      /\ UNCHANGED <<refused, written, shut, pushed>> /\ OutsideSender
    BY DEF TakeMessage, OutsideSender
<1>2. queue \in Seq(Message) /\ written \in Seq(Message)
    BY DEF IInv, TypeOK
<1>3. /\ Complete((written \o flight) \o queue, pushed) /\ flight = <<>>
      /\ refused \subseteq 1..MaxPush /\ shut \in BOOLEAN
    BY <1>1, SenderLive
<1>4. /\ (written \o <<>>) \o queue = (written \o <<Head(queue)>>) \o Tail(queue)
      /\ Head(queue) \in Message /\ Tail(queue) \in Seq(Message)
    BY <1>1, <1>2, TakeSame
<1>5. FlightOK' /\ ShutOK'
    BY <1>1 DEF IInv, FlightOK, ShutOK
<1>6. OrderOK'
    <2>1. Complete((written \o <<Head(queue)>>) \o Tail(queue), pushed)
        BY <1>3, <1>4
    <2>2. Complete(written \o flight \o queue, pushed)'
        BY <1>1, <2>1 DEF Complete, Ids
    <2>. QED
        BY <1>1, <2>2 DEF IInv, OrderOK
<1>7. flight' \in Seq(Message)
    BY <1>1, <1>4
<1>. QED
    BY <1>1, <1>2, <1>3, <1>4, <1>5, <1>6, <1>7, SenderFrame

\* The loop ends: with an empty channel or with a failed write.
LEMMA SenderEndOK == ASSUME IInv, ChannelClosed \/ WriteErr PROVE IInv'
<1>1. /\ sender \in {"idle", "sending"} /\ sender' = "ended"
      /\ UNCHANGED <<refused, written, shut, pushed>> /\ OutsideSender
      /\ queue' = <<>>
    BY DEF ChannelClosed, WriteErr, OutsideSender
<1>2. /\ Complete((written \o flight) \o queue, pushed)
      /\ refused \subseteq 1..MaxPush /\ shut \in BOOLEAN
      /\ sender = "idle" => flight = <<>>
    BY <1>1, SenderLive
<1>3. flight' = <<>>
    BY <1>1, <1>2 DEF ChannelClosed, WriteErr
<1>4. /\ written \in Seq(Message) /\ flight \in Seq(Message)
      /\ queue \in Seq(Message) /\ pushed \in Nat
    BY Shapes DEF IInv
<1>5. Complete(written, LastId(written))
    <2>1. (written \o flight) \o queue = written \o (flight \o queue)
        BY <1>4, ConcatAssociative
    <2>2. flight \o queue \in Seq(Message)
        BY <1>4, ConcatProperties
    <2>. QED
        BY <1>2, <1>4, <2>1, <2>2, CompletePrefix
<1>6. OrderOK'
    BY <1>1, <1>5 DEF IInv, OrderOK, Complete, Ids, LastId
<1>7. FlightOK' /\ ShutOK'
    BY <1>1, <1>3 DEF IInv, FlightOK, ShutOK
<1>8. <<>> \in Seq(Message)
    OBVIOUS
<1>. QED
    BY <1>1, <1>2, <1>3, <1>4, <1>6, <1>7, <1>8, SenderFrame

\* on_send may change a message, not its place.
LEMMA OnSendOkOK ==
    ASSUME IInv, NEW close \in BOOLEAN, OnSendOk(close)
    PROVE  IInv'
<1>. DEFINE f == flight[1]
            g == [f EXCEPT !.close = close]
            a == (written \o <<f>>) \o queue
            b == (written \o <<g>>) \o queue
<1>1. /\ sender = "filtering" /\ sender' = "sending" /\ flight' = <<g>>
      /\ UNCHANGED <<queue, refused, written, shut, pushed>> /\ OutsideSender
    BY DEF OnSendOk, OutsideSender
<1>2. /\ Complete((written \o flight) \o queue, pushed)
      /\ flight = <<f>> /\ f \in Message
      /\ refused \subseteq 1..MaxPush /\ shut \in BOOLEAN
    BY <1>1, SenderLive
<1>3. g \in Message /\ g.id = f.id
    BY <1>2 DEF Message
<1>. HIDE DEF f, g
<1>4. written \in Seq(Message) /\ queue \in Seq(Message) /\ pushed \in Nat
    BY Shapes DEF IInv
<1>5. /\ a \in Seq(Message) /\ b \in Seq(Message) /\ Len(a) = Len(b)
      /\ \A i \in 1..Len(a) : a[i].id = b[i].id
    <2>1. ASSUME NEW m \in Message
          PROVE  /\ written \o <<m>> \in Seq(Message)
                 /\ Len(written \o <<m>>) = Len(written) + 1
                 /\ \A i \in 1..Len(written) : (written \o <<m>>)[i] = written[i]
                 /\ (written \o <<m>>)[Len(written) + 1] = m
        BY <1>4
    <2>. DEFINE v == written \o <<f>>
                w == written \o <<g>>
    <2>2. /\ v \in Seq(Message) /\ w \in Seq(Message)
          /\ Len(v) = Len(w) /\ \A i \in 1..Len(v) : v[i].id = w[i].id
        BY <1>2, <1>3, <1>4, <2>1
    <2>. HIDE DEF v, w
    <2>3. /\ v \o queue \in Seq(Message) /\ w \o queue \in Seq(Message)
          /\ Len(v \o queue) = Len(w \o queue)
        BY <1>4, <2>2, Joined
    <2>4. ASSUME NEW i \in 1..Len(v \o queue)
          PROVE  (v \o queue)[i].id = (w \o queue)[i].id
        <3>1. /\ \A k \in 1..Len(v) : (v \o queue)[k] = v[k]
              /\ \A k \in 1..Len(w) : (w \o queue)[k] = w[k]
              /\ \A k \in 1..Len(queue) : (v \o queue)[Len(v) + k] = queue[k]
              /\ \A k \in 1..Len(queue) : (w \o queue)[Len(w) + k] = queue[k]
              /\ Len(v \o queue) = Len(v) + Len(queue)
              /\ Len(v) \in Nat /\ Len(queue) \in Nat
            BY <1>4, <2>2, Joined
        <3>2. CASE i <= Len(v)
            <4>1. i \in 1..Len(v) /\ i \in 1..Len(w)
                BY <2>2, <3>1, <3>2
            <4>2. (v \o queue)[i] = v[i] /\ (w \o queue)[i] = w[i]
                BY <3>1, <4>1
            <4>. QED
                BY <2>2, <4>1, <4>2
        <3>3. CASE i > Len(v)
            <4>1. PICK k \in 1..Len(queue) : i = Len(v) + k
                <5>1. i - Len(v) \in 1..Len(queue) /\ Len(v) + (i - Len(v)) = i
                    BY <3>1, <3>3
                <5>. QED
                    BY <5>1
            <4>2. (v \o queue)[i] = queue[k] /\ (w \o queue)[i] = queue[k]
                BY <2>2, <3>1, <4>1, Zenon
            <4>. QED
                BY <4>2
        <3>4. i <= Len(v) \/ i > Len(v)
            BY <3>1
        <3>. QED
            BY <3>2, <3>3, <3>4, Zenon
    <2>. QED
        BY <2>3, <2>4 DEF v, w
<1>6. Complete(b, pushed)
    BY <1>2, <1>4, <1>5, CompleteSame
<1>7. OrderOK'
    <2>1. Complete(written \o flight \o queue, pushed)'
        BY <1>1, <1>6 DEF Complete, Ids
    <2>. QED
        BY <1>1, <2>1 DEF IInv, OrderOK
<1>8. FlightOK' /\ ShutOK'
    BY <1>1 DEF IInv, FlightOK, ShutOK
<1>9. flight' \in Seq(Message)
    BY <1>1, <1>3
<1>. QED
    BY <1>1, <1>2, <1>4, <1>7, <1>8, <1>9, SenderFrame

\* on_send refuses a message.
LEMMA OnSendErrOK == ASSUME IInv, OnSendErr PROVE IInv'
<1>. DEFINE f == flight[1]
<1>1. /\ sender = "filtering" /\ sender' = "idle" /\ flight' = <<>>
      /\ refused' = refused \cup {f.id}
      /\ UNCHANGED <<queue, written, shut, pushed>> /\ OutsideSender
    BY DEF OnSendErr, OutsideSender
<1>2. /\ Complete((written \o flight) \o queue, pushed)
      /\ flight = <<f>> /\ f \in Message
      /\ refused \subseteq 1..MaxPush /\ shut \in BOOLEAN
    BY <1>1, SenderLive
<1>. HIDE DEF f
<1>3. written \in Seq(Message) /\ queue \in Seq(Message) /\ pushed \in Nat
    BY Shapes DEF IInv
<1>4. /\ f.id \in (1..pushed) \ refused
      /\ \A i, j \in DOMAIN (written \o queue) :
             i < j => (written \o queue)[i].id < (written \o queue)[j].id
      /\ Ids(written \o queue) = (1..pushed) \ (refused \cup {f.id})
    BY <1>2, <1>3, CompleteRefuse
<1>5. refused' \subseteq 1..MaxPush
    BY <1>1, <1>2, MessageShape
<1>6. OrderOK'
    <2>1. written \o <<>> = written
        BY <1>3, ConcatEmptySeq
    <2>2. Complete(written \o flight \o queue, pushed)'
        BY <1>1, <1>4, <2>1 DEF Complete, Ids
    <2>3. (refused \subseteq 1..pushed)'
        BY <1>1, <1>4 DEF IInv, OrderOK
    <2>. QED
        BY <1>1, <2>2, <2>3 DEF OrderOK
<1>7. FlightOK' /\ ShutOK'
    BY <1>1 DEF IInv, FlightOK, ShutOK
<1>8. <<>> \in Seq(Message)
    OBVIOUS
<1>. QED
    BY <1>1, <1>2, <1>3, <1>5, <1>6, <1>7, <1>8, SenderFrame

\* A message is written; after a close frame none is.
LEMMA WriteOK == ASSUME IInv, Write PROVE IInv'
<1>. DEFINE f == flight[1]
<1>1. /\ sender = "sending" /\ ~shut /\ written' = written \o flight
      /\ flight' = <<>> /\ shut' = f.close /\ sender' = "idle"
      /\ UNCHANGED <<queue, refused, pushed>> /\ OutsideSender
    BY DEF Write, OutsideSender
<1>2. /\ Complete((written \o flight) \o queue, pushed)
      /\ flight = <<f>> /\ f \in Message /\ refused \subseteq 1..MaxPush
    BY <1>1, SenderLive
<1>. HIDE DEF f
<1>3. /\ written \in Seq(Message) /\ queue \in Seq(Message) /\ pushed \in Nat
      /\ written' \in Seq(Message)
    BY <1>1, Shapes DEF IInv
<1>4. OrderOK'
    <2>1. written' \o <<>> = written'
        BY <1>3, ConcatEmptySeq
    <2>2. (written' \o flight') \o queue' = (written \o flight) \o queue
        BY <1>1, <2>1
    <2>3. Complete(written \o flight \o queue, pushed)'
        <3>. DEFINE e == (written \o flight) \o queue
        <3>1. e' = e /\ refused' = refused /\ pushed' = pushed
            BY <1>1, <2>2
        <3>2. Complete(e, pushed)
            BY <1>2
        <3>. HIDE DEF e
        <3>3. Complete(e, pushed)'
            BY <3>1, <3>2 DEF Complete, Ids
        <3>. QED
            BY <3>3 DEF e
    <2>. QED
        BY <1>1, <2>3 DEF IInv, OrderOK
<1>5. ShutOK'
    <2>1. /\ Len(written') = Len(written) + 1 /\ written'[Len(written) + 1] = f
          /\ DOMAIN written' = 1..Len(written) + 1 /\ Len(written) \in Nat
          /\ DOMAIN written = 1..Len(written)
          /\ \A i \in 1..Len(written) : written'[i] = written[i]
        BY <1>1, <1>2, <1>3
    <2>2. \A i \in DOMAIN written : ~written[i].close
        BY <1>1 DEF IInv, ShutOK
    <2>3. ASSUME NEW i \in DOMAIN written', written'[i].close
          PROVE  shut' /\ i = Len(written')
        <3>1. i \notin 1..Len(written)
            BY <2>1, <2>2, <2>3
        <3>2. i = Len(written) + 1
            BY <2>1, <3>1
        <3>. QED
            BY <1>1, <2>1, <2>3, <3>2
    <2>. QED
        BY <2>3 DEF ShutOK
<1>6. FlightOK'
    BY <1>1 DEF FlightOK
<1>7. <<>> \in Seq(Message) /\ shut' \in BOOLEAN
    BY <1>1, <1>2, MessageShape
<1>. QED
    BY <1>1, <1>2, <1>3, <1>4, <1>5, <1>6, <1>7, SenderFrame

-----------------------------------------------------------------------------
(* The receiving task and the peer                                         *)

\* What a step of the receiving task leaves alone.
LEMMA ReceiverFrame ==
    ASSUME IInv, OutsideReceiver, receiver # "off",
           receiver' \in {"reading", "receiving", "closing", "ended"},
           wire' \in Seq(Frame), fused' \in BOOLEAN, shut' \in BOOLEAN,
           shut => shut', log' \in Seq({"connect", "receive", "close"}), LogOK'
    PROVE  IInv'
<1>1. UNCHANGED <<hooks, service, status, slot, oneshot, task, queue, txs,
                  pushed, refused, sender, flight, written, peer, arrived>>
    BY DEF OutsideReceiver, upgradeVars, senderVars
<1>2. TypeOK'
    BY <1>1 DEF IInv, TypeOK
<1>3. StageOK' /\ FlightOK' /\ ShutOK'
    BY <1>1 DEF IInv, StageOK, FlightOK, ShutOK
<1>4. OrderOK'
    BY <1>1 DEF IInv, OrderOK, Complete, Ids, LastId
<1>. QED
    BY <1>2, <1>3, <1>4 DEF IInv

\* A call is added to the log of a live receiving task.
LEMMA LogAppend ==
    ASSUME IInv, receiver \in {"reading", "receiving"},
           UNCHANGED <<hooks, task>>,
           \/ log' = log /\ receiver' \in {"reading", "receiving"}
           \/ log' = Append(log, "receive") /\ receiver' = "receiving"
           \/ /\ log' = Append(log, "close") /\ receiver' = "closing"
              /\ "close" \in hooks
           \/ log' = log /\ receiver' = "ended" /\ "close" \notin hooks
    PROVE  LogOK' /\ log' \in Seq({"connect", "receive", "close"})
<1>1. log \in Seq({"connect", "receive", "close"}) /\ task = "open"
    BY DEF IInv, TypeOK, StageOK
<1>2. /\ \A i \in DOMAIN log : (log[i] = "connect" => i = 1) /\ log[i] # "close"
      /\ "connect" \in hooks => log # <<>> /\ log[1] = "connect"
    BY <1>1 DEF IInv, LogOK
<1>3. CASE log' = log
    BY <1>1, <1>2, <1>3 DEF LogOK, Early
<1>4. ASSUME NEW c \in {"receive", "close"}, log' = Append(log, c),
             c = "close" => receiver' = "closing",
             c = "receive" => receiver' = "receiving"
      PROVE  LogOK' /\ log' \in Seq({"connect", "receive", "close"})
    <2>1. /\ Len(log') = Len(log) + 1 /\ log'[Len(log) + 1] = c
          /\ DOMAIN log' = 1..Len(log) + 1 /\ DOMAIN log = 1..Len(log)
          /\ Len(log) \in Nat /\ \A i \in 1..Len(log) : log'[i] = log[i]
          /\ log' \in Seq({"connect", "receive", "close"}) /\ log' # <<>>
        BY <1>1, <1>4
    <2>2. \A i \in DOMAIN log' :
             /\ log'[i] = "connect" => i = 1
             /\ log'[i] = "close" => i = Len(log') /\ receiver' = "closing"
        <3>1. ASSUME NEW i \in 1..Len(log)
              PROVE  (log'[i] = "connect" => i = 1) /\ log'[i] # "close"
            BY <1>2, <2>1
        <3>2. \A i \in DOMAIN log' : i \in 1..Len(log) \/ i = Len(log')
            BY <2>1
        <3>3. log'[Len(log')] = c /\ c # "connect"
            BY <2>1
        <3>. QED
            BY <1>4, <3>1, <3>2, <3>3
    <2>3. "connect" \in hooks => log'[1] = "connect"
        BY <1>1, <1>2, <2>1
    <2>. QED
        BY <1>1, <1>4, <2>1, <2>2, <2>3 DEF LogOK, Early
<1>. QED
    BY <1>3, <1>4

\* The receiving task.
LEMMA ReceiverOK == ASSUME IInv, ReceiverStep PROVE IInv'
<1>1. OutsideReceiver /\ hooks' = hooks /\ task' = task
    BY DEF ReceiverStep, ReadBad, ReadEnd, ReadClose, ReadData, OnReceiveOk,
       OnReceiveErr, OnCloseDone, OutsideReceiver
<1>2. wire' \in Seq(Frame) /\ fused' \in BOOLEAN /\ shut' \in BOOLEAN
    <2>1. <<>> \in Seq(Frame) /\ wire \in Seq(Frame)
        BY DEF IInv, TypeOK
    <2>2. wire # <<>> => Tail(wire) \in Seq(Frame)
        BY <2>1
    <2>. QED
        BY <2>1, <2>2
        DEF ReceiverStep, ReadBad, ReadEnd, ReadClose, ReadData, OnReceiveOk,
            OnReceiveErr, OnCloseDone, IInv, TypeOK
<1>3. shut => shut'
    BY DEF ReceiverStep, ReadBad, ReadEnd, ReadClose, ReadData, OnReceiveOk,
       OnReceiveErr, OnCloseDone
<1>4. CASE OnCloseDone
    <2>1. receiver = "closing" /\ receiver' = "ended" /\ log' = log
        BY <1>4 DEF OnCloseDone
    <2>2. LogOK' /\ log' \in Seq({"connect", "receive", "close"})
        BY <1>1, <2>1 DEF IInv, TypeOK, LogOK
    <2>. QED
        BY <1>1, <1>2, <1>3, <2>1, <2>2, ReceiverFrame
<1>5. CASE ~OnCloseDone
    <2>1. /\ receiver \in {"reading", "receiving"}
          /\ \/ log' = log /\ receiver' \in {"reading", "receiving"}
             \/ log' = Append(log, "receive") /\ receiver' = "receiving"
             \/ /\ log' = Append(log, "close") /\ receiver' = "closing"
                /\ "close" \in hooks
             \/ log' = log /\ receiver' = "ended" /\ "close" \notin hooks
        BY <1>5
        DEF ReceiverStep, ReadBad, ReadEnd, ReadClose, ReadData, OnReceiveOk,
            OnReceiveErr, Leave
    <2>2. LogOK' /\ log' \in Seq({"connect", "receive", "close"})
        BY <1>1, <2>1, LogAppend
    <2>. QED
        BY <1>1, <1>2, <1>3, <2>1, <2>2, ReceiverFrame
<1>. QED
    BY <1>4, <1>5

\* The peer sends a frame, or disappears.
LEMMA PeerOK == ASSUME IInv, PeerStep PROVE IInv'
<1>1. UNCHANGED <<hooks, service, status, slot, oneshot, task, queue, txs,
                  pushed, refused, sender, flight, written, receiver, fused,
                  shut, log>>
    BY DEF PeerStep, PeerGone, PeerSend, upgradeVars, senderVars
<1>2. wire' \in Seq(Frame)
    <2>1. wire \in Seq(Frame) /\ "bad" \in Frame
        BY DEF IInv, TypeOK, Frame
    <2>2. \A f \in Frame : Append(wire, f) \in Seq(Frame)
        BY <2>1, AppendProperties
    <2>. QED
        BY <2>1, <2>2 DEF PeerStep, PeerGone, PeerSend
<1>3. arrived' \in 0..MaxFrames /\ peer' \in {"open", "closed", "gone"}
    BY WebSocketAssumption DEF PeerStep, PeerGone, PeerSend, IInv, TypeOK
<1>4. TypeOK'
    BY <1>1, <1>2, <1>3 DEF IInv, TypeOK
<1>. QED
    BY <1>1, <1>4, OutsideOK

\* Every step keeps the invariant.
LEMMA StepOK == IInv /\ [Next]_vars => IInv'
<1>. SUFFICES ASSUME IInv, [Next]_vars PROVE IInv'
    OBVIOUS
<1>1. CASE UNCHANGED vars
    <2>1. TypeOK'
        BY <1>1 DEF IInv, TypeOK, vars
    <2>. QED
        BY <1>1, <2>1, OutsideOK DEF vars
<1>2. CASE Next
    BY <1>2, ServiceOK, TaskOK, UserOK, TakeMessageOK, SenderEndOK, OnSendOkOK,
       OnSendErrOK, WriteOK, ReceiverOK, PeerOK
    DEF Next, SenderStep
<1>. QED
    BY <1>1, <1>2

-----------------------------------------------------------------------------
(* The theorems                                                            *)

\* The inductive invariant: where each pushed message is between channel,
\* sending task and socket, and how callbacks and task states go together.
THEOREM WebSocketInvariant == Spec => []IInv
BY InitOK, StepOK, PTL DEF Spec

\* The state of service, tasks, channel and peer stays of its type.
THEOREM WebSocketTyped == Spec => []TypeOK
<1>1. IInv => TypeOK
    BY DEF IInv
<1>. QED
    BY <1>1, WebSocketInvariant, PTL

\* The message channel and the sending task lose, double and reorder nothing.
THEOREM DeliveryTheorem == Spec => []DeliveredInOrder
<1>1. IInv => DeliveredInOrder
    <2>. SUFFICES ASSUME IInv PROVE DeliveredInOrder
        OBVIOUS
    <2>1. ASSUME NEW i \in 1..(Len(written) - 1) PROVE ~written[i].close
        <3>1. Len(written) \in Nat /\ DOMAIN written = 1..Len(written)
            BY DEF IInv, TypeOK
        <3>2. \A n \in Nat : \A k \in 1..(n - 1) : k \in 1..n /\ k # n
            OBVIOUS
        <3>3. i \in DOMAIN written /\ i # Len(written)
            BY <3>1, <3>2, Zenon
        <3>. QED
            BY <3>3 DEF IInv, ShutOK
    <2>. QED
        BY <2>1 DEF IInv, OrderOK, DeliveredInOrder
<1>. QED
    BY <1>1, WebSocketInvariant, PTL

\* on_connect, on_receive and on_close are called in this order.
THEOREM CallbackTheorem == Spec => []CallbackOrder
<1>1. IInv => CallbackOrder
    <2>. SUFFICES ASSUME IInv PROVE CallbackOrder
        OBVIOUS
    <2>1. ASSUME NEW i \in DOMAIN log, log[i] # "connect", "connect" \in hooks
          PROVE  i > 1
        <3>1. log # <<>> /\ log[1] = "connect" /\ i \in 1..Len(log)
            BY <2>1 DEF IInv, TypeOK, LogOK
        <3>. QED
            BY <2>1, <3>1
    <2>. QED
        BY <2>1 DEF IInv, LogOK, CallbackOrder
<1>. QED
    BY <1>1, WebSocketInvariant, PTL

=============================================================================
