--------------------------- MODULE H3RequestProofs ---------------------------
(***************************************************************************)
(* Theorems about H3Request, for any channel capacity, body limit, chunk   *)
(* size and number of chunks: what reaches the handler is the beginning of *)
(* what the client sent, a clean end means all of it, nothing is answered  *)
(* to a client whose body failed, and a finished response is whole.        *)
(***************************************************************************)
EXTENDS H3Request, SequenceTheorems, TLAPS

-----------------------------------------------------------------------------
(* Sequences of chunks                                                     *)

Clean(items) == \A i \in DOMAIN items : items[i] # Error

\* BodyIntact of any sequence of items, up to byte m.
Carried(items, m) ==
    \A i \in DOMAIN items :
        IF items[i] = Error
        THEN i = Len(items)
        ELSE Follows(items, i) /\ items[i].to <= MaxBody /\ items[i].to <= m

\* A chunk that begins where the others end may be added.
LEMMA CarriedChunk ==
    ASSUME NEW d \in Seq(Items), NEW m \in Nat, Carried(d, m), Clean(d),
           NEW x \in Chunk, x.from = EndOf(d), x.from < x.to,
           x.to <= MaxBody, x.to <= m
    PROVE  Carried(Append(d, x), m) /\ EndOf(Append(d, x)) = x.to
<1>. DEFINE e == Append(d, x)
<1>1. /\ Len(e) = Len(d) + 1 /\ e[Len(d) + 1] = x /\ DOMAIN e = 1..Len(d) + 1
      /\ \A i \in 1..Len(d) : e[i] = d[i]
      /\ DOMAIN d = 1..Len(d) /\ Len(d) \in Nat
    OBVIOUS
<1>2. EndOf(e) = x.to
    BY <1>1 DEF EndOf
<1>3. ASSUME NEW i \in 1..Len(d)
      PROVE  e[i] # Error /\ Follows(e, i) /\ e[i].to <= MaxBody /\ e[i].to <= m
    <2>1. e[i] = d[i] /\ d[i] # Error
        BY <1>1 DEF Clean
    <2>2. Follows(d, i) /\ d[i].to <= MaxBody /\ d[i].to <= m
        BY <1>1, <2>1 DEF Carried
    <2>3. i # 1 => e[i - 1] = d[i - 1]
        BY <1>1
    <2>. QED
        BY <2>1, <2>2, <2>3 DEF Follows
<1>4. x # Error
    BY ErrorAssumption
<1>5. Follows(e, Len(d) + 1)
    <2>1. CASE d = <<>>
        <3>1. x.from = 0 /\ Len(d) + 1 = 1
            BY <2>1 DEF EndOf
        <3>. QED
            BY <1>1, <3>1 DEF Follows
    <2>2. CASE d # <<>>
        <3>1. x.from = d[Len(d)].to /\ Len(d) \in 1..Len(d)
            BY <1>1, <2>2 DEF EndOf
        <3>2. e[Len(d) + 1 - 1] = d[Len(d)] /\ Len(d) + 1 # 1
            BY <1>1, <3>1
        <3>. HIDE DEF e
        <3>. QED
            BY <1>1, <3>1, <3>2 DEF Follows
    <2>. QED
        BY <2>1, <2>2
<1>. HIDE DEF e
<1>6. Carried(e, m)
    BY <1>1, <1>3, <1>4, <1>5 DEF Carried
<1>. QED
    BY <1>2, <1>6 DEF e

\* So may an error.
LEMMA CarriedError ==
    ASSUME NEW d \in Seq(Items), NEW m \in Nat, Carried(d, m), Clean(d)
    PROVE  Carried(Append(d, Error), m)
<1>. DEFINE e == Append(d, Error)
<1>1. /\ Len(e) = Len(d) + 1 /\ e[Len(d) + 1] = Error /\ DOMAIN e = 1..Len(d) + 1
      /\ \A i \in 1..Len(d) : e[i] = d[i]
      /\ DOMAIN d = 1..Len(d) /\ Len(d) \in Nat
    BY DEF Items
<1>2. ASSUME NEW i \in 1..Len(d)
      PROVE  e[i] # Error /\ Follows(e, i) /\ e[i].to <= MaxBody /\ e[i].to <= m
    <2>1. e[i] = d[i] /\ d[i] # Error
        BY <1>1 DEF Clean
    <2>2. Follows(d, i) /\ d[i].to <= MaxBody /\ d[i].to <= m
        BY <1>1, <2>1 DEF Carried
    <2>3. i # 1 => e[i - 1] = d[i - 1]
        BY <1>1
    <2>. QED
        BY <2>1, <2>2, <2>3 DEF Follows
<1>. HIDE DEF e
<1>3. Carried(e, m)
    BY <1>1, <1>2 DEF Carried
<1>. QED
    BY <1>3 DEF e

\* The chunks that were read are carried by themselves.
LEMMA CarriedPrefix ==
    ASSUME NEW g \in Seq(Chunk), NEW t \in Seq(Items), NEW m \in Nat,
           Carried(g \o t, m)
    PROVE  Carried(g, m) /\ Gapless(g)
<1>. DEFINE e == g \o t
<1>1. /\ Len(e) = Len(g) + Len(t) /\ DOMAIN e = 1..Len(g) + Len(t)
      /\ \A i \in 1..Len(g) : e[i] = g[i]
      /\ DOMAIN g = 1..Len(g) /\ Len(g) \in Nat /\ Len(t) \in Nat
    BY DEF Items
<1>. HIDE DEF e
<1>2. ASSUME NEW i \in 1..Len(g)
      PROVE  g[i] # Error /\ Follows(g, i) /\ g[i].to <= MaxBody /\ g[i].to <= m
    <2>1. e[i] = g[i] /\ g[i] # Error
        BY <1>1, ErrorAssumption
    <2>2. Follows(e, i) /\ e[i].to <= MaxBody /\ e[i].to <= m
        BY <1>1, <2>1 DEF Carried, e
    <2>3. i # 1 => e[i - 1] = g[i - 1]
        BY <1>1
    <2>. QED
        BY <2>1, <2>2, <2>3 DEF Follows
<1>. QED
    BY <1>1, <1>2 DEF Carried, Gapless

\* A larger bound carries as well.
LEMMA CarriedMore ==
    ASSUME NEW d \in Seq(Items), NEW m \in Nat, NEW k \in Nat, m <= k,
           Carried(d, m)
    PROVE  Carried(d, k)
<1>1. ASSUME NEW i \in DOMAIN d, d[i] # Error
      PROVE  d[i].to \in Nat
    BY <1>1 DEF Items, Chunk
<1>. QED
    BY <1>1 DEF Carried

\* Taking an item from the channel keeps the order of what is under way.
LEMMA PopSame ==
    ASSUME NEW g \in Seq(Chunk), NEW c \in Seq(Items), NEW h \in Seq(Items),
           c # <<>>
    PROVE  Append(g, Head(c)) \o (Tail(c) \o h) = g \o (c \o h)
<1>. DEFINE a == Append(g, Head(c)) \o (Tail(c) \o h)
            b == g \o (c \o h)
<1>1. g \in Seq(Items) /\ Head(c) \in Items /\ Tail(c) \in Seq(Items)
    BY DEF Items
<1>2. a \in Seq(Items) /\ b \in Seq(Items) /\ Len(a) = Len(b)
    BY <1>1
<1>3. ASSUME NEW i \in 1..Len(a) PROVE a[i] = b[i]
    BY <1>1
<1>. QED
    BY <1>2, <1>3, SeqEqual

\* Receiving one puts it behind the rest.
LEMMA PushSame ==
    ASSUME NEW g \in Seq(Chunk), NEW c \in Seq(Items), NEW x \in Items
    PROVE  /\ g \o (c \o <<x>>) = Append(g \o (c \o <<>>), x)
           /\ g \o (c \o <<>>) \in Seq(Items)
<1>1. g \in Seq(Items) /\ <<x>> \in Seq(Items) /\ <<>> \in Seq(Items)
    BY DEF Items
<1>2. c \o <<>> = c /\ g \o c \in Seq(Items)
    BY <1>1, ConcatEmptySeq, ConcatProperties
<1>3. g \o (c \o <<x>>) = (g \o c) \o <<x>>
    BY <1>1, ConcatAssociative
<1>4. Append(g \o c, x) = (g \o c) \o <<x>>
    BY <1>2, AppendIsConcat
<1>. QED
    BY <1>2, <1>3, <1>4

-----------------------------------------------------------------------------
(* The invariant                                                           *)

\* Nothing has gone wrong at the reader so far.
Going == reader \in {"recv", "ok"} \/ (reader = "send" /\ held # <<Error>>)

\* What the client sends is gapless, empty chunks included, and the reader
\* counts the bytes it has received.
SentOK ==
    \A i \in DOMAIN sent :
        /\ sent[i].from = (IF i = 1 THEN 0 ELSE sent[i - 1].to)
        /\ sent[i].from <= sent[i].to /\ sent[i].to <= EndOf(sent)
TotalOK == total = (IF received = 0 THEN 0 ELSE sent[received].to)

\* One item is being delivered exactly while the reader waits in send.
HeldOK == IF reader = "send" THEN Len(held) = 1 ELSE held = <<>>

\* What is read and under way is intact and ends where the reader is.
PipeOK ==
    /\ BodyIntact
    /\ rx = "closed" => chan = <<>>
    /\ Going => total <= MaxBody /\ (rx # "closed" => EndOf(Delivered) = total)

\* An error in the channel or read from it comes from a failed reader, which
\* never ends without telling a receiver that is still there.
ErrOK ==
    /\ reader # "err" => saw # "error" /\ Clean(chan)
    /\ reader = "err" /\ rx # "closed" =>
           saw = "error" \/ (chan # <<>> /\ chan[Len(chan)] = Error)

\* The reader ends well only at the end of the body, or without a receiver.
EndOK ==
    /\ reader = "ok" /\ rx # "closed" => client = "eof" /\ AllReceived
    /\ saw = "end" => ReceivedWhole /\ chan = <<>> /\ ReaderEnded

\* The response: written only after the join, and all but buf of what was
\* framed is out.
RespOK ==
    /\ writer \in {"head", "body", "done"} \/ out # <<>> => reader = "ok"
    /\ writer \in {"handler", "join"} => out = <<>>
    /\ writer = "handler" <=> rx = "handler"
    /\ writer = "done" => buf = 0 /\ (rx = "response" => saw = "end")
    /\ Gapless(out) /\ EndOf(out) + buf = framed
    /\ \A i \in DOMAIN out : Size(out[i]) <= ChunkSize

IInv ==
    /\ TypeOK /\ SentOK /\ TotalOK /\ HeldOK /\ PipeOK /\ ErrOK /\ EndOK
    /\ RespOK

\* What the invariant says of the sequences, for the steps below.
LEMMA Shapes ==
    ASSUME TypeOK
    PROVE  /\ chan \in Seq(Items) /\ held \in Seq(Items) /\ got \in Seq(Chunk)
           /\ sent \in Seq(Chunk) /\ out \in Seq(Chunk)
           /\ chan \o held \in Seq(Items) /\ got \in Seq(Items)
           /\ UnderWay \in Seq(Items) /\ Delivered \in Seq(Items)
           /\ EndOf(sent) \in Nat /\ EndOf(out) \in Nat /\ EndOf(got) \in Nat
<1>1. /\ chan \in Seq(Items) /\ held \in Seq(Items) /\ got \in Seq(Chunk)
      /\ sent \in Seq(Chunk) /\ out \in Seq(Chunk) /\ got \in Seq(Items)
    BY DEF TypeOK, Items
<1>2. chan \o held \in Seq(Items) /\ UnderWay \in Seq(Items)
    BY <1>1, ConcatProperties, EmptySeq DEF UnderWay
<1>3. Delivered \in Seq(Items)
    BY <1>1, <1>2, ConcatProperties DEF Delivered
<1>4. ASSUME NEW s \in Seq(Chunk) PROVE EndOf(s) \in Nat
    <2>1. s # <<>> => s[Len(s)] \in Chunk
        OBVIOUS
    <2>2. s # <<>> => s[Len(s)].to \in Nat
        BY <2>1 DEF Chunk
    <2>. QED
        BY <2>2 DEF EndOf
<1>. QED
    BY <1>1, <1>2, <1>3, <1>4

\* The type of the sent chunks, one by one.
LEMMA SentShape ==
    ASSUME TypeOK, NEW i \in DOMAIN sent
    PROVE  sent[i] \in Chunk /\ sent[i].from \in Nat /\ sent[i].to \in Nat
<1>1. sent[i] \in Chunk
    BY DEF TypeOK
<1>. QED
    BY <1>1 DEF Chunk

\* A request starts with nothing sent, read or written.
LEMMA InitOK == Init => IInv
<1>. SUFFICES ASSUME Init PROVE IInv
    OBVIOUS
<1>1. TypeOK
    BY H3RequestAssumption DEF Init, TypeOK
<1>2. Delivered = <<>> /\ DOMAIN Delivered = {} /\ DOMAIN out = {}
    BY DEF Init, Delivered, UnderWay
<1>3. SentOK /\ TotalOK /\ HeldOK /\ ErrOK /\ EndOK
    BY DEF Init, SentOK, TotalOK, HeldOK, ErrOK, EndOK, Clean
<1>4. PipeOK
    BY <1>2, H3RequestAssumption DEF Init, PipeOK, BodyIntact, EndOf, Going
<1>5. RespOK
    BY <1>2 DEF Init, RespOK, Gapless, EndOf
<1>. QED
    BY <1>1, <1>3, <1>4, <1>5 DEF IInv

-----------------------------------------------------------------------------
(* The client                                                              *)

\* A chunk more makes the body longer.
LEMMA ClientSendOK ==
    ASSUME IInv, NEW n \in ChunkLens, ClientSend(n)
    PROVE  IInv'
<1>. DEFINE x == [from |-> EndOf(sent), to |-> EndOf(sent) + n]
<1>1. /\ sent \in Seq(Chunk) /\ EndOf(sent) \in Nat /\ n \in Nat /\ x \in Chunk
      /\ sent' = Append(sent, x)
      /\ UNCHANGED <<client, received, readerVars, bodyVars, writerVars>>
    BY Shapes, H3RequestAssumption DEF IInv, ClientSend, Chunk
<1>2. /\ sent' \in Seq(Chunk) /\ Len(sent') = Len(sent) + 1
      /\ DOMAIN sent = 1..Len(sent) /\ DOMAIN sent' = 1..Len(sent) + 1
      /\ Len(sent) \in Nat /\ sent'[Len(sent) + 1] = x
      /\ \A i \in 1..Len(sent) : sent'[i] = sent[i]
    BY <1>1
<1>3. EndOf(sent)' = EndOf(sent) + n /\ EndOf(sent)' \in Nat
    BY <1>1, <1>2 DEF EndOf
<1>4. TypeOK'
    BY <1>1, <1>2 DEF IInv, TypeOK, readerVars, bodyVars, writerVars
<1>5. SentOK'
    <2>1. ASSUME NEW i \in 1..Len(sent)
          PROVE  /\ sent'[i].from = (IF i = 1 THEN 0 ELSE sent'[i - 1].to)
                 /\ sent'[i].from <= sent'[i].to
                 /\ sent'[i].to <= EndOf(sent)'
        <3>1. /\ sent[i].from = (IF i = 1 THEN 0 ELSE sent[i - 1].to)
              /\ sent[i].from <= sent[i].to /\ sent[i].to <= EndOf(sent)
            BY <1>2 DEF IInv, SentOK
        <3>2. sent[i].to \in Nat
            BY <1>2, SentShape DEF IInv
        <3>3. sent'[i] = sent[i] /\ (i # 1 => sent'[i - 1] = sent[i - 1])
            BY <1>2
        <3>. QED
            BY <1>1, <1>3, <3>1, <3>2, <3>3
    <2>2. EndOf(sent) = (IF Len(sent) = 0 THEN 0 ELSE sent'[Len(sent)].to)
        <3>1. CASE sent = <<>>
            BY <3>1 DEF EndOf
        <3>2. CASE sent # <<>>
            <4>1. Len(sent) \in 1..Len(sent)
                BY <1>1, <3>2
            <4>. QED
                BY <1>2, <3>2, <4>1 DEF EndOf
        <3>. QED
            BY <3>1, <3>2
    <2>3. ASSUME NEW i \in Nat, i = Len(sent) + 1
          PROVE  /\ sent'[i].from = (IF i = 1 THEN 0 ELSE sent'[i - 1].to)
                 /\ sent'[i].from <= sent'[i].to
                 /\ sent'[i].to <= EndOf(sent)'
        <3>1. /\ sent'[i].from = EndOf(sent) /\ sent'[i].to = EndOf(sent) + n
              /\ i - 1 = Len(sent) /\ (i = 1 <=> Len(sent) = 0)
            BY <1>2, <2>3
        <3>. QED
            BY <1>1, <1>3, <2>2, <3>1
    <2>. QED
        BY <1>2, <2>1, <2>3 DEF SentOK
<1>6. TotalOK'
    BY <1>1, <1>2 DEF IInv, TypeOK, TotalOK, readerVars
<1>7. HeldOK' /\ ErrOK' /\ RespOK'
    BY <1>1
    DEF IInv, HeldOK, ErrOK, Clean, RespOK, readerVars, bodyVars, writerVars
<1>8. PipeOK'
    <2>1. /\ Delivered' = Delivered /\ (EndOf(Delivered))' = EndOf(Delivered)
          /\ Going' = Going
        BY <1>1
        DEF Delivered, UnderWay, EndOf, Going, readerVars, bodyVars
    <2>2. Carried(Delivered, EndOf(sent))
        BY DEF IInv, PipeOK, BodyIntact, Carried
    <2>3. Carried(Delivered, EndOf(sent)')
        BY <1>1, <1>3, <2>2, Shapes, CarriedMore DEF IInv
    <2>4. BodyIntact'
        BY <2>1, <2>3 DEF BodyIntact, Carried, Follows
    <2>. QED
        BY <1>1, <2>1, <2>4 DEF IInv, PipeOK, readerVars, bodyVars
<1>9. EndOK'
    <2>1. client = "open"
        BY DEF ClientSend
    <2>. QED
        BY <1>1, <2>1
        DEF IInv, EndOK, ReceivedWhole, ReaderEnded, readerVars, bodyVars
<1>. QED
    BY <1>4, <1>5, <1>6, <1>7, <1>8, <1>9 DEF IInv

\* The body ends or is reset while the reader is still at it.
LEMMA ClientEndOK ==
    ASSUME IInv, NEW how \in {"eof", "reset"}, ClientEnd(how)
    PROVE  IInv'
<1>1. /\ client = "open" /\ client' \in {"eof", "reset"}
      /\ UNCHANGED <<sent, received, readerVars, bodyVars, writerVars>>
    BY DEF ClientEnd
<1>2. TypeOK' /\ SentOK' /\ TotalOK' /\ HeldOK' /\ ErrOK' /\ RespOK'
    BY <1>1
    DEF IInv, TypeOK, SentOK, TotalOK, HeldOK, ErrOK, Clean, RespOK, EndOf,
        readerVars, bodyVars, writerVars
<1>3. PipeOK'
    BY <1>1
    DEF IInv, PipeOK, BodyIntact, Delivered, UnderWay, EndOf, Going,
        readerVars, bodyVars
<1>4. EndOK'
    BY <1>1 DEF IInv, EndOK, ReceivedWhole, readerVars, bodyVars
<1>. QED
    BY <1>2, <1>3, <1>4 DEF IInv

-----------------------------------------------------------------------------
(* The reader                                                              *)

\* While the reader waits for data no error is under way.
LEMMA RecvClean ==
    ASSUME IInv, reader = "recv"
    PROVE  /\ held = <<>> /\ Going /\ Clean(Delivered)
           /\ saw = "nothing" /\ out = <<>>
           /\ writer \notin {"head", "body", "done"}
           /\ Carried(Delivered, EndOf(sent))
<1>1. held = <<>> /\ Going
    BY DEF IInv, HeldOK, Going
<1>2. /\ saw = "nothing" /\ Clean(chan) /\ out = <<>>
      /\ writer \notin {"head", "body", "done"}
    BY DEF IInv, TypeOK, ErrOK, EndOK, ReaderEnded, RespOK
<1>3. Clean(got)
    BY ErrorAssumption DEF IInv, TypeOK, Clean
<1>4. Clean(Delivered)
    <2>1. UnderWay \in Seq(Items) /\ Clean(UnderWay)
        <3>1. chan \o <<>> = chan
            BY ConcatEmptySeq DEF IInv, TypeOK
        <3>. QED
            BY <1>1, <1>2, <3>1, Shapes DEF UnderWay, Clean, IInv
    <2>2. got \in Seq(Items)
        BY Shapes DEF IInv
    <2>. HIDE DEF UnderWay
    <2>. QED
        BY <1>3, <2>1, <2>2 DEF Delivered, Clean
<1>5. Carried(Delivered, EndOf(sent))
    BY DEF IInv, PipeOK, BodyIntact, Carried
<1>. QED
    BY <1>1, <1>2, <1>4, <1>5

\* An item that the reader begins to send comes behind all others.
LEMMA HeldBehind ==
    ASSUME TypeOK, held = <<>>, NEW y \in Items, held' = <<y>>,
           UNCHANGED bodyVars
    PROVE  Delivered' = IF rx = "closed" THEN Delivered
                                         ELSE Append(Delivered, y)
<1>1. got \in Seq(Chunk) /\ chan \in Seq(Items)
    BY DEF TypeOK
<1>2. got \o (chan \o <<y>>) = Append(got \o (chan \o <<>>), y)
    BY <1>1, PushSame
<1>. QED
    BY <1>2 DEF Delivered, UnderWay, bodyVars

\* A chunk arrives: it continues the body at the byte the reader has counted.
LEMMA RecvChunkOK ==
    ASSUME IInv, RecvChunk
    PROVE  IInv'
<1>. DEFINE x == sent[received + 1]
<1>1. /\ reader = "recv" /\ received' = received + 1
      /\ total' = total + Size(x)
      /\ UNCHANGED <<client, sent, bodyVars, writerVars>>
    BY DEF RecvChunk, clientVars
<1>2. /\ received \in Nat /\ received + 1 \in DOMAIN sent
      /\ received + 1 \in 0..Len(sent)
    BY DEF IInv, TypeOK, RecvChunk, AllReceived
<1>3. /\ x \in Chunk /\ x.from \in Nat /\ x.to \in Nat /\ x.from <= x.to
      /\ x.to <= EndOf(sent) /\ EndOf(sent) \in Nat
    BY <1>2, SentShape, Shapes DEF IInv, SentOK
<1>4. x.from = total
    <2>1. x.from = (IF received + 1 = 1 THEN 0 ELSE sent[received + 1 - 1].to)
        BY <1>2 DEF IInv, SentOK
    <2>2. received + 1 - 1 = received /\ (received + 1 = 1 <=> received = 0)
        BY <1>2
    <2>. QED
        BY <2>1, <2>2 DEF IInv, TotalOK
<1>. HIDE DEF x
<1>5. total' = x.to /\ total \in Nat /\ Size(x) = x.to - x.from
    BY <1>1, <1>3, <1>4 DEF Size
<1>6. /\ held = <<>> /\ Going /\ Clean(Delivered) /\ saw = "nothing"
      /\ Carried(Delivered, EndOf(sent)) /\ out = <<>>
      /\ writer \notin {"head", "body", "done"}
    BY <1>1, RecvClean
<1>7. SentOK' /\ TotalOK'
    BY <1>1, <1>2, <1>5 DEF IInv, SentOK, TotalOK, EndOf, x
<1>8. \/ /\ x.from = x.to /\ UNCHANGED <<reader, held>>
      \/ /\ x.from < x.to /\ reader' = "send"
         /\ \/ x.to > MaxBody /\ held' = <<Error>>
            \/ x.to <= MaxBody /\ held' = <<x>>
    BY <1>1, <1>3, <1>5, H3RequestAssumption DEF RecvChunk, TooLong, x
<1>9. TypeOK'
    <2>1. held' \in Seq(Items) /\ Len(held') <= 1
        <3>1. x \in Items /\ Error \in Items
            BY <1>3 DEF Items
        <3>2. /\ <<x>> \in Seq(Items) /\ <<Error>> \in Seq(Items)
              /\ Len(<<x>>) <= 1 /\ Len(<<Error>>) <= 1
            BY <3>1
        <3>3. held \in Seq(Items) /\ Len(held) <= 1
            BY DEF IInv, TypeOK
        <3>4. held' \in {held, <<x>>, <<Error>>}
            BY <1>8
        <3>. QED
            BY <3>2, <3>3, <3>4
    <2>. QED
        BY <1>1, <1>2, <1>3, <1>5, <1>8, <2>1
        DEF IInv, TypeOK, bodyVars, writerVars
<1>10. HeldOK' /\ ErrOK' /\ EndOK' /\ RespOK'
    <2>1. HeldOK'
        BY <1>1, <1>6, <1>8 DEF HeldOK
    <2>2. ErrOK' /\ EndOK'
        BY <1>1, <1>6, <1>8 DEF IInv, ErrOK, EndOK, bodyVars, Clean
    <2>3. RespOK'
        BY <1>1, <1>6, <1>8 DEF IInv, RespOK, bodyVars, writerVars
    <2>. QED
        BY <2>1, <2>2, <2>3
<1>11. PipeOK'
    <2>1. /\ EndOf(sent)' = EndOf(sent) /\ rx' = rx /\ chan' = chan
          /\ Delivered \in Seq(Items)
          /\ total <= MaxBody /\ (rx # "closed" => EndOf(Delivered) = total)
        BY <1>1, <1>6, Shapes DEF IInv, PipeOK, EndOf, bodyVars
    <2>2. CASE x.from = x.to /\ UNCHANGED <<reader, held>>
        <3>1. Delivered' = Delivered /\ total' = total
            BY <1>1, <1>4, <1>5, <2>2 DEF Delivered, UnderWay, bodyVars
        <3>. QED
            BY <2>1, <3>1, <1>6 DEF IInv, PipeOK, BodyIntact, Carried, EndOf,
               Follows
    <2>3. CASE x.to > MaxBody /\ held' = <<Error>> /\ reader' = "send"
        <3>1. Delivered' = IF rx = "closed" THEN Delivered
                                            ELSE Append(Delivered, Error)
            BY <1>1, <1>6, <2>3, HeldBehind DEF IInv, Items
        <3>2. Carried(Delivered', EndOf(sent)) /\ ~Going'
            BY <1>3, <1>6, <2>1, <2>3, <3>1, CarriedError DEF Going
        <3>. QED
            BY <2>1, <3>2 DEF IInv, PipeOK, BodyIntact, Carried, Follows
    <2>4. CASE x.to <= MaxBody /\ held' = <<x>> /\ reader' = "send" /\ x.from < x.to
        <3>1. Delivered' = IF rx = "closed" THEN Delivered
                                            ELSE Append(Delivered, x)
            BY <1>1, <1>3, <1>6, <2>4, HeldBehind DEF IInv, Items
        <3>2. CASE rx = "closed"
            BY <1>5, <1>6, <2>1, <2>4, <3>1, <3>2
            DEF IInv, PipeOK, BodyIntact, Carried, Follows
        <3>3. CASE rx # "closed"
            <4>1. Carried(Delivered', EndOf(sent)) /\ EndOf(Delivered') = x.to
                BY <1>3, <1>4, <1>6, <2>1, <2>4, <3>1, <3>3, CarriedChunk
            <4>. QED
                BY <1>5, <2>1, <2>4, <3>3, <4>1
                DEF PipeOK, BodyIntact, Carried, Follows, EndOf
        <3>. QED
            BY <3>2, <3>3
    <2>. QED
        BY <1>8, <2>2, <2>3, <2>4
<1>. QED
    BY <1>7, <1>9, <1>10, <1>11 DEF IInv

\* The end of the body: everything sent was received.
LEMMA RecvEndOK ==
    ASSUME IInv, RecvEnd
    PROVE  IInv'
<1>1. /\ reader = "recv" /\ AllReceived /\ client = "eof" /\ reader' = "ok"
      /\ UNCHANGED <<client, sent, received, held, total, bodyVars, writerVars>>
    BY DEF RecvEnd, clientVars
<1>2. /\ held = <<>> /\ Going /\ saw = "nothing" /\ out = <<>>
      /\ writer \notin {"head", "body", "done"}
    BY <1>1, RecvClean
<1>3. TypeOK' /\ SentOK' /\ TotalOK' /\ HeldOK' /\ ErrOK' /\ RespOK'
    BY <1>1, <1>2
    DEF IInv, TypeOK, SentOK, TotalOK, HeldOK, ErrOK, Clean, RespOK, EndOf,
        bodyVars, writerVars
<1>4. PipeOK'
    BY <1>1, <1>2
    DEF IInv, PipeOK, BodyIntact, Delivered, UnderWay, EndOf, Going, bodyVars
<1>5. EndOK'
    BY <1>1, <1>2 DEF EndOK, AllReceived, bodyVars
<1>. QED
    BY <1>3, <1>4, <1>5 DEF IInv

\* A failure becomes an error item, behind everything received.
LEMMA RecvFailOK ==
    ASSUME IInv, RecvFail
    PROVE  IInv'
<1>1. /\ reader = "recv" /\ reader' = "send" /\ held' = <<Error>>
      /\ UNCHANGED <<client, sent, received, total, bodyVars, writerVars>>
    BY DEF RecvFail, clientVars
<1>2. /\ held = <<>> /\ saw = "nothing" /\ out = <<>> /\ Clean(Delivered)
      /\ writer \notin {"head", "body", "done"}
      /\ Carried(Delivered, EndOf(sent))
    BY <1>1, RecvClean
<1>3. TypeOK' /\ SentOK' /\ TotalOK' /\ HeldOK' /\ ErrOK' /\ RespOK'
    BY <1>1, <1>2
    DEF IInv, TypeOK, SentOK, TotalOK, HeldOK, ErrOK, Clean, RespOK, EndOf,
        Items, bodyVars, writerVars
<1>4. PipeOK'
    <2>1. Delivered' = IF rx = "closed" THEN Delivered
                                        ELSE Append(Delivered, Error)
        BY <1>1, <1>2, HeldBehind DEF IInv, Items
    <2>2. EndOf(sent)' = EndOf(sent) /\ EndOf(sent) \in Nat /\ ~Going'
          /\ Delivered \in Seq(Items)
        BY <1>1, Shapes DEF IInv, EndOf, Going
    <2>3. Carried(Delivered', EndOf(sent))
        BY <1>2, <2>1, <2>2, CarriedError
    <2>. QED
        BY <1>1, <2>2, <2>3
        DEF IInv, PipeOK, BodyIntact, Carried, Follows, bodyVars
<1>5. EndOK'
    BY <1>1, <1>2 DEF EndOK, bodyVars
<1>. QED
    BY <1>3, <1>4, <1>5 DEF IInv

\* The item reaches the channel, or finds no receiver.
LEMMA SendItemOK ==
    ASSUME IInv, SendItem
    PROVE  IInv'
<1>1. /\ reader = "send" /\ held' = <<>>
      /\ UNCHANGED <<client, sent, received, total, rx, got, saw, writerVars>>
    BY DEF SendItem, clientVars
<1>2. PICK h \in Items : held = <<h>>
    <2>1. held \in Seq(Items) /\ Len(held) = 1
        BY <1>1 DEF IInv, TypeOK, HeldOK
    <2>2. held = <<held[1]>> /\ held[1] \in Items
        BY <2>1
    <2>. QED
        BY <2>2
<1>3. /\ saw = "nothing" /\ Clean(chan) /\ out = <<>>
      /\ writer \notin {"head", "body", "done"}
    BY <1>1 DEF IInv, TypeOK, ErrOK, EndOK, ReaderEnded, RespOK
<1>4. \/ /\ rx # "closed" /\ Len(chan) < Cap /\ chan' = chan \o held
         /\ reader' = IF h = Error THEN "err" ELSE "recv"
      \/ /\ rx = "closed" /\ chan' = chan
         /\ reader' = IF h = Error THEN "err" ELSE "ok"
    BY <1>2 DEF SendItem, Deliverable
<1>5. chan \in Seq(Items) /\ got \in Seq(Chunk)
    BY DEF IInv, TypeOK
<1>6. rx # "closed" =>
          /\ chan' \in Seq(Items) /\ Len(chan') = Len(chan) + 1
          /\ chan'[Len(chan')] = h /\ chan' # <<>> /\ chan' \o <<>> = chan'
          /\ h # Error => Clean(chan')
    <2>1. CASE rx # "closed"
        <3>1. chan' = Append(chan, h)
            BY <1>2, <1>4, <1>5, <2>1, AppendIsConcat
        <3>2. /\ chan' \in Seq(Items) /\ Len(chan') = Len(chan) + 1
              /\ chan'[Len(chan')] = h /\ chan' # <<>>
            BY <1>5, <3>1
        <3>3. h # Error => Clean(chan')
            BY <1>3, <1>5, <3>1 DEF Clean
        <3>. QED
            BY <3>2, <3>3, ConcatEmptySeq
    <2>. QED
        BY <2>1
<1>7. TypeOK'
    BY <1>1, <1>4, <1>6, H3RequestAssumption DEF IInv, TypeOK, writerVars
<1>8. SentOK' /\ TotalOK' /\ HeldOK'
    BY <1>1, <1>4 DEF IInv, SentOK, TotalOK, HeldOK, EndOf
<1>9. ErrOK'
    BY <1>1, <1>3, <1>4, <1>6 DEF ErrOK, Clean
<1>10. EndOK'
    BY <1>1, <1>3, <1>4 DEF EndOK
<1>11. RespOK'
    BY <1>1, <1>3, <1>4 DEF IInv, RespOK, writerVars
<1>12. PipeOK'
    <2>1. Delivered' = Delivered
        BY <1>1, <1>4, <1>6 DEF Delivered, UnderWay
    <2>2. Going' => Going
        BY <1>1, <1>2, <1>4 DEF Going
    <2>. QED
        BY <1>1, <1>4, <2>1, <2>2 DEF IInv, PipeOK, BodyIntact, EndOf, Follows
<1>. QED
    BY <1>7, <1>8, <1>9, <1>10, <1>11, <1>12 DEF IInv

-----------------------------------------------------------------------------
(* Reading the request body                                                *)

\* An item is taken from the channel by whoever holds the receiver.
LEMMA PopItemOK ==
    ASSUME IInv, PopItem, rx # "closed",
           UNCHANGED <<client, sent, received, reader, held, total>>
    PROVE  /\ got' \in Seq(Chunk) /\ chan' \in Seq(Items) /\ Len(chan') <= Cap
           /\ rx' = rx /\ saw' \in {"nothing", "error"} /\ SentOK' /\ TotalOK'
           /\ HeldOK' /\ PipeOK' /\ ErrOK' /\ EndOK'
           /\ saw # "end" /\ saw' # "end"
<1>. DEFINE h == Head(chan)
<1>1. /\ chan # <<>> /\ chan' = Tail(chan) /\ rx' = rx
      /\ IF h = Error THEN saw' = "error" /\ got' = got
                      ELSE got' = Append(got, h) /\ saw' = saw
    BY DEF PopItem
<1>2. /\ chan \in Seq(Items) /\ held \in Seq(Items) /\ got \in Seq(Chunk)
      /\ Len(chan) <= Cap /\ saw \in {"nothing", "end", "error"}
    BY DEF IInv, TypeOK
<1>3. /\ h \in Items /\ h = chan[1] /\ chan' \in Seq(Items)
      /\ Len(chan') = Len(chan) - 1 /\ Len(chan) \in Nat \ {0}
      /\ \A i \in 1..Len(chan') : chan'[i] = chan[i + 1]
    BY <1>1, <1>2
<1>. HIDE DEF h
<1>4. saw # "end" /\ saw' \in {"nothing", "error"}
    BY <1>1, <1>2 DEF IInv, EndOK
<1>5. got' \in Seq(Chunk) /\ Len(chan') <= Cap
    <2>1. h # Error => h \in Chunk
        BY <1>3 DEF Items
    <2>2. got' \in Seq(Chunk)
        <3>1. CASE h = Error
            BY <1>1, <1>2, <3>1
        <3>2. CASE h # Error
            <4>1. got' = Append(got, h) /\ h \in Chunk /\ got \in Seq(Chunk)
                BY <1>1, <1>2, <2>1, <3>2
            <4>. QED
                BY <4>1
        <3>. QED
            BY <3>1, <3>2
    <2>3. Cap \in Nat
        BY H3RequestAssumption
    <2>. QED
        BY <1>2, <1>3, <2>2, <2>3
<1>6. SentOK' /\ TotalOK' /\ HeldOK'
    BY DEF IInv, SentOK, TotalOK, HeldOK, EndOf
<1>7. EndOK'
    BY <1>1, <1>4 DEF IInv, EndOK, AllReceived
<1>8. Delivered = got \o (chan \o held) /\ Delivered' = got' \o (chan' \o held)
    BY <1>1 DEF Delivered, UnderWay
<1>9. CASE h = Error
    <2>1. reader = "err" /\ saw' = "error" /\ got' = got
        <3>1. ~Clean(chan)
            <4>1. 1 \in DOMAIN chan
                BY <1>2, <1>3
            <4>. QED
                BY <1>3, <1>9, <4>1 DEF Clean
        <3>. QED
            BY <1>1, <1>9, <3>1 DEF IInv, ErrOK
    <2>2. held = <<>>
        BY <2>1 DEF IInv, HeldOK
    <2>3. Len(chan) = 1
        <3>1. Delivered = got \o chan
            BY <1>2, <1>8, <2>2, ConcatEmptySeq
        <3>2. /\ Len(Delivered) = Len(got) + Len(chan)
              /\ Len(got) + 1 \in DOMAIN Delivered
              /\ Delivered[Len(got) + 1] = Error
            <4>1. got \in Seq(Items) /\ Len(got) \in Nat
                BY <1>2, Shapes DEF IInv
            <4>2. /\ Len(got \o chan) = Len(got) + Len(chan)
                  /\ (got \o chan)[Len(got) + 1] = chan[1]
                  /\ DOMAIN (got \o chan) = 1..Len(got) + Len(chan)
                BY <1>2, <1>3, <4>1
            <4>. QED
                BY <1>3, <1>9, <3>1, <4>1, <4>2
        <3>3. Len(got) + 1 = Len(Delivered)
            BY <3>2 DEF IInv, PipeOK, BodyIntact
        <3>. QED
            BY <1>2, <1>3, <3>2, <3>3
    <2>4. chan' = <<>>
        BY <1>3, <2>3
    <2>5. Delivered' = got
        BY <1>2, <1>8, <2>1, <2>2, <2>4, ConcatEmptySeq
    <2>6. Carried(got, EndOf(sent))
        <3>1. Carried(got \o (chan \o held), EndOf(sent))
            BY <1>8 DEF IInv, PipeOK, BodyIntact, Carried
        <3>2. chan \o held \in Seq(Items) /\ EndOf(sent) \in Nat
            BY Shapes DEF IInv
        <3>. QED
            BY <1>2, <3>1, <3>2, CarriedPrefix
    <2>7. PipeOK'
        <3>1. ~Going' /\ EndOf(sent)' = EndOf(sent)
            BY <2>1 DEF Going, EndOf
        <3>. QED
            BY <1>1, <2>5, <2>6, <3>1, <2>4
            DEF PipeOK, BodyIntact, Carried, Follows
    <2>8. ErrOK'
        BY <2>1 DEF ErrOK
    <2>. QED
        BY <1>1, <1>2, <1>3, <1>4, <1>5, <1>6, <1>7, <2>7, <2>8
<1>10. CASE h # Error
    <2>1. got' = Append(got, h) /\ saw' = saw
        BY <1>1, <1>10
    <2>2. Delivered' = Delivered
        BY <1>1, <1>2, <1>8, <2>1, PopSame DEF h
    <2>3. PipeOK'
        BY <1>1, <2>2
        DEF IInv, PipeOK, BodyIntact, Follows, EndOf, Going
    <2>4. ErrOK'
        <3>1. reader # "err" => saw' # "error" /\ Clean(chan')
            BY <1>3, <2>1 DEF IInv, ErrOK, Clean
        <3>2. ASSUME chan[Len(chan)] = Error
              PROVE  chan' # <<>> /\ chan'[Len(chan')] = Error
            <4>1. Len(chan) # 1
                BY <1>3, <1>10, <3>2
            <4>. QED
                BY <1>3, <3>2, <4>1
        <3>. QED
            BY <1>1, <2>1, <3>1, <3>2 DEF IInv, ErrOK
    <2>. QED
        BY <1>1, <1>2, <1>3, <1>4, <1>5, <1>6, <1>7, <2>3, <2>4
<1>. QED
    BY <1>9, <1>10

\* The end of the stream: the sender is gone and the channel is empty.
LEMMA PopEndOK ==
    ASSUME IInv, PopEnd, rx # "closed",
           UNCHANGED <<client, sent, received, reader, held, total>>
    PROVE  /\ UNCHANGED <<chan, rx, got>> /\ saw' = "end" /\ SentOK' /\ TotalOK'
           /\ HeldOK' /\ PipeOK' /\ ErrOK' /\ EndOK' /\ reader = "ok"
<1>1. /\ chan = <<>> /\ saw # "error" /\ reader \in {"ok", "err"}
      /\ saw' = "end" /\ UNCHANGED <<chan, rx, got>>
    BY DEF PopEnd, ReaderEnded
<1>2. reader = "ok"
    BY <1>1 DEF IInv, ErrOK
<1>3. SentOK' /\ TotalOK' /\ HeldOK' /\ ErrOK'
    BY <1>1, <1>2 DEF IInv, SentOK, TotalOK, HeldOK, ErrOK, EndOf, Clean
<1>4. PipeOK'
    BY <1>1
    DEF IInv, PipeOK, BodyIntact, Delivered, UnderWay, EndOf, Going, Follows
<1>5. EndOK'
    <2>1. client = "eof" /\ received = Len(sent)
        BY <1>2 DEF IInv, EndOK, AllReceived
    <2>2. Delivered = got /\ got \in Seq(Chunk)
        <3>1. chan \o held = <<>> /\ got \in Seq(Chunk)
            BY <1>1, <1>2 DEF IInv, HeldOK, TypeOK
        <3>. QED
            BY <3>1, ConcatEmptySeq DEF Delivered, UnderWay
    <2>3. EndOf(got) = total
        BY <1>2, <2>2 DEF IInv, PipeOK, Going
    <2>4. total = EndOf(sent)
        BY <2>1 DEF IInv, TypeOK, TotalOK, EndOf
    <2>5. Gapless(got)
        <3>1. \A i \in DOMAIN got : got[i] # Error
            BY <2>2, ErrorAssumption
        <3>. QED
            BY <2>2, <3>1 DEF IInv, PipeOK, BodyIntact, Gapless
    <2>. QED
        BY <1>1, <1>2, <2>1, <2>3, <2>4, <2>5
        DEF EndOK, ReceivedWhole, AllReceived, ReaderEnded, EndOf, Gapless,
            Follows
<1>. QED
    BY <1>1, <1>2, <1>3, <1>4, <1>5

-----------------------------------------------------------------------------
(* The handler and the response                                            *)

\* The handler reads.
LEMMA HandlerReadOK ==
    ASSUME IInv, HandlerRead
    PROVE  IInv'
<1>1. /\ writer = "handler" /\ rx = "handler"
      /\ PopItem \/ PopEnd
      /\ UNCHANGED <<client, sent, received, reader, held, total>>
      /\ UNCHANGED writerVars
    BY DEF HandlerRead, clientVars, readerVars
<1>2. /\ got' \in Seq(Chunk) /\ chan' \in Seq(Items) /\ Len(chan') <= Cap
      /\ rx' = rx /\ saw' \in {"nothing", "end", "error"}
      /\ SentOK' /\ TotalOK' /\ HeldOK' /\ PipeOK' /\ ErrOK' /\ EndOK'
    <2>1. CASE PopItem
        BY <1>1, <2>1, PopItemOK
    <2>2. CASE PopEnd
        BY <1>1, <2>2, PopEndOK DEF IInv, TypeOK
    <2>. QED
        BY <1>1, <2>1, <2>2
<1>3. TypeOK'
    BY <1>1, <1>2 DEF IInv, TypeOK, writerVars
<1>4. RespOK'
    BY <1>1, <1>2 DEF IInv, RespOK, writerVars
<1>. QED
    BY <1>2, <1>3, <1>4 DEF IInv

\* The receiver is dropped, and with it what is in the channel.
LEMMA CloseOK ==
    ASSUME IInv, rx' = "closed", chan' = <<>>,
           UNCHANGED <<client, sent, received, reader, held, total, got, saw>>
    PROVE  SentOK' /\ TotalOK' /\ HeldOK' /\ PipeOK' /\ ErrOK' /\ EndOK'
<1>1. SentOK' /\ TotalOK' /\ HeldOK' /\ ErrOK'
    BY DEF IInv, SentOK, TotalOK, HeldOK, ErrOK, EndOf, Clean
<1>2. EndOK'
    BY DEF IInv, EndOK, ReceivedWhole, ReaderEnded
<1>3. PipeOK'
    <2>1. Delivered' = got /\ got \in Seq(Chunk) /\ EndOf(sent)' = EndOf(sent)
        BY ConcatEmptySeq DEF Delivered, UnderWay, IInv, TypeOK, EndOf
    <2>2. Carried(got \o UnderWay, EndOf(sent))
        BY DEF IInv, PipeOK, BodyIntact, Delivered, Carried
    <2>3. Carried(got, EndOf(sent))
        BY <2>1, <2>2, Shapes, CarriedPrefix DEF IInv
    <2>. QED
        BY <2>1, <2>3 DEF IInv, PipeOK, BodyIntact, Carried, Follows, Going
<1>. QED
    BY <1>1, <1>2, <1>3

\* The handler returns, or panics.
LEMMA HandlerEndOK ==
    ASSUME IInv,
           \/ \E body \in RespBodies : HandlerReturn(body)
           \/ HandlerReturnStream \/ HandlerPanic
    PROVE  IInv'
<1>1. /\ writer = "handler" /\ writer' \in {"join", "failed"}
      /\ UNCHANGED <<client, sent, received, reader, held, total, got, saw>>
      /\ UNCHANGED <<framed, buf, out>>
      /\ frames' = frames \/ frames' \in RespBodies
      /\ \/ rx' = "closed" /\ chan' = <<>>
         \/ rx' = "response" /\ chan' = chan
    BY DEF HandlerReturn, HandlerReturnStream, HandlerPanic, clientVars,
       readerVars
<1>2. TypeOK'
    <2>1. frames' \in Seq(Nat)
        BY <1>1, H3RequestAssumption DEF IInv, TypeOK
    <2>2. chan' \in Seq(Items) /\ Len(chan') <= Cap
        <3>1. <<>> \in Seq(Items) /\ Len(<<>>) <= Cap
            BY H3RequestAssumption
        <3>. QED
            BY <1>1, <3>1 DEF IInv, TypeOK
    <2>. QED
        BY <1>1, <2>1, <2>2 DEF IInv, TypeOK
<1>3. RespOK'
    BY <1>1 DEF IInv, RespOK
<1>4. CASE rx' = "closed" /\ chan' = <<>>
    BY <1>1, <1>2, <1>3, <1>4, CloseOK DEF IInv
<1>5. CASE rx' = "response" /\ chan' = chan /\ rx # "closed"
    <2>1. SentOK' /\ TotalOK' /\ HeldOK' /\ ErrOK' /\ EndOK'
        BY <1>1, <1>5
        DEF IInv, SentOK, TotalOK, HeldOK, ErrOK, EndOK, EndOf, Clean,
            ReceivedWhole, ReaderEnded, AllReceived
    <2>2. Delivered' = Delivered
        BY <1>1, <1>5 DEF Delivered, UnderWay
    <2>3. PipeOK'
        BY <1>1, <1>5, <2>2 DEF IInv, PipeOK, BodyIntact, EndOf, Going, Follows
    <2>. QED
        BY <1>2, <1>3, <2>1, <2>3 DEF IInv
<1>6. rx # "closed"
    BY <1>1 DEF IInv, RespOK
<1>. QED
    BY <1>1, <1>4, <1>5, <1>6

\* A step of the writer that reads no request body and leaves the response
\* body as it is.
LEMMA WriterOnlyOK ==
    ASSUME IInv, TypeOK', RespOK',
           UNCHANGED <<client, sent, received, reader, held, total, chan, rx,
                       got, saw>>
    PROVE  IInv'
<1>1. SentOK' /\ TotalOK' /\ HeldOK' /\ ErrOK' /\ EndOK'
    BY DEF IInv, SentOK, TotalOK, HeldOK, ErrOK, EndOK, EndOf, Clean,
       ReceivedWhole, ReaderEnded, AllReceived
<1>2. Delivered' = Delivered
    BY DEF Delivered, UnderWay
<1>3. PipeOK'
    BY <1>2 DEF IInv, PipeOK, BodyIntact, EndOf, Going, Follows
<1>. QED
    BY <1>1, <1>3 DEF IInv

\* Giving up at the join or at a failed write.
LEMMA FailOK ==
    ASSUME IInv, Fail, UNCHANGED <<client, sent, received, readerVars>>
    PROVE  IInv'
<1>1. /\ writer' = "failed" /\ rx' = "closed" /\ chan' = <<>>
      /\ UNCHANGED <<client, sent, received, reader, held, total, got, saw>>
      /\ UNCHANGED <<frames, framed, buf, out>>
    BY DEF Fail, readerVars
<1>2. <<>> \in Seq(Items) /\ Len(<<>>) <= Cap
    BY H3RequestAssumption
<1>3. TypeOK'
    BY <1>1, <1>2 DEF IInv, TypeOK
<1>4. RespOK'
    BY <1>1 DEF IInv, RespOK
<1>. QED
    BY <1>1, <1>3, <1>4, CloseOK DEF IInv

\* The join, the head of the response, and writes that fail.
LEMMA JoinHeadOK ==
    ASSUME IInv, JoinReader \/ SendHead \/ WriteFail
    PROVE  IInv'
<1>1. CASE Fail /\ UNCHANGED <<client, sent, received, readerVars>>
    BY <1>1, FailOK
<1>2. CASE /\ reader = "ok" /\ writer' \in {"head", "body"}
           /\ writer \in {"join", "head"}
           /\ UNCHANGED <<client, sent, received, reader, held, total, chan, rx,
                          got, saw>>
           /\ UNCHANGED <<frames, framed, buf, out>>
    <2>1. TypeOK'
        BY <1>2 DEF IInv, TypeOK
    <2>2. RespOK'
        BY <1>2 DEF IInv, RespOK
    <2>. QED
        BY <1>2, <2>1, <2>2, WriterOnlyOK
<1>3. CASE JoinReader
    BY <1>1, <1>2, <1>3
    DEF JoinReader, clientVars, readerVars, bodyVars
<1>4. CASE SendHead
    <2>1. reader = "ok"
        BY <1>4 DEF SendHead, IInv, RespOK
    <2>. QED
        BY <1>2, <1>4, <2>1 DEF SendHead, clientVars, readerVars, bodyVars
<1>5. CASE WriteFail
    BY <1>1, <1>5 DEF WriteFail, clientVars
<1>. QED
    BY <1>3, <1>4, <1>5

\* The next frame of the response, from the handler or from the request body.
LEMMA NextFrameOK ==
    ASSUME IInv, NextFrame
    PROVE  IInv'
<1>1. /\ writer = "body" /\ buf = 0 /\ framed' = framed + buf'
      /\ UNCHANGED <<writer, out, client, sent, received, reader, held, total>>
    BY DEF NextFrame, clientVars, readerVars
<1>2. ASSUME buf' \in Nat, rx' = rx, saw' = saw PROVE RespOK' /\ framed' \in Nat
    <2>1. EndOf(out) \in Nat
        BY Shapes DEF IInv, TypeOK
    <2>2. reader' = "ok" /\ rx' # "handler"
        BY <1>1, <1>2 DEF IInv, RespOK
    <2>3. /\ Gapless(out)' /\ EndOf(out)' = EndOf(out)
          /\ \A i \in DOMAIN out' : Size(out'[i]) <= ChunkSize
        BY <1>1 DEF IInv, RespOK, EndOf, Gapless, Follows
    <2>4. EndOf(out) + buf = framed /\ buf = 0
        BY <1>1 DEF IInv, RespOK
    <2>5. framed' = framed + buf' /\ framed' \in Nat
        <3>1. framed' = framed + buf' /\ buf' \in Nat /\ framed \in Nat
            BY <1>1, <1>2 DEF IInv, TypeOK
        <3>2. \A a, b \in Nat : a + b \in Nat
            OBVIOUS
        <3>. QED
            BY <3>1, <3>2, Zenon
    <2>6. EndOf(out) = framed
        BY <2>1, <2>4
    <2>7. EndOf(out)' + buf' = framed'
        BY <2>3, <2>5, <2>6, Zenon
    <2>. QED
        BY <1>1, <2>2, <2>3, <2>5, <2>7 DEF RespOK
<1>3. CASE frames # <<>> /\ buf' = Head(frames) /\ frames' = Tail(frames)
           /\ UNCHANGED bodyVars
    <2>1. buf' \in Nat /\ frames' \in Seq(Nat)
        BY <1>3 DEF IInv, TypeOK
    <2>2. UNCHANGED <<chan, rx, got, saw>>
        BY <1>3 DEF bodyVars
    <2>3. RespOK' /\ framed' \in Nat
        BY <1>2, <2>1, <2>2
    <2>4. TypeOK'
        BY <1>1, <2>1, <2>2, <2>3 DEF IInv, TypeOK
    <2>. QED
        BY <1>1, <2>2, <2>3, <2>4, WriterOnlyOK
<1>4. CASE rx = "response" /\ chan # <<>> /\ Head(chan) # Error
           /\ PopItem /\ buf' = Size(Head(chan)) /\ UNCHANGED frames
    <2>1. /\ got' \in Seq(Chunk) /\ chan' \in Seq(Items) /\ Len(chan') <= Cap
          /\ rx' = rx /\ SentOK' /\ TotalOK' /\ HeldOK' /\ PipeOK' /\ ErrOK'
          /\ EndOK'
        BY <1>1, <1>4, PopItemOK
    <2>2. saw' = saw /\ got' = Append(got, Head(chan))
        BY <1>4 DEF PopItem
    <2>3. buf' \in Nat
        <3>1. EndOf(got') = Head(chan).to /\ Len(got') \in DOMAIN got'
              /\ got'[Len(got')] = Head(chan) /\ Head(chan) \in Chunk
            <4>1. Head(chan) \in Items
                BY <1>4 DEF IInv, TypeOK
            <4>2. Head(chan) \in Chunk
                BY <1>4, <4>1 DEF Items
            <4>3. got \in Seq(Chunk)
                BY DEF IInv, TypeOK
            <4>4. /\ Len(got') = Len(got) + 1 /\ got'[Len(got) + 1] = Head(chan)
                  /\ DOMAIN got' = 1..Len(got) + 1 /\ Len(got) \in Nat
                  /\ got' # <<>>
                BY <2>2, <4>2, <4>3
            <4>. QED
                BY <4>2, <4>4 DEF EndOf
        <3>2. Carried(got', EndOf(sent)')
            <4>1. Carried(got' \o UnderWay', EndOf(sent)')
                BY <2>1 DEF PipeOK, BodyIntact, Delivered, Carried, Follows
            <4>2. UnderWay' \in Seq(Items)
                <5>1. held \in Seq(Items) /\ held' = held /\ rx' # "closed"
                    BY <1>1, <1>4, <2>1 DEF IInv, TypeOK
                <5>. QED
                    BY <2>1, <5>1, ConcatProperties DEF UnderWay
            <4>3. EndOf(sent)' \in Nat
                BY <1>1, Shapes DEF IInv, EndOf
            <4>. QED
                BY <2>1, <4>1, <4>2, <4>3, CarriedPrefix
        <3>3. Head(chan).from < Head(chan).to
            BY <3>1, <3>2, ErrorAssumption DEF Carried, Follows
        <3>4. Head(chan).from \in Nat /\ Head(chan).to \in Nat
            BY <3>1 DEF Chunk
        <3>. QED
            BY <1>4, <3>3, <3>4 DEF Size
    <2>4. RespOK' /\ framed' \in Nat
        BY <1>2, <2>1, <2>2, <2>3
    <2>5. TypeOK'
        BY <1>1, <1>4, <2>1, <2>2, <2>3, <2>4 DEF IInv, TypeOK
    <2>. QED
        BY <2>1, <2>4, <2>5 DEF IInv
<1>. QED
    BY <1>3, <1>4 DEF NextFrame

\* A chunk of the frame, taken from its front.
LEMMA SendChunkOK ==
    ASSUME IInv, SendChunk
    PROVE  IInv'
<1>. DEFINE n == IF buf < ChunkSize THEN buf ELSE ChunkSize
            x == [from |-> framed - buf, to |-> framed - buf + n]
<1>1. /\ writer = "body" /\ buf > 0 /\ buf' = buf - n /\ out' = Append(out, x)
      /\ UNCHANGED <<writer, frames, framed>>
      /\ UNCHANGED <<client, sent, received, reader, held, total, chan, rx, got,
                     saw>>
    BY DEF SendChunk, clientVars, readerVars, bodyVars
<1>2. /\ out \in Seq(Chunk) /\ EndOf(out) \in Nat /\ buf \in Nat
      /\ framed \in Nat /\ EndOf(out) + buf = framed
    BY Shapes DEF IInv, TypeOK, RespOK
<1>3. n \in 1..ChunkSize /\ n <= buf /\ n \in Nat /\ buf - n \in Nat
    BY <1>1, <1>2, H3RequestAssumption
<1>4. x.from = EndOf(out) /\ x.to = EndOf(out) + n
    BY <1>2, <1>3
<1>5. x \in Chunk
    <2>. HIDE DEF n
    <2>1. framed - buf = EndOf(out)
        BY <1>2
    <2>2. framed - buf \in Nat /\ framed - buf + n \in Nat
        BY <1>2, <1>3, <2>1
    <2>. QED
        BY <2>2 DEF Chunk
<1>. HIDE DEF n, x
<1>6. /\ out' \in Seq(Chunk) /\ DOMAIN out = 1..Len(out) /\ Len(out) \in Nat
      /\ DOMAIN out' = 1..Len(out) + 1 /\ Len(out') = Len(out) + 1
      /\ out'[Len(out) + 1] = x /\ \A i \in 1..Len(out) : out'[i] = out[i]
    BY <1>1, <1>2, <1>5
<1>7. EndOf(out)' = EndOf(out) + n
    BY <1>4, <1>6 DEF EndOf
<1>8. Gapless(out)'
    <2>1. ASSUME NEW i \in 1..Len(out) PROVE Follows(out', i)
        <3>1. Follows(out, i)
            BY <1>6 DEF IInv, RespOK, Gapless
        <3>2. out'[i] = out[i] /\ (i # 1 => out'[i - 1] = out[i - 1])
            BY <1>6
        <3>. QED
            BY <3>1, <3>2 DEF Follows
    <2>2. EndOf(out) = (IF Len(out) = 0 THEN 0 ELSE out'[Len(out)].to)
        <3>1. CASE out = <<>>
            BY <3>1 DEF EndOf
        <3>2. CASE out # <<>>
            <4>1. Len(out) \in 1..Len(out)
                BY <1>2, <3>2
            <4>. QED
                BY <1>6, <3>2, <4>1 DEF EndOf
        <3>. QED
            BY <3>1, <3>2
    <2>3. ASSUME NEW i \in Nat, i = Len(out) + 1 PROVE Follows(out', i)
        <3>1. /\ out'[i].from = EndOf(out) /\ out'[i].to = EndOf(out) + n
              /\ i - 1 = Len(out) /\ (i = 1 <=> Len(out) = 0)
            BY <1>4, <1>6, <2>3
        <3>. QED
            BY <1>2, <1>3, <2>2, <3>1 DEF Follows
    <2>. QED
        BY <1>6, <2>1, <2>3 DEF Gapless
<1>9. \A i \in DOMAIN out' : Size(out'[i]) <= ChunkSize
    <2>1. Size(x) <= ChunkSize
        BY <1>2, <1>3, <1>4, H3RequestAssumption DEF Size
    <2>. QED
        BY <1>6, <2>1 DEF IInv, RespOK
<1>10. RespOK'
    <2>1. reader' = "ok" /\ rx' # "handler"
        BY <1>1 DEF IInv, RespOK
    <2>. QED
        BY <1>1, <1>2, <1>3, <1>7, <1>8, <1>9, <2>1 DEF RespOK
<1>11. TypeOK'
    BY <1>1, <1>3, <1>6 DEF IInv, TypeOK
<1>. QED
    BY <1>1, <1>10, <1>11, WriterOnlyOK

\* FIN: all frames are out, and a request body in the response was read to
\* its clean end.
LEMMA FinishOK ==
    ASSUME IInv, Finish
    PROVE  IInv'
<1>1. /\ writer = "body" /\ buf = 0 /\ writer' = "done"
      /\ UNCHANGED <<frames, framed, buf, out>>
      /\ UNCHANGED <<client, sent, received, reader, held, total>>
    BY DEF Finish, clientVars, readerVars
<1>2. CASE rx = "response" /\ PopEnd
    <2>1. /\ UNCHANGED <<chan, rx, got>> /\ saw' = "end" /\ SentOK' /\ TotalOK'
          /\ HeldOK' /\ PipeOK' /\ ErrOK' /\ EndOK' /\ reader = "ok"
        BY <1>1, <1>2, PopEndOK
    <2>2. TypeOK'
        BY <1>1, <2>1 DEF IInv, TypeOK
    <2>3. RespOK'
        BY <1>1, <2>1 DEF IInv, RespOK
    <2>. QED
        BY <2>1, <2>2, <2>3 DEF IInv
<1>3. CASE rx = "closed" /\ UNCHANGED bodyVars
    <2>1. UNCHANGED <<chan, rx, got, saw>>
        BY <1>3 DEF bodyVars
    <2>2. TypeOK'
        BY <1>1, <2>1 DEF IInv, TypeOK
    <2>3. RespOK'
        BY <1>1, <1>3, <2>1 DEF IInv, RespOK
    <2>. QED
        BY <1>1, <2>1, <2>2, <2>3, WriterOnlyOK
<1>. QED
    BY <1>2, <1>3 DEF Finish

\* Every step keeps the invariant.
LEMMA StepOK == IInv /\ [Next]_vars => IInv'
<1>. SUFFICES ASSUME IInv, [Next]_vars PROVE IInv'
    OBVIOUS
<1>1. CASE UNCHANGED vars
    <2>1. TypeOK' /\ RespOK'
        BY <1>1 DEF IInv, TypeOK, RespOK, vars
    <2>. QED
        BY <1>1, <2>1, WriterOnlyOK DEF vars
<1>2. CASE Next
    BY <1>2, ClientSendOK, ClientEndOK, RecvChunkOK, RecvEndOK, RecvFailOK,
       SendItemOK, HandlerReadOK, HandlerEndOK, JoinHeadOK, NextFrameOK,
       SendChunkOK, FinishOK
    DEF Next, ReaderStep, WriterStep, WriteStep
<1>. QED
    BY <1>1, <1>2

-----------------------------------------------------------------------------
(* The theorems                                                            *)

\* The inductive invariant: how reader task, channel, handler and writer of
\* handle_http3_request hold the body between them.
THEOREM H3RequestInvariant == Spec => []IInv
BY InitOK, StepOK, PTL DEF Spec

\* The state of reader, channel, handler and writer stays of its type; the
\* channel never holds more than its capacity.
THEOREM H3RequestTyped == Spec => []TypeOK
<1>1. IInv => TypeOK
    BY DEF IInv
<1>. QED
    BY <1>1, H3RequestInvariant, PTL

\* The handler's request body is the beginning of what the client sent, within
\* max_body_size (read_http3_body and the channel).
THEOREM BodyTheorem == Spec => []BodyIntact
<1>1. IInv => BodyIntact
    BY DEF IInv, PipeOK
<1>. QED
    BY <1>1, H3RequestInvariant, PTL

\* A body stream that ends without error was read whole.
THEOREM EndTheorem == Spec => []EndMeansComplete
<1>1. IInv => EndMeansComplete
    BY DEF IInv, EndOK, EndMeansComplete
<1>. QED
    BY <1>1, H3RequestInvariant, PTL

\* No response goes out on a stream whose body failed.
THEOREM NoResponseTheorem == Spec => []NoResponseAfterBadBody
<1>1. IInv => NoResponseAfterBadBody
    BY DEF IInv, RespOK, ErrOK, PipeOK, Going, NoResponseAfterBadBody
<1>. QED
    BY <1>1, H3RequestInvariant, PTL

\* A finished response is whole and cut into legal chunks.
THEOREM ResponseTheorem == Spec => []ResponseComplete
<1>1. IInv => ResponseComplete
    <2>. SUFFICES ASSUME IInv, writer = "done"
                 PROVE  /\ Gapless(out) /\ EndOf(out) = framed
                        /\ \A i \in DOMAIN out : Size(out[i]) <= ChunkSize
                        /\ rx = "response" => ReceivedWhole
        BY DEF ResponseComplete
    <2>1. EndOf(out) \in Nat
        BY Shapes DEF IInv
    <2>. QED
        BY <2>1 DEF IInv, RespOK, EndOK
<1>. QED
    BY <1>1, H3RequestInvariant, PTL

\* What the write loop finds when it asks for the next frame: the body was
\* dropped with the request, or the request body in the response has a chunk
\* or has ended without error.
NextFrameReady ==
    writer \in {"head", "body"} =>
        \/ rx = "closed"
        \/ /\ rx = "response" /\ saw # "error"
           /\ IF chan = <<>> THEN ReaderEnded ELSE Head(chan) # Error

\* The safety half of WriterNeverStuck: after the join body.frame() never waits
\* for the reader task, and a request body in the response never fails.
THEOREM WriterTheorem == Spec => []NextFrameReady
<1>1. IInv => NextFrameReady
    <2>. SUFFICES ASSUME IInv, writer \in {"head", "body"}, rx # "closed"
                 PROVE  /\ rx = "response" /\ saw # "error"
                        /\ IF chan = <<>> THEN ReaderEnded
                                         ELSE Head(chan) # Error
        BY DEF NextFrameReady
    <2>1. reader = "ok" /\ rx = "response"
        BY DEF IInv, RespOK, TypeOK
    <2>2. saw # "error" /\ Clean(chan)
        BY <2>1 DEF IInv, ErrOK
    <2>3. chan # <<>> => Head(chan) # Error
        BY <2>2 DEF Clean, IInv, TypeOK
    <2>. QED
        BY <2>1, <2>2, <2>3 DEF ReaderEnded
<1>. QED
    BY <1>1, H3RequestInvariant, PTL

=============================================================================
