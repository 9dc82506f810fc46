---------------------------- MODULE SessionProofs ----------------------------
(***************************************************************************)
(* Theorems about Session, for any number of requests, connections and     *)
(* sessions: a live session is found again when all connections share one  *)
(* store, and the cookies of a response belong to the session in use.      *)
(***************************************************************************)
EXTENDS Session, TLAPS

-----------------------------------------------------------------------------
(* Cookie jars                                                             *)

\* A jar is a function from some names to values.
LEMMA JarMember ==
    ASSUME NEW D \in SUBSET Name, NEW j \in [D -> Nat \cup {None}]
    PROVE  j \in Jars
BY DEF Jars

\* What a jar is made of.
LEMMA JarShape ==
    ASSUME NEW j \in Jars
    PROVE  /\ DOMAIN j \in SUBSET Name
           /\ j = [n \in DOMAIN j |-> j[n]]
           /\ \A n \in DOMAIN j : j[n] \in Nat \cup {None}
BY DEF Jars

\* Over is a jar with the cookies of both, the first one's before the second's.
LEMMA JarOver ==
    ASSUME NEW j \in Jars, NEW k \in Jars
    PROVE  /\ Over(j, k) \in Jars
           /\ DOMAIN Over(j, k) = DOMAIN j \cup DOMAIN k
           /\ \A n \in DOMAIN j : Over(j, k)[n] = j[n]
           /\ \A n \in DOMAIN k \ DOMAIN j : Over(j, k)[n] = k[n]
<1>1. DOMAIN j \cup DOMAIN k \in SUBSET Name
    BY JarShape
<1>2. Over(j, k) \in [DOMAIN j \cup DOMAIN k -> Nat \cup {None}]
    BY JarShape DEF Over
<1>. QED
    BY <1>1, <1>2, JarMember DEF Over

\* A single cookie is a jar.
LEMMA JarOne ==
    ASSUME NEW n \in Name, NEW v \in Nat
    PROVE  /\ Cookie(n, v) \in Jars
           /\ DOMAIN Cookie(n, v) = {n}
           /\ Cookie(n, v)[n] = v
<1>1. {n} \in SUBSET Name /\ Cookie(n, v) \in [{n} -> Nat \cup {None}]
    BY DEF Cookie
<1>. QED
    BY <1>1, JarMember DEF Cookie

\* So is a part of a jar.
LEMMA JarRestrict ==
    ASSUME NEW j \in Jars, NEW D, D \subseteq DOMAIN j
    PROVE  /\ Restrict(j, D) \in Jars
           /\ DOMAIN Restrict(j, D) = D
           /\ \A n \in D : Restrict(j, D)[n] = j[n]
BY JarShape DEF Jars, Restrict

\* And the empty one.
LEMMA JarEmpty == Empty \in Jars /\ DOMAIN Empty = {}
BY DEF Jars, Empty

-----------------------------------------------------------------------------
(* The invariant                                                           *)

Place == {"idle", "parse", "load", "reload", "handler", "merge", "sent",
          "failed", "done"}
Using == {"load", "reload", "handler", "merge", "sent"}

\* A session cookie names a session that was created.
Known(j) == "session" \in DOMAIN j => j["session"] \in 1..created

\* Request r: its jars, the session it uses, the meaning of
\* session_key_exists, and what its response carries.
JarsKnown(r) == Known(offered[r]) /\ Known(setCookie[r])
SidKnown(r) == pc[r] \in Using => sid[r] \in 1..created
ExistsOffered(r) ==
    exists[r] => /\ pc[r] \notin {"idle", "parse"}
                 /\ "session" \in DOMAIN offered[r]
                 /\ sid[r] = offered[r]["session"]
MergedSent(r) == pc[r] = "sent" => setCookie[r] = Merged(r)

\* A session cookie is looked up first; a live session is not replaced.
Presented(r) ==
    pc[r] = "load" /\ "session" \in DOMAIN offered[r] =>
        sid[r] = offered[r]["session"]
FoundAgain(r) ==
    /\ ~PerConnection
    /\ pc[r] \in {"reload", "handler"} /\ "session" \in DOMAIN offered[r]
    /\ offered[r]["session"] \in live
    => sid[r] = offered[r]["session"]

RequestOK(r) ==
    /\ JarsKnown(r) /\ SidKnown(r) /\ ExistsOffered(r) /\ MergedSent(r)
    /\ Presented(r) /\ FoundAgain(r)

IInv ==
    /\ TypeOK
    /\ Known(browser)
    /\ \A r \in Requests : RequestOK(r)

\* What is left alone at request q.
Kept(q) ==
    /\ pc'[q] = pc[q] /\ offered'[q] = offered[q] /\ sid'[q] = sid[q]
    /\ exists'[q] = exists[q] /\ jar'[q] = jar[q]
    /\ setCookie'[q] = setCookie[q]

\* The cookies of a response depend on its own request only.
LEMMA MergedKept ==
    ASSUME NEW q \in Requests, Kept(q)
    PROVE  Merged(q)' = Merged(q)
BY DEF Kept, Merged, Iterated, Fresh, Added

\* Sessions are numbered upwards, so what was known stays known.
LEMMA OthersKeep ==
    ASSUME NEW q \in Requests, RequestOK(q), Kept(q),
           created \in Nat, created' \in Nat, created <= created',
           live' \cap 1..created \subseteq live
    PROVE  RequestOK(q)'
<1>1. JarsKnown(q)'
    BY DEF RequestOK, JarsKnown, Known, Kept
<1>2. SidKnown(q)' /\ ExistsOffered(q)'
    BY DEF RequestOK, SidKnown, ExistsOffered, Kept
<1>3. MergedSent(q)'
    BY MergedKept DEF RequestOK, MergedSent, Kept
<1>4. Presented(q)' /\ FoundAgain(q)'
    BY DEF RequestOK, JarsKnown, Known, Presented, FoundAgain, Kept
<1>. QED
    BY <1>1, <1>2, <1>3, <1>4 DEF RequestOK

-----------------------------------------------------------------------------
(* The jars that a step makes                                              *)

\* Two jars that name known sessions make one that does.
LEMMA JarOverKnown ==
    ASSUME NEW j \in Jars, NEW k \in Jars, Known(j), Known(k)
    PROVE  Over(j, k) \in Jars /\ Known(Over(j, k))
<1>1. Over(j, k) \in Jars
    BY JarOver
<1>2. CASE "session" \in DOMAIN j
    <2>1. Over(j, k)["session"] = j["session"]
        BY <1>2, JarOver
    <2>. QED
        BY <1>1, <1>2, <2>1 DEF Known
<1>3. CASE "session" \notin DOMAIN j
    <2>1. DOMAIN Over(j, k) = DOMAIN j \cup DOMAIN k
        BY JarOver
    <2>2. CASE "session" \in DOMAIN k
        <3>1. "session" \in DOMAIN k \ DOMAIN j
            BY <1>3, <2>2
        <3>2. Over(j, k)["session"] = k["session"]
            BY <3>1, JarOver
        <3>. QED
            BY <1>1, <2>2, <3>2 DEF Known
    <2>3. CASE "session" \notin DOMAIN k
        BY <1>1, <1>3, <2>1, <2>3 DEF Known
    <2>. QED
        BY <2>2, <2>3
<1>. QED
    BY <1>2, <1>3

\* Merged is a jar, and its session cookie one the request knows.
LEMMA MergedJar ==
    ASSUME TypeOK, NEW r \in Requests, RequestOK(r), pc[r] = "merge"
    PROVE  Merged(r) \in Jars /\ Known(Merged(r))
<1>. DEFINE D == DOMAIN offered[r] \ {"app"}
<1>1. offered[r] \in Jars /\ sid[r] \in Nat /\ sid[r] \in 1..created
    BY DEF TypeOK, RequestOK, SidKnown, Using
<1>2. /\ Added(r) \in Jars /\ DOMAIN Added(r) = {"app"}
    BY <1>1, JarOne DEF Added, Name
<1>3. Fresh(r) \in Jars /\ Known(Fresh(r))
    <2>1. Cookie("session", sid[r]) \in Jars /\ Known(Cookie("session", sid[r]))
        BY <1>1, JarOne DEF Name, Known
    <2>2. Empty \in Jars /\ Known(Empty)
        BY JarEmpty DEF Known
    <2>. QED
        BY <2>1, <2>2 DEF Fresh
<1>4. Iterated(r) \in Jars /\ Known(Iterated(r))
    <2>1. CASE jar[r] = "none"
        BY <2>1, JarEmpty DEF Iterated, Known
    <2>2. CASE jar[r] = "adds"
        BY <2>2, <1>2 DEF Iterated, Known
    <2>3. CASE jar[r] = "copies"
        <3>1. Iterated(r) = Over(Added(r), offered[r])
            BY <2>3 DEF Iterated
        <3>2. Known(Added(r)) /\ Known(offered[r])
            BY <1>2 DEF Known, RequestOK, JarsKnown
        <3>. QED
            BY <1>1, <1>2, <3>1, <3>2, JarOverKnown
    <2>4. CASE jar[r] = "removes"
        <3>1. Iterated(r) = Restrict(offered[r], D)
            BY <2>4 DEF Iterated
        <3>. QED
            BY <1>1, <3>1, JarRestrict DEF Known, RequestOK, JarsKnown
    <2>. QED
        BY <2>1, <2>2, <2>3, <2>4 DEF TypeOK
<1>. QED
    BY <1>3, <1>4, JarOverKnown DEF Merged

\* What a browser keeps after a response is a jar of its own.
LEMMA AppliedJar ==
    ASSUME NEW old \in Jars, NEW headers \in Jars, Known(old), Known(headers)
    PROVE  Applied(old, headers) \in Jars /\ Known(Applied(old, headers))
<1>. DEFINE all == Over(headers, old)
            D == {n \in DOMAIN all : all[n] # None}
<1>1. all \in Jars /\ Known(all)
    BY JarOverKnown
<1>2. Applied(old, headers) = Restrict(all, D)
    BY DEF Applied
<1>. HIDE DEF all
<1>. QED
    BY <1>1, <1>2, JarRestrict DEF Known

-----------------------------------------------------------------------------
(* Init and the steps                                                      *)

\* The browser starts without cookies, the store without sessions.
LEMMA InitOK == Init => IInv
<1>. SUFFICES ASSUME Init PROVE IInv
    OBVIOUS
<1>1. TypeOK
    BY JarEmpty, SessionAssumption DEF Init, TypeOK
<1>2. Known(browser)
    BY JarEmpty DEF Init, Known
<1>3. ASSUME NEW r \in Requests PROVE RequestOK(r)
    BY <1>3, JarEmpty
    DEF Init, RequestOK, JarsKnown, Known, SidKnown, ExistsOffered,
        MergedSent, Presented, FoundAgain, Using
<1>. QED
    BY <1>1, <1>2, <1>3 DEF IInv

\* A step of request r that leaves the others alone.
LEMMA StepOf ==
    ASSUME IInv, NEW r \in Requests, TypeOK', Known(browser)', RequestOK(r)',
           created <= created', live' \cap 1..created \subseteq live,
           \A q \in Requests \ {r} : Kept(q)
    PROVE  IInv'
<1>1. created \in Nat /\ created' \in Nat
    BY SessionAssumption DEF IInv, TypeOK
<1>2. ASSUME NEW q \in Requests, q # r PROVE RequestOK(q)'
    BY <1>1, <1>2, OthersKeep DEF IInv
<1>. QED
    BY <1>2 DEF IInv

\* The browser sends a request with the cookies it has.
LEMMA SendOK ==
    ASSUME IInv, NEW r \in Requests, NEW c \in Conns, Send(r, c)
    PROVE  IInv'
<1>1. TypeOK'
    BY DEF IInv, TypeOK, Send, Goto, storeVars
<1>2. Known(browser)'
    BY DEF IInv, Send, Known, storeVars
<1>3. /\ pc[r] = "idle" /\ pc'[r] = "parse" /\ offered'[r] = browser
      /\ UNCHANGED <<created, live, exists, setCookie>>
    BY DEF IInv, TypeOK, Send, Goto, storeVars
<1>4. RequestOK(r)'
    <2>1. JarsKnown(r)'
        BY <1>3 DEF IInv, RequestOK, JarsKnown, Known
    <2>2. ~exists[r]
        BY <1>3 DEF IInv, RequestOK, ExistsOffered
    <2>. QED
        BY <1>3, <2>1, <2>2
        DEF RequestOK, SidKnown, ExistsOffered, MergedSent, Presented,
            FoundAgain, Using
<1>5. \A q \in Requests \ {r} : Kept(q)
    BY DEF IInv, TypeOK, Send, Goto, Kept, storeVars
<1>6. created <= created'
    BY <1>3, SessionAssumption DEF IInv, TypeOK
<1>. QED
    BY <1>1, <1>2, <1>3, <1>4, <1>5, <1>6, StepOf

\* Steps that end request r: it uses no session any more.
LEMMA EndOK ==
    ASSUME IInv, NEW r \in Requests,
           BadHeader(r) \/ StoreFail(r) \/ HandlerErr(r) \/ Drop(r)
    PROVE  IInv'
<1>1. /\ pc' \in {[pc EXCEPT ![r] = "failed"], [pc EXCEPT ![r] = "done"]}
      /\ pc[r] # "idle"
      /\ UNCHANGED <<browser, storeVars, conn, offered, sid, exists, jar,
                     setCookie>>
    BY DEF BadHeader, StoreFail, HandlerErr, Drop, Goto
<1>2. TypeOK' /\ Known(browser)'
    BY <1>1 DEF IInv, TypeOK, storeVars, Known
<1>3. pc'[r] \in {"failed", "done"}
    BY <1>1 DEF IInv, TypeOK
<1>4. RequestOK(r)'
    BY <1>1, <1>3
    DEF IInv, RequestOK, JarsKnown, Known, SidKnown, ExistsOffered,
        MergedSent, Presented, FoundAgain, Using, storeVars
<1>5. \A q \in Requests \ {r} : Kept(q)
    BY <1>1 DEF IInv, TypeOK, Kept, storeVars
<1>6. created <= created' /\ live' \cap 1..created \subseteq live
    BY <1>1, SessionAssumption DEF IInv, TypeOK, storeVars
<1>. QED
    BY <1>2, <1>4, <1>5, <1>6, StepOf

\* The session cookie of the request names the session to look up.
LEMMA WithCookieOK ==
    ASSUME IInv, NEW r \in Requests, WithCookie(r)
    PROVE  IInv'
<1>1. /\ "session" \in DOMAIN offered[r] /\ pc'[r] = "load"
      /\ sid'[r] = offered[r]["session"]
      /\ UNCHANGED <<browser, created, live, offered, jar, setCookie>>
    BY DEF IInv, TypeOK, WithCookie, Goto, storeVars
<1>2. sid'[r] \in 1..created /\ created \in Nat /\ created <= MaxSession
    BY <1>1, SessionAssumption DEF IInv, TypeOK, RequestOK, JarsKnown, Known
<1>3. TypeOK'
    BY <1>1, <1>2, SessionAssumption
    DEF IInv, TypeOK, WithCookie, Goto, storeVars
<1>4. Known(browser)'
    BY <1>1 DEF IInv, Known
<1>5. RequestOK(r)'
    BY <1>1, <1>2
    DEF IInv, RequestOK, JarsKnown, Known, SidKnown, ExistsOffered,
        MergedSent, Presented, FoundAgain
<1>6. \A q \in Requests \ {r} : Kept(q)
    BY DEF IInv, TypeOK, WithCookie, Goto, Kept, storeVars
<1>7. created <= created' /\ live' \cap 1..created \subseteq live
    BY <1>1, <1>2
<1>. QED
    BY <1>3, <1>4, <1>5, <1>6, <1>7, StepOf

\* What storing a session does to the store, whoever asks for it.
LEMMA StoreOK ==
    ASSUME TypeOK, NEW r \in Requests, StoreSession(r)
    PROVE  /\ created \in Nat /\ created' = created + 1
           /\ created' \in 0..MaxSession /\ live' \subseteq 1..created'
           /\ home' \in [Sid -> Conns \cup {None}]
           /\ sid' \in [Requests -> 0..MaxSession]
           /\ sid'[r] = created' /\ sid'[r] \in 1..created'
           /\ live' \cap 1..created = live \cap 1..created
           /\ \A q \in Requests \ {r} : sid'[q] = sid[q]
<1>1. created \in Nat /\ created + 1 \in 0..MaxSession /\ created' = created + 1
    BY SessionAssumption DEF TypeOK, StoreSession
<1>2. created + 1 \in Sid
    BY <1>1, SessionAssumption DEF Sid
<1>3. home' \in [Sid -> Conns \cup {None}]
    BY <1>2 DEF TypeOK, StoreSession
<1>4. /\ sid' \in [Requests -> 0..MaxSession] /\ sid'[r] = created + 1
      /\ \A q \in Requests \ {r} : sid'[q] = sid[q]
    BY <1>1 DEF TypeOK, StoreSession
<1>5. live' = live \cup {created + 1} /\ live \subseteq 1..created
    BY DEF TypeOK, StoreSession
<1>6. live' \subseteq 1..created' /\ live' \cap 1..created = live \cap 1..created
    BY <1>1, <1>5
<1>. QED
    BY <1>1, <1>3, <1>4, <1>6

\* A request without session cookie gets a session of its own.
LEMMA WithoutCookieOK ==
    ASSUME IInv, NEW r \in Requests, WithoutCookie(r)
    PROVE  IInv'
<1>1. TypeOK /\ StoreSession(r)
    BY DEF IInv, WithoutCookie
<1>2. /\ "session" \notin DOMAIN offered[r] /\ pc'[r] = "load"
      /\ UNCHANGED <<browser, conn, offered, exists, jar, setCookie>>
      /\ pc[r] = "parse"
    BY DEF IInv, TypeOK, WithoutCookie, Goto
<1>3. TypeOK'
    <2>1. pc' \in [Requests -> Place]
        BY <1>1 DEF TypeOK, WithoutCookie, Goto, Place
    <2>. QED
        BY <1>1, <1>2, <2>1, StoreOK DEF TypeOK, Place
<1>4. Known(browser)'
    BY <1>1, <1>2, StoreOK DEF IInv, Known
<1>5. RequestOK(r)'
    <2>1. JarsKnown(r)'
        BY <1>1, <1>2, StoreOK DEF IInv, RequestOK, JarsKnown, Known
    <2>2. ~exists[r]
        BY <1>2 DEF IInv, RequestOK, ExistsOffered
    <2>. QED
        BY <1>1, <1>2, <2>1, <2>2, StoreOK
        DEF RequestOK, SidKnown, ExistsOffered, MergedSent, Presented,
            FoundAgain
<1>6. \A q \in Requests \ {r} : Kept(q)
    BY <1>1, <1>2, StoreOK DEF TypeOK, WithoutCookie, Goto, Kept
<1>7. created <= created' /\ live' \cap 1..created \subseteq live
    BY <1>1, StoreOK
<1>. QED
    BY <1>1, <1>3, <1>4, <1>5, <1>6, <1>7, StepOf

\* A session that is not in the store is replaced, and the flag that the
\* browser has its cookie falls.
LEMMA LoadMissOK ==
    ASSUME IInv, NEW r \in Requests, LoadMiss(r)
    PROVE  IInv'
<1>1. TypeOK /\ StoreSession(r)
    BY DEF IInv, LoadMiss
<1>2. /\ pc[r] = "load" /\ pc'[r] = "reload" /\ ~exists'[r]
      /\ UNCHANGED <<browser, conn, offered, jar, setCookie>>
    BY DEF IInv, TypeOK, LoadMiss, Goto
<1>3. TypeOK'
    <2>1. pc' \in [Requests -> Place] /\ exists' \in [Requests -> BOOLEAN]
        BY <1>1 DEF TypeOK, LoadMiss, Goto, Place
    <2>. QED
        BY <1>1, <1>2, <2>1, StoreOK DEF TypeOK, Place
<1>4. Known(browser)'
    BY <1>1, <1>2, StoreOK DEF IInv, Known
<1>5. RequestOK(r)'
    <2>1. JarsKnown(r)'
        BY <1>1, <1>2, StoreOK DEF IInv, RequestOK, JarsKnown, Known
    <2>2. FoundAgain(r)'
        <3>. SUFFICES ASSUME ~PerConnection, "session" \in DOMAIN offered[r]
                     PROVE  offered[r]["session"] \notin live'
            BY <1>2 DEF FoundAgain
        <3>1. sid[r] \notin live
            BY DEF LoadMiss, Found, Holds
        <3>2. sid[r] = offered[r]["session"] /\ sid[r] \in 1..created
            BY <1>2 DEF IInv, RequestOK, Presented, SidKnown, Using
        <3>. QED
            BY <1>1, <3>1, <3>2, StoreOK
    <2>3. SidKnown(r)' /\ ExistsOffered(r)' /\ MergedSent(r)' /\ Presented(r)'
        BY <1>1, <1>2, StoreOK
        DEF SidKnown, ExistsOffered, MergedSent, Presented
    <2>. QED
        BY <2>1, <2>2, <2>3 DEF RequestOK
<1>6. \A q \in Requests \ {r} : Kept(q)
    BY <1>1, <1>2, StoreOK DEF TypeOK, LoadMiss, Goto, Kept
<1>7. created <= created' /\ live' \cap 1..created \subseteq live
    BY <1>1, StoreOK
<1>. QED
    BY <1>1, <1>3, <1>4, <1>5, <1>6, <1>7, StepOf

\* Steps on from one stage to the next with the session at hand.
LEMMA OnwardOK ==
    ASSUME IInv, NEW r \in Requests,
           \/ Load(r) \/ Reload(r)
           \/ \E j \in {"none", "adds", "copies", "removes"} : Handler(r, j)
    PROVE  IInv'
<1>1. /\ UNCHANGED <<browser, created, live, home, conn, offered, sid, exists,
                     setCookie>>
      /\ \/ pc[r] = "load" /\ pc' = [pc EXCEPT ![r] = "handler"]
         \/ pc[r] = "reload" /\ \E p \in {"handler", "failed"} :
                                   pc' = [pc EXCEPT ![r] = p]
         \/ pc[r] = "handler" /\ pc' = [pc EXCEPT ![r] = "merge"]
      /\ \/ jar' = jar
         \/ \E j \in {"none", "adds", "copies", "removes"} :
               jar' = [jar EXCEPT ![r] = j]
    BY DEF Load, Reload, Handler, Goto, storeVars
<1>2. TypeOK' /\ Known(browser)'
    BY <1>1 DEF IInv, TypeOK, Known
<1>3. \/ pc[r] = "load" /\ pc'[r] = "handler"
      \/ pc[r] = "reload" /\ pc'[r] \in {"handler", "failed"}
      \/ pc[r] = "handler" /\ pc'[r] = "merge"
    BY <1>1 DEF IInv, TypeOK
<1>4. RequestOK(r)'
    BY <1>1, <1>3
    DEF IInv, RequestOK, JarsKnown, Known, SidKnown, ExistsOffered,
        MergedSent, Presented, FoundAgain, Using
<1>5. \A q \in Requests \ {r} : Kept(q)
    BY <1>1 DEF IInv, TypeOK, Kept
<1>6. created <= created' /\ live' \cap 1..created \subseteq live
    BY <1>1, SessionAssumption DEF IInv, TypeOK
<1>. QED
    BY <1>2, <1>4, <1>5, <1>6, StepOf

\* The cookies of the response are merged.
LEMMA MergeOK ==
    ASSUME IInv, NEW r \in Requests, Merge(r)
    PROVE  IInv'
<1>1. /\ UNCHANGED <<browser, created, live, home, conn, offered, sid, exists,
                     jar>>
      /\ pc[r] = "merge" /\ pc'[r] = "sent" /\ setCookie'[r] = Merged(r)
    BY DEF IInv, TypeOK, Merge, Goto, storeVars
<1>2. Merged(r) \in Jars /\ Known(Merged(r))
    BY <1>1, MergedJar DEF IInv
<1>3. TypeOK' /\ Known(browser)'
    BY <1>1, <1>2 DEF IInv, TypeOK, Merge, Goto, Known
<1>4. RequestOK(r)'
    <2>1. JarsKnown(r)' /\ SidKnown(r)' /\ ExistsOffered(r)'
        BY <1>1, <1>2
        DEF IInv, RequestOK, JarsKnown, Known, SidKnown, ExistsOffered, Using
    <2>2. Merged(r)' = Merged(r)
        BY <1>1 DEF Merged, Iterated, Fresh, Added
    <2>. QED
        BY <1>1, <2>1, <2>2 DEF RequestOK, MergedSent, Presented, FoundAgain
<1>5. \A q \in Requests \ {r} : Kept(q)
    BY <1>1 DEF IInv, TypeOK, Merge, Goto, Kept
<1>6. created <= created' /\ live' \cap 1..created \subseteq live
    BY <1>1, SessionAssumption DEF IInv, TypeOK
<1>. QED
    BY <1>3, <1>4, <1>5, <1>6, StepOf

\* The response reaches the browser.
LEMMA DeliverOK ==
    ASSUME IInv, NEW r \in Requests, Deliver(r)
    PROVE  IInv'
<1>1. /\ UNCHANGED <<created, live, home, conn, offered, sid, exists, jar,
                     setCookie>>
      /\ pc[r] = "sent" /\ pc'[r] = "done"
      /\ browser' = Applied(browser, setCookie[r])
    BY DEF IInv, TypeOK, Deliver, Goto, storeVars
<1>2. browser' \in Jars /\ Known(browser')
    BY <1>1, AppliedJar DEF IInv, TypeOK, RequestOK, JarsKnown
<1>3. TypeOK' /\ Known(browser)'
    BY <1>1, <1>2 DEF IInv, TypeOK, Deliver, Goto, Known
<1>4. RequestOK(r)'
    BY <1>1
    DEF IInv, RequestOK, JarsKnown, Known, SidKnown, ExistsOffered,
        MergedSent, Presented, FoundAgain, Using
<1>5. \A q \in Requests \ {r} : Kept(q)
    BY <1>1 DEF IInv, TypeOK, Deliver, Goto, Kept
<1>6. created <= created' /\ live' \cap 1..created \subseteq live
    BY <1>1, SessionAssumption DEF IInv, TypeOK
<1>. QED
    BY <1>3, <1>4, <1>5, <1>6, StepOf

\* Steps of the store or the browser alone.
LEMMA AloneOK ==
    ASSUME IInv, TypeOK', Known(browser)', live' \subseteq live,
           UNCHANGED <<created, pc, offered, sid, exists, jar, setCookie>>
    PROVE  IInv'
<1>1. created \in Nat
    BY SessionAssumption DEF IInv, TypeOK
<1>2. ASSUME NEW q \in Requests PROVE RequestOK(q)'
    BY <1>1, OthersKeep DEF IInv, Kept
<1>. QED
    BY <1>2 DEF IInv

\* A session is destroyed, or a cookie forgotten.
LEMMA EnvOK ==
    ASSUME IInv,
           (\E s \in Sid : Destroy(s)) \/ (\E n \in Name : Forget(n))
    PROVE  IInv'
<1>1. ASSUME NEW s \in Sid, Destroy(s) PROVE IInv'
    <2>1. TypeOK' /\ Known(browser)' /\ live' \subseteq live
        BY <1>1 DEF IInv, TypeOK, Destroy, Known
    <2>. QED
        BY <1>1, <2>1, AloneOK DEF Destroy
<1>2. ASSUME NEW n \in Name, Forget(n) PROVE IInv'
    <2>1. browser' = Restrict(browser, DOMAIN browser \ {n}) /\ browser \in Jars
        BY <1>2 DEF Forget, IInv, TypeOK
    <2>2. browser' \in Jars /\ Known(browser')
        BY <2>1, JarRestrict DEF IInv, Known
    <2>3. TypeOK' /\ Known(browser)' /\ live' \subseteq live
        BY <1>2, <2>2 DEF IInv, TypeOK, Forget, Known, storeVars
    <2>. QED
        BY <1>2, <2>3, AloneOK DEF Forget, storeVars
<1>. QED
    BY <1>1, <1>2

\* Every step keeps the invariant.
LEMMA StepOK == IInv /\ [Next]_vars => IInv'
<1>. SUFFICES ASSUME IInv, [Next]_vars PROVE IInv'
    OBVIOUS
<1>1. CASE UNCHANGED vars
    <2>1. TypeOK' /\ Known(browser)' /\ live' \subseteq live
        BY <1>1 DEF IInv, TypeOK, vars, Known
    <2>. QED
        BY <1>1, <2>1, AloneOK DEF vars
<1>2. CASE Next
    BY <1>2, SendOK, EndOK, WithCookieOK, WithoutCookieOK, LoadMissOK,
       OnwardOK, MergeOK, DeliverOK, EnvOK DEF Next
<1>. QED
    BY <1>1, <1>2

-----------------------------------------------------------------------------
(* What the invariant says about the cookies                               *)

\* A cookie that the headers set is kept, and so is one that they leave alone.
LEMMA AppliedKeeps ==
    ASSUME NEW old \in Jars, NEW headers \in Jars, NEW n, NEW v \in Nat,
           \/ Keeps(headers, n, v)
           \/ n \notin DOMAIN headers /\ Keeps(old, n, v)
    PROVE  Keeps(Applied(old, headers), n, v)
<1>. DEFINE all == Over(headers, old)
            D == {m \in DOMAIN all : all[m] # None}
<1>1. all \in Jars /\ n \in DOMAIN all /\ all[n] = v
    BY JarOver DEF Keeps
<1>2. Applied(old, headers) = Restrict(all, D)
    BY DEF Applied
<1>3. v # None
    BY SessionAssumption
<1>. HIDE DEF all
<1>. QED
    BY <1>1, <1>2, <1>3, JarRestrict DEF Keeps

\* The cookies of a response whose request uses a known session.
LEMMA MergedKeeps ==
    ASSUME NEW r \in Requests, offered[r] \in Jars, sid[r] \in Nat,
           ExistsOffered(r),
           jar[r] \in {"none", "adds", "copies", "removes"}
    PROVE  /\ exists[r] => \/ Keeps(Merged(r), "session", sid[r])
                           \/ "session" \notin DOMAIN Merged(r)
           /\ ~exists[r] /\ jar[r] \in {"none", "adds"} =>
                  Keeps(Merged(r), "session", sid[r])
           /\ jar[r] \in {"adds", "copies"} => Keeps(Merged(r), "app", sid[r])
<1>. DEFINE I == Iterated(r)
            D == DOMAIN offered[r] \ {"app"}
<1>1. /\ Added(r) \in Jars /\ DOMAIN Added(r) = {"app"}
      /\ Added(r)["app"] = sid[r]
    BY JarOne DEF Added, Name
<1>2. /\ Fresh(r) \in Jars
      /\ exists[r] => DOMAIN Fresh(r) = {}
      /\ ~exists[r] => Keeps(Fresh(r), "session", sid[r])
    BY JarEmpty, JarOne DEF Fresh, Keeps, Name
<1>3. /\ I \in Jars
      /\ jar[r] \in {"none", "adds"} => "session" \notin DOMAIN I
      /\ "session" \in DOMAIN I => /\ "session" \in DOMAIN offered[r]
                                   /\ I["session"] = offered[r]["session"]
      /\ jar[r] \in {"adds", "copies"} => Keeps(I, "app", sid[r])
    <2>1. CASE jar[r] = "none"
        BY <2>1, JarEmpty DEF Iterated
    <2>2. CASE jar[r] = "adds"
        BY <2>2, <1>1 DEF Iterated, Keeps
    <2>3. CASE jar[r] = "copies"
        <3>1. I = Over(Added(r), offered[r])
            BY <2>3 DEF Iterated
        <3>2. /\ I \in Jars /\ DOMAIN I = {"app"} \cup DOMAIN offered[r]
              /\ I["app"] = sid[r]
              /\ \A n \in DOMAIN offered[r] \ {"app"} : I[n] = offered[r][n]
            <4>1. /\ Over(Added(r), offered[r]) \in Jars
                  /\ DOMAIN Over(Added(r), offered[r]) =
                         DOMAIN Added(r) \cup DOMAIN offered[r]
                  /\ \A n \in DOMAIN Added(r) :
                        Over(Added(r), offered[r])[n] = Added(r)[n]
                  /\ \A n \in DOMAIN offered[r] \ DOMAIN Added(r) :
                        Over(Added(r), offered[r])[n] = offered[r][n]
                BY <1>1, JarOver
            <4>. QED
                BY <1>1, <3>1, <4>1
        <3>. QED
            BY <2>3, <3>2 DEF Keeps
    <2>4. CASE jar[r] = "removes"
        <3>1. I = Restrict(offered[r], D)
            BY <2>4 DEF Iterated
        <3>. QED
            BY <2>4, <3>1, JarRestrict
    <2>. QED
        BY <2>1, <2>2, <2>3, <2>4
<1>. HIDE DEF I
<1>4. /\ Merged(r) = Over(I, Fresh(r))
      /\ DOMAIN Merged(r) = DOMAIN I \cup DOMAIN Fresh(r)
      /\ \A n \in DOMAIN I : Merged(r)[n] = I[n]
      /\ \A n \in DOMAIN Fresh(r) \ DOMAIN I : Merged(r)[n] = Fresh(r)[n]
    <2>1. Merged(r) = Over(I, Fresh(r))
        BY DEF Merged, I
    <2>2. Fresh(r) \in Jars /\ I \in Jars
        BY <1>2, <1>3
    <2>3. /\ DOMAIN Over(I, Fresh(r)) = DOMAIN I \cup DOMAIN Fresh(r)
          /\ \A n \in DOMAIN I : Over(I, Fresh(r))[n] = I[n]
          /\ \A n \in DOMAIN Fresh(r) \ DOMAIN I :
                Over(I, Fresh(r))[n] = Fresh(r)[n]
        BY <2>2, JarOver
    <2>. QED
        BY <2>1, <2>3, Zenon
<1>5. exists[r] => \/ Keeps(Merged(r), "session", sid[r])
                   \/ "session" \notin DOMAIN Merged(r)
    BY <1>2, <1>3, <1>4 DEF ExistsOffered, Keeps
<1>6. ~exists[r] /\ jar[r] \in {"none", "adds"} =>
          Keeps(Merged(r), "session", sid[r])
    BY <1>2, <1>3, <1>4 DEF Keeps
<1>7. jar[r] \in {"adds", "copies"} => Keeps(Merged(r), "app", sid[r])
    BY <1>3, <1>4 DEF Keeps
<1>. QED
    BY <1>5, <1>6, <1>7

\* The browser follows the session that the handler worked with.
LEMMA CookiesOK == IInv => CookiesFollowSession
<1>. SUFFICES ASSUME IInv, NEW r \in Requests, pc[r] = "sent"
             PROVE  LET after == Applied(offered[r], setCookie[r])
                    IN  /\ exists[r] \/ jar[r] \in {"none", "adds"} =>
                               Keeps(after, "session", sid[r])
                        /\ jar[r] \in {"adds", "copies"} =>
                               Keeps(after, "app", sid[r])
    BY DEF CookiesFollowSession
<1>1. /\ offered[r] \in Jars /\ setCookie[r] \in Jars /\ sid[r] \in Nat
      /\ jar[r] \in {"none", "adds", "copies", "removes"}
    BY SessionAssumption DEF IInv, TypeOK
<1>2. setCookie[r] = Merged(r) /\ ExistsOffered(r)
    BY DEF IInv, RequestOK, MergedSent
<1>3. /\ exists[r] => \/ Keeps(setCookie[r], "session", sid[r])
                      \/ "session" \notin DOMAIN setCookie[r]
      /\ ~exists[r] /\ jar[r] \in {"none", "adds"} =>
             Keeps(setCookie[r], "session", sid[r])
      /\ jar[r] \in {"adds", "copies"} => Keeps(setCookie[r], "app", sid[r])
    BY <1>1, <1>2, MergedKeeps
<1>4. exists[r] => Keeps(offered[r], "session", sid[r])
    BY <1>2 DEF ExistsOffered, Keeps
<1>. QED
    BY <1>1, <1>3, <1>4, AppliedKeeps

-----------------------------------------------------------------------------
(* The theorems                                                            *)

\* The inductive invariant: how the session of each request, the cookie jars
\* and the store of SessionMiddleware go together.
THEOREM SessionInvariant == Spec => []IInv
BY InitOK, StepOK, PTL DEF Spec

\* The state of requests, store and browser stays of its type.
THEOREM SessionTyped == Spec => []TypeOK
<1>1. IInv => TypeOK
    BY DEF IInv
<1>. QED
    BY <1>1, SessionInvariant, PTL

\* Whatever the interleaving of requests, deliveries, losses and destroyed
\* sessions, Set-Cookie leaves the browser with the session cookie of the
\* session that the handler worked with (session/middleware.rs).
THEOREM CookiesTheorem == Spec => []CookiesFollowSession
BY CookiesOK, SessionInvariant, PTL

\* With one route tree for all connections a session that the browser presents
\* and nobody destroyed is the one that the handler gets.
THEOREM SharedStoreFindsSession ==
    ASSUME ~PerConnection
    PROVE  Spec => []SessionFound
<1>1. IInv => SessionFound
    BY DEF IInv, RequestOK, FoundAgain, SessionFound
<1>. QED
    BY <1>1, SessionInvariant, PTL

=============================================================================
