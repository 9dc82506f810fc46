------------------------------- MODULE Session -------------------------------
(***************************************************************************)
(* Cookies and sessions around a handler.  CookieMiddleware reads the      *)
(* Cookie header into a jar and passes the changes of the response's jar   *)
(* on; SessionMiddleware, behind it, finds or creates the session, puts it *)
(* into the request and merges the session cookie with the cookies the     *)
(* handler set (cookie/middleware.rs, session/middleware.rs); what is left *)
(* in the delta of the jar becomes Set-Cookie (hyper_http/mod.rs).         *)
(*                                                                         *)
(* The store is the default MemoryStore: a loaded session shares its data  *)
(* with the stored one, so the handler's writes need no second store and   *)
(* the middleware makes none.  It belongs to the route tree, which is      *)
(* built once for a RouteConnectionService and once per connection for a   *)
(* Route that serves as ConnectionService itself.                          *)
(*                                                                         *)
(* One browser sends its requests over several connections, some of them   *)
(* at the same time.  A cookie jar is a partial function from names to     *)
(* values; None as a value is a removal.                                   *)
(***************************************************************************)
EXTENDS Naturals, FiniteSets, Functions

CONSTANTS
    Requests,       \* requests of the browser
    Conns,          \* its connections
    MaxSession,     \* bound: sessions created
    PerConnection,  \* a Route serves connections itself
    None            \* no value

ASSUME SessionAssumption ==
    /\ MaxSession \in Nat /\ PerConnection \in BOOLEAN
    /\ None \notin Nat

Sid == 1..MaxSession
Name == {"session", "app"}

VARIABLES
    browser,    \* cookies the browser keeps
    created,    \* sessions created so far
    live,       \* of which the store still holds
    home,       \* connection whose request created each
    pc,         \* where each request is
    conn,       \* its connection
    offered,    \* the jar parsed from its Cookie header
    sid,        \* the session in use
    exists,     \* session_key_exists
    jar,        \* how the handler's response deals with cookies
    setCookie   \* the Set-Cookie headers of the response

storeVars == <<created, live, home>>
vars == <<browser, created, live, home, pc, conn, offered, sid, exists, jar,
          setCookie>>

Jars == UNION {[D -> Nat \cup {None}] : D \in SUBSET Name}

TypeOK ==
    /\ browser \in Jars
    /\ created \in 0..MaxSession /\ live \subseteq 1..created
    /\ home \in [Sid -> Conns \cup {None}]
    /\ pc \in [Requests -> {"idle", "parse", "load", "reload", "handler",
                            "merge", "sent", "failed", "done"}]
    /\ conn \in [Requests -> Conns \cup {None}]
    /\ offered \in [Requests -> Jars] /\ setCookie \in [Requests -> Jars]
    /\ sid \in [Requests -> 0..MaxSession]
    /\ exists \in [Requests -> BOOLEAN]
    /\ jar \in [Requests -> {"none", "adds", "copies", "removes"}]

Empty == [n \in {} |-> None]
Cookie(name, value) == [n \in {name} |-> value]

\* The cookies of two jars, those of new before those of old.
Over(new, old) ==
    [n \in DOMAIN new \cup DOMAIN old |->
        IF n \in DOMAIN new THEN new[n] ELSE old[n]]

Init ==
    /\ browser = Empty
    /\ created = 0 /\ live = {} /\ home = [s \in Sid |-> None]
    /\ pc = [r \in Requests |-> "idle"]
    /\ conn = [r \in Requests |-> None]
    /\ offered = [r \in Requests |-> Empty]
    /\ sid = [r \in Requests |-> 0]
    /\ exists = [r \in Requests |-> FALSE]
    /\ jar = [r \in Requests |-> "none"]
    /\ setCookie = [r \in Requests |-> Empty]

Goto(r, from, to) == pc[r] = from /\ pc' = [pc EXCEPT ![r] = to]

-----------------------------------------------------------------------------
(* The browser                                                             *)

Send(r, c) ==
    /\ Goto(r, "idle", "parse")
    /\ conn' = [conn EXCEPT ![r] = c]
    /\ offered' = [offered EXCEPT ![r] = browser]
    /\ UNCHANGED <<browser, storeVars, sid, exists, jar, setCookie>>

\* Set-Cookie headers applied to the cookies a browser has.
Applied(old, headers) ==
    LET all == Over(headers, old)
    IN  Restrict(all, {n \in DOMAIN all : all[n] # None})

Deliver(r) ==
    /\ Goto(r, "sent", "done")
    /\ browser' = Applied(browser, setCookie[r])
    /\ UNCHANGED <<storeVars, conn, offered, sid, exists, jar, setCookie>>

\* The response is lost, or the request was cancelled on its way.
Drop(r) ==
    /\ pc[r] \notin {"idle", "failed", "done"}
    /\ pc' = [pc EXCEPT ![r] = "done"]
    /\ UNCHANGED <<browser, storeVars, conn, offered, sid, exists, jar,
                   setCookie>>

\* max_age has passed.
Forget(n) ==
    /\ n \in DOMAIN browser
    /\ browser' = Restrict(browser, DOMAIN browser \ {n})
    /\ UNCHANGED <<storeVars, pc, conn, offered, sid, exists, jar, setCookie>>

-----------------------------------------------------------------------------
(* The session store                                                       *)

Holds(r, s) ==
    s \in live /\ (PerConnection => home[s] = conn[r])

StoreSession(r) ==
    /\ created < MaxSession
    /\ created' = created + 1 /\ live' = live \cup {created + 1}
    /\ home' = [home EXCEPT ![created + 1] = conn[r]]
    /\ sid' = [sid EXCEPT ![r] = created + 1]

\* The application destroys a session, or clears the store.
Destroy(s) ==
    /\ s \in live
    /\ live' = live \ {s}
    /\ UNCHANGED <<browser, created, home, pc, conn, offered, sid, exists,
                   jar, setCookie>>

-----------------------------------------------------------------------------
(* CookieMiddleware and SessionMiddleware before the handler               *)

\* A Cookie header that is not text is answered with 400.
BadHeader(r) ==
    /\ Goto(r, "parse", "failed")
    /\ UNCHANGED <<browser, storeVars, conn, offered, sid, exists, jar,
                   setCookie>>

\* The request has a session cookie ...
WithCookie(r) ==
    /\ "session" \in DOMAIN offered[r]
    /\ Goto(r, "parse", "load")
    /\ sid' = [sid EXCEPT ![r] = offered[r]["session"]]
    /\ exists' = [exists EXCEPT ![r] = TRUE]
    /\ UNCHANGED <<browser, storeVars, conn, offered, jar, setCookie>>

\* ... or not: a session is stored for it.
WithoutCookie(r) ==
    /\ "session" \notin DOMAIN offered[r]
    /\ Goto(r, "parse", "load")
    /\ StoreSession(r)
    /\ UNCHANGED <<browser, conn, offered, exists, jar, setCookie>>

\* Mutant: the session is looked up among those of this connection.
FoundHere(r) == Holds(r, sid[r]) /\ home[sid[r]] = conn[r]

Found(r) == Holds(r, sid[r])

Load(r) ==
    /\ Found(r)
    /\ Goto(r, "load", "handler")
    /\ UNCHANGED <<browser, storeVars, conn, offered, sid, exists, jar,
                   setCookie>>

\* Mutant: session_key_exists keeps its value.
LoadMissKeep(r) ==
    /\ ~Found(r)
    /\ Goto(r, "load", "reload")
    /\ StoreSession(r)
    /\ UNCHANGED <<browser, conn, offered, exists, jar, setCookie>>

\* An unknown or vanished session: a new one is stored and loaded.
LoadMiss(r) ==
    /\ ~Found(r)
    /\ Goto(r, "load", "reload")
    /\ StoreSession(r)
    /\ exists' = [exists EXCEPT ![r] = FALSE]
    /\ UNCHANGED <<browser, conn, offered, jar, setCookie>>

Reload(r) ==
    /\ Goto(r, "reload", IF Holds(r, sid[r]) THEN "handler" ELSE "failed")
    /\ UNCHANGED <<browser, storeVars, conn, offered, sid, exists, jar,
                   setCookie>>

\* store_session fails.
StoreFail(r) ==
    /\ \/ Goto(r, "parse", "failed") /\ "session" \notin DOMAIN offered[r]
       \/ Goto(r, "load", "failed") /\ ~Found(r)
    /\ UNCHANGED <<browser, storeVars, conn, offered, sid, exists, jar,
                   setCookie>>

-----------------------------------------------------------------------------
(* The handler and the way back                                            *)

\* The handler leaves cookies alone, adds one to a fresh jar, or answers with
\* a copy of the request's jar to which it adds, or from which it removes.
Handler(r, j) ==
    /\ Goto(r, "handler", "merge")
    /\ jar' = [jar EXCEPT ![r] = j]
    /\ UNCHANGED <<browser, storeVars, conn, offered, sid, exists, setCookie>>

\* An error, or the Timeout middleware: no cookie is set.
HandlerErr(r) ==
    /\ Goto(r, "handler", "failed")
    /\ UNCHANGED <<browser, storeVars, conn, offered, sid, exists, jar,
                   setCookie>>

\* The value a handler gives its cookie: the session that asked for it.
Added(r) == Cookie("app", sid[r])

\* The session cookie, if the browser does not have it.
Fresh(r) == IF exists[r] THEN Empty ELSE Cookie("session", sid[r])

\* CookieJar::iter of the handler's jar: its delta without removals, and the
\* originals it does not override.
Iterated(r) ==
    CASE jar[r] = "none" -> Empty
      [] jar[r] = "adds" -> Added(r)
      [] jar[r] = "copies" -> Over(Added(r), offered[r])
      [] jar[r] = "removes" -> Restrict(offered[r], DOMAIN offered[r] \ {"app"})

\* cookies.add for each: the handler's cookies over the session cookie.  All of
\* it is delta, which CookieMiddleware and from_internal pass on.
Merged(r) == Over(Iterated(r), Fresh(r))

Merge(r) ==
    /\ Goto(r, "merge", "sent")
    /\ setCookie' = [setCookie EXCEPT ![r] = Merged(r)]
    /\ UNCHANGED <<browser, storeVars, conn, offered, sid, exists, jar>>

Next ==
    \/ \E r \in Requests :
          \/ \E c \in Conns : Send(r, c)
          \/ BadHeader(r) \/ WithCookie(r) \/ WithoutCookie(r)
          \/ Load(r) \/ LoadMiss(r) \/ Reload(r) \/ StoreFail(r)
          \/ \E j \in {"none", "adds", "copies", "removes"} : Handler(r, j)
          \/ HandlerErr(r) \/ Merge(r) \/ Deliver(r) \/ Drop(r)
    \/ \E s \in Sid : Destroy(s)
    \/ \E n \in Name : Forget(n)

Spec == Init /\ [][Next]_vars

-----------------------------------------------------------------------------
(* Properties                                                              *)

\* A session that the browser presents, and that nobody destroyed, is the one
\* the handler works with, on whatever connection the request comes.
SessionFound ==
    \A r \in Requests :
        /\ pc[r] = "handler"
        /\ "session" \in DOMAIN offered[r]
        /\ offered[r]["session"] \in live
        => sid[r] = offered[r]["session"]

Keeps(cookies, n, value) == n \in DOMAIN cookies /\ cookies[n] = value

\* The cookies follow the session.  A browser that gets the response of request
\* r then holds the cookie of the session the handler worked with, also if the
\* one it offered was stale or destroyed on the way, unless the handler
\* answered with a copy of the request's jar, which brings the stale cookie
\* back; and beside it what the handler added to its jar.
CookiesFollowSession ==
    \A r \in Requests : pc[r] = "sent" =>
        LET after == Applied(offered[r], setCookie[r])
        IN  /\ exists[r] \/ jar[r] \in {"none", "adds"} =>
                   Keeps(after, "session", sid[r])
            /\ jar[r] \in {"adds", "copies"} => Keeps(after, "app", sid[r])

=============================================================================
