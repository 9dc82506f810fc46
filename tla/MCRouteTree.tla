----------------------------- MODULE MCRouteTree -----------------------------
(* RouteTree for TLC: every pattern of one or two segments under the root   *)
(* "", and hooked ones; roots that are a segment themselves; and paths with *)
(* and without trailing and doubled slashes.                                *)
EXTENDS RouteTree

Param(kind, key) == [kind |-> kind, key |-> key]

\* "<id>" and "<n:int>" have keys of their own, "<id:*>" shares one.
MCSpecial ==
    [seg \in {"<id>", "<n:int>", "<id:*>", "<p:**>"} |->
        CASE seg = "<id>" -> Param("string", "id")
          [] seg = "<n:int>" -> Param("int", "n")
          [] seg = "<id:*>" -> Param("path", "id")
          [] seg = "<p:**>" -> Param("full", "p")]

MCSegs == {"a", "b"} \cup DOMAIN MCSpecial
MCPats == [1..1 -> MCSegs \cup {""}] \cup [1..2 -> MCSegs]

Route(pat, hook, method) == [pat |-> pat, hook |-> hook, method |-> method]

\* Handlers and hooks of the root, patterns with hooks, and a second method.
MCHookSpecs ==
    {Route(<<"">>, 1, "GET"), Route(<<"">>, 0, "POST"),
     Route(<<"", "a", "b">>, 1, "GET"), Route(<<"", "a", "b">>, 2, "GET"),
     Route(<<"", "a", "b">>, 3, "GET"),
     Route(<<"", "a">>, 2, "GET"), Route(<<"", "a">>, 0, "POST"),
     Route(<<"", "a", "<id:*>">>, 3, "GET"),
     Route(<<"", "a", "<id:*>", "b">>, 4, "GET"),
     Route(<<"", "<id>">>, 2, "GET"), Route(<<"", "<p:**>", "b">>, 3, "GET"),
     Route(<<"", "<id:*>", "b", "c">>, 0, "GET")}

\* Roots that are a name, a parameter and a wildcard.
MCRootSpecs ==
    {Route(<<seg>>, 0, "GET") : seg \in {"a", "<id>", "<p:**>"}}
    \cup {Route(<<seg, "b">>, 1, "GET") : seg \in {"a", "<id>", "<p:**>"}}
    \cup {Route(<<seg, "<id:*>">>, 2, "GET") : seg \in {"a", "<id>", "<p:**>"}}

MCSpecs ==
    {Route(<<"">> \o pat, 0, "GET") : pat \in MCPats}
    \cup MCHookSpecs \cup MCRootSpecs

MCPaths ==
    {<<"/">>, <<"/", "a">>, <<"/", "a", "/">>, <<"/", "1">>, <<"/", "c">>,
     <<"/", "b", "/", "c">>,
     <<"/", "a", "/", "b">>, <<"/", "a", "/", "1">>, <<"/", "c", "/", "b">>,
     <<"/", "a", "/", "b", "/", "c">>, <<"/", "/", "a">>,
     <<"/", "a", "/", "/", "b">>, <<"/", "a", "/", "/">>,
     <<"/", "/", "/", "b">>}

=============================================================================
