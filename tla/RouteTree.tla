------------------------------ MODULE RouteTree ------------------------------
(***************************************************************************)
(* Routing (silent::route): routes are appended to a root Route and merged *)
(* with what is there, the result is converted once into a RouteTree, and  *)
(* a request descends the tree one path segment per level, through the     *)
(* middlewares of every node it enters.                                    *)
(*                                                                         *)
(* A path is a sequence of tokens, "/" or a name; the part not matched yet *)
(* is an offset into it, as in the code.  A segment pattern is its text;   *)
(* Special gives the kind and the key of the ones in angle brackets, where *)
(* "int" stands for every typed parameter (int, i32, i64, u32, u64, uuid). *)
(* Siblings differ in their text, "<id>" and "<name>" too, so a node is    *)
(* named by the segments that lead to it, the root's own first, and a      *)
(* Route is a function on its nodes; <<>> is the place the root stands in. *)
(* Handlers and middlewares are numbered by the registration that brought  *)
(* them, 0 the ones build_route_tree puts first; a middleware always calls *)
(* next.  Route state containers, and hook_first called by the user, are   *)
(* left out.                                                               *)
(***************************************************************************)
EXTENDS Integers, Sequences

CONSTANTS
    Specs,      \* what may be registered: [pat, hook, method], see NewRoute
    Paths,      \* request paths, as token sequences
    Methods,    \* request methods
    Special,    \* the segments in angle brackets: [kind, key] of each
    Numeric,    \* names that parse as the type of a typed parameter
    MaxRoutes   \* bound: registrations

Parameter == {"string", "int", "path", "full"}

ASSUME RouteTreeAssumption ==
    /\ MaxRoutes \in Nat
    /\ \A seg \in DOMAIN Special : Special[seg].kind \in Parameter
    /\ \A s \in Specs :
          /\ s \in [pat : Seq(STRING), hook : Nat, method : STRING]
          /\ Len(s.pat) > 0 /\ s.hook <= Len(s.pat)
    /\ \A p \in Paths :
          /\ p \in Seq(STRING \ {""}) /\ p # <<>> /\ p[1] = "/"
          /\ \A i \in 1..(Len(p) - 1) : "/" \in {p[i], p[i + 1]}

VARIABLES
    regs,       \* the registrations, in order
    root,       \* the root Route: its nodes, and what each one has
    tree,       \* the RouteTree, empty until it is built
    phase,      \* "build", "idle", or "walk" while a request is dispatched
    request,    \* the last request; an empty path before the first
    at,         \* the node it is at
    offset,     \* how much of its path is matched
    ran,        \* the middlewares run, a list for each node entered
    params,     \* the path parameters bound
    reply       \* what became of the request

buildVars == <<regs, root, tree>>
walkVars == <<at, offset, ran, params>>
routeVars == <<regs, root, tree, phase, request, at, offset, ran, params,
               reply>>

NoHandler == [m \in {} |-> 0]
NoReply == [status |-> "none", handler |-> 0]

Rng(s) == {s[i] : i \in DOMAIN s}

\* parse_special_seg: what a segment is.
Kind(seg) ==
    IF seg = "" THEN "root"
    ELSE IF seg \in DOMAIN Special THEN Special[seg].kind
    ELSE "static"

\* Route::new(seg), in the place of the root.
RootRoute(seg) ==
    [n \in {<<>>, <<seg>>} |->
        [handler |-> NoHandler, mws |-> <<>>,
         children |-> IF n = <<>> THEN <<seg>> ELSE <<>>]]

RouteInit ==
    /\ regs = <<>>
    /\ \E s \in Specs : root = RootRoute(s.pat[1])
    /\ tree = <<>> /\ phase = "build"
    /\ request = [path |-> <<>>, method |-> ""]
    /\ at = <<>> /\ offset = 0 /\ ran = <<>> /\ params = {}
    /\ reply = NoReply

-----------------------------------------------------------------------------
(* Building the Route                                                      *)

\* Route::new(pat) with registration k, from the root on: a Route per segment,
\* the handler on the last one.  hook() pushes onto the first Route of the
\* Route::new it is called on, which is segment s.hook of a route appended
\* under the segments before it (1: the root; 0: no hook).
NewRoute(s, k) ==
    [n \in {SubSeq(s.pat, 1, i) : i \in 0..Len(s.pat)} |->
        [handler |-> IF n = s.pat THEN [m \in {s.method} |-> k] ELSE NoHandler,
         mws |-> IF n # <<>> /\ Len(n) = s.hook THEN <<k>> ELSE <<>>,
         children |-> IF n = s.pat THEN <<>> ELSE <<s.pat[Len(n) + 1]>>]]

\* merge_child: a child of that text is merged with, a new one is pushed.
MergeChild(children, new) ==
    IF Rng(new) \subseteq Rng(children) THEN children ELSE children \o new

\* Mutant: a later registration replaces the handler.
InsertHandlersOver(old, new) ==
    [m \in DOMAIN old \cup DOMAIN new |->
        IF m \in DOMAIN new THEN new[m] ELSE old[m]]

\* handler.entry(method).or_insert(handler)
InsertHandlers(old, new) ==
    [m \in DOMAIN old \cup DOMAIN new |->
        IF m \in DOMAIN old THEN old[m] ELSE new[m]]

MergeFrom(this, other) ==
    [handler |-> InsertHandlers(this.handler, other.handler),
     mws |-> this.mws \o other.mws,
     children |-> MergeChild(this.children, other.children)]

\* merge_child and merge_from, down the nodes both have.
Merge(route, new) ==
    [n \in DOMAIN route \cup DOMAIN new |->
        IF n \notin DOMAIN new THEN route[n]
        ELSE IF n \notin DOMAIN route THEN new[n]
        ELSE MergeFrom(route[n], new[n])]

\* Route::append on the root; or hook() and get() of the root itself, which is
\* given a handler for a method once (a second one would replace it).
AppendRoute(s) ==
    /\ phase = "build"
    /\ Len(regs) < MaxRoutes
    /\ root[<<>>].children = <<s.pat[1]>>
    /\ Len(s.pat) = 1 => s.method \notin DOMAIN root[s.pat].handler
    /\ regs' = Append(regs, s)
    /\ root' = Merge(root, NewRoute(s, Len(regs) + 1))
    /\ UNCHANGED <<tree, phase, request, walkVars, reply>>

-----------------------------------------------------------------------------
(* into_route_tree_with_chain                                              *)

SegmentOf(n) == IF n = <<>> THEN "" ELSE n[Len(n)]
IsStatic(seg) == Kind(seg) = "static"
IsFullPath(n) == Kind(SegmentOf(n)) = "full"

\* build_route_tree puts the session, cookie and scheduler middlewares before
\* those of the root.
HookFirst(n) == IF Len(n) = 1 THEN <<0>> \o root[n].mws ELSE root[n].mws

\* What a node inherits: the middlewares of the nodes above it.
Inherited(n) ==
    LET above[i \in 0..Len(n)] ==
            IF i = 0 THEN <<>>
            ELSE above[i - 1] \o HookFirst(SubSeq(n, 1, i - 1))
    IN  above[Len(n)]

\* Mutant: a node runs the middlewares it inherits once more.
MiddlewareStartZero(inherited) == 0

\* middleware_start: where the node's own middlewares begin in its chain.
MiddlewareStart(inherited) == Len(inherited)

IntoTree ==
    [n \in DOMAIN root |->
        [handler |-> root[n].handler, children |-> root[n].children,
         chain |-> Inherited(n) \o HookFirst(n),
         start |-> MiddlewareStart(Inherited(n))]]

\* build_route_tree, when the service is built.
Convert ==
    /\ phase = "build"
    /\ tree' = IntoTree /\ phase' = "idle"
    /\ UNCHANGED <<regs, root, request, walkVars, reply>>

-----------------------------------------------------------------------------
(* Matching one segment of path p from offset o                            *)

StripLeadingSlash(p, o) == IF o < Len(p) /\ p[o + 1] = "/" THEN o + 1 ELSE o

\* The first segment, "" if there is none, where it is, and what follows its
\* slash.
StripOneSegment(p, o) ==
    LET t == StripLeadingSlash(p, o)
    IN  IF t = Len(p) THEN [seg |-> "", from |-> t, to |-> t, remain |-> t]
        ELSE IF p[t + 1] = "/"
        THEN [seg |-> "", from |-> t, to |-> t, remain |-> t + 1]
        ELSE [seg |-> p[t + 1], from |-> t, to |-> t + 1,
              remain |-> StripLeadingSlash(p, t + 1)]

\* Mutant: a typed parameter takes any segment.
ParsesAny(name) == TRUE

\* segment.parse::<i32>() and its like.
Parses(name) == name \in Numeric

\* Mutant: a "<**>" captures one segment only.
FullCaptureOne(p, o) ==
    [from |-> StripOneSegment(p, o).from, to |-> StripOneSegment(p, o).to]

\* What a "<**>" captures: all that remains.
FullCapture(p, o) == [from |-> StripLeadingSlash(p, o), to |-> Len(p)]

\* CapturedStr: the range of a segment in the path (of its text, where the
\* value is a number).  At the end of the path strip_one_segment returns an
\* empty literal, which is no part of the path, and slice_range takes its
\* distance to the path: 0 if the literal lies below it, anything if not, and
\* then PathSlice::as_str panics on the range.
Captured(p, one) ==
    IF one.from = Len(p)
    THEN {[from |-> e, to |-> e] : e \in {0, Len(p) + 1}}
    ELSE {[from |-> one.from, to |-> one.to]}

\* call_path_only of a node with segment seg: the matches, none or one (or one
\* for every range the capture may have).
CallPathOnly(seg, leaf, p, o) ==
    LET one == StripOneSegment(p, o)
        normalized == IF o + 1 = Len(p) /\ p[o + 1] = "/" THEN Len(p) ELSE o
        Plain(ok, remain) ==
            IF ok THEN {[remain |-> remain, capture |-> {}]} ELSE {}
        Param(ok, ranges) ==
            {[remain |-> one.remain, capture |-> {r}] :
                r \in IF ok THEN ranges ELSE {}}
        kind == Kind(seg)
    IN  CASE kind = "root" -> Plain(normalized = Len(p) \/ ~leaf, normalized)
          [] kind = "string" -> Param(one.seg # "", Captured(p, one))
          [] kind = "int" ->
               Param(one.seg # "" /\ Parses(one.seg), Captured(p, one))
          [] kind = "path" -> Param(TRUE, Captured(p, one))
          [] kind = "full" -> Param(TRUE, {FullCapture(p, o)})
          [] OTHER -> Plain(one.seg = seg, one.remain)

-----------------------------------------------------------------------------
(* Choosing a child                                                        *)

Child(n, i) == Append(n, tree[n].children[i])

Match(n, o) ==
    CallPathOnly(SegmentOf(n), tree[n].children = <<>>, request.path, o)

\* The children looked at: the static one of that name (all of them when
\* nothing remains), and the dynamic ones.
Candidates(n, o) ==
    {i \in DOMAIN tree[n].children :
        LET seg == tree[n].children[i]
        IN  \/ ~IsStatic(seg) \/ o = Len(request.path)
            \/ StripOneSegment(request.path, o).seg = seg}

\* path_can_resolve: the offsets from which some way down from n takes all of
\* the rest of the path; handlers are not looked at.
CanResolve[n \in DOMAIN tree] ==
    {o \in 0..Len(request.path) :
        \/ \E i \in Candidates(n, o) : \E m \in Match(Child(n, i), o) :
              m.remain \in CanResolve[Child(n, i)]
        \/ o = Len(request.path) \/ IsFullPath(n)}

\* Mutant: the first child that matches its own segment is taken.
ResolvingNoLookahead(n, o) ==
    {i \in Candidates(n, o) : Match(Child(n, i), o) # {}}

Resolving(n, o) ==
    {i \in Candidates(n, o) :
        \E m \in Match(Child(n, i), o) :
            m.remain \in CanResolve[Child(n, i)]}

\* Mutant: dynamic children are tried before the static one.
TriedNoLaterDynamicFirst(n, i, j) ==
    LET static(k) == IsStatic(tree[n].children[k])
    IN  static(j) \/ (~static(i) /\ i <= j)

\* candidate_indices: the static child first, then the dynamic ones as they
\* were added.
TriedNoLater(n, i, j) ==
    LET static(k) == IsStatic(tree[n].children[k])
    IN  static(i) \/ (~static(j) /\ i <= j)

-----------------------------------------------------------------------------
(* Dispatch                                                                *)

\* The node's own middlewares, middlewares[middleware_start..].
Own(n) == SubSeq(tree[n].chain, tree[n].start + 1, Len(tree[n].chain))

\* bind_params on entering node n: a later parameter of the same key replaces
\* an earlier one.
BindParams(bound, n, match) ==
    LET new == {[key |-> Special[SegmentOf(n)].key, place |-> Len(n),
                 from |-> r.from, to |-> r.to] : r \in match.capture}
    IN  {b \in bound : \A c \in new : c.key # b.key} \cup new

\* Handler for RouteTree: the root matches first, and its middlewares run.
CallTree(p, m) ==
    /\ phase = "idle"
    /\ request' = [path |-> p, method |-> m]
    /\ LET top == Child(<<>>, 1)
           leaf == tree[top].children = <<>>
           matches == CallPathOnly(SegmentOf(top), leaf, p, 0)
       IN  \/ /\ matches = {}
              /\ reply' = [status |-> "not_found", handler |-> 0]
              /\ UNCHANGED <<phase, walkVars>>
           \/ \E match \in matches :
              /\ phase' = "walk" /\ reply' = NoReply
              /\ at' = top /\ offset' = match.remain
              /\ ran' = <<Own(top)>>
              /\ params' = BindParams({}, top, match)
    /\ UNCHANGED buildVars

\* call_children finds a child: its parameter is bound, its middlewares run.
Descend ==
    /\ phase = "walk"
    /\ \E i \in Resolving(at, offset) :
        /\ \A j \in Resolving(at, offset) : TriedNoLater(at, i, j)
        /\ \E m \in Match(Child(at, i), offset) :
            /\ at' = Child(at, i) /\ offset' = m.remain
            /\ ran' = Append(ran, Own(Child(at, i)))
            /\ params' = BindParams(params, Child(at, i), m)
    /\ UNCHANGED <<buildVars, phase, request, reply>>

\* The handler map of a node: the method, HEAD served by GET, or 405.
CallHandler(handlers, method) ==
    IF method \in DOMAIN handlers
    THEN [status |-> "ok", handler |-> handlers[method]]
    ELSE IF method = "HEAD" /\ "GET" \in DOMAIN handlers
    THEN [status |-> "ok", handler |-> handlers["GET"]]
    ELSE [status |-> "not_allowed", handler |-> 0]

\* No child resolves: the node's own handler, if the path ends here or the node
\* takes all of it.
Conclude ==
    /\ phase = "walk" /\ Resolving(at, offset) = {}
    /\ phase' = "idle"
    /\ reply' = IF /\ tree[at].handler # NoHandler
                   /\ offset = Len(request.path) \/ IsFullPath(at)
                THEN CallHandler(tree[at].handler, request.method)
                ELSE [status |-> "not_found", handler |-> 0]
    /\ UNCHANGED <<buildVars, request, walkVars>>

RouteNext ==
    \/ \E s \in Specs : AppendRoute(s)
    \/ Convert
    \/ \E p \in Paths, m \in Methods : CallTree(p, m)
    \/ Descend \/ Conclude

RouteSpec == RouteInit /\ [][RouteNext]_routeVars

-----------------------------------------------------------------------------
(* Properties                                                              *)

\* The names of path p between offsets a and b.
NamesIn(p, a, b) == {i \in (a + 1)..b : p[i] # "/"}

AtMostOne(S) == \A i, j \in S : i = j

\* Requests written with single slashes (one may follow the last name).
Canonical(p) == \A i \in 1..(Len(p) - 1) : ~(p[i] = "/" /\ p[i + 1] = "/")

\* What one segment pattern may stand for: names, all of path p.  A "<**>"
\* that is not last gives back all but one name to its children.
Takes(seg, p, names, isLast) ==
    LET one == AtMostOne(names) /\ names # {}
        kind == Kind(seg)
    IN  CASE kind = "root" -> names = {}
          [] kind = "string" -> one
          [] kind = "int" -> one /\ \A i \in names : p[i] \in Numeric
          [] kind = "path" -> AtMostOne(names)
          [] kind = "full" -> isLast \/ AtMostOne(names)
          [] OTHER -> one /\ \A i \in names : p[i] = seg

\* In a path without empty segments "<*>" and "<**>" go without a name only
\* where no name is left.
Greedy(seg, p, names, left) ==
    Kind(seg) \in {"path", "full"} /\ Canonical(p) /\ names = {} => left = {}

\* The path is cut into one piece per segment of pat: piece i ends at ends[i].
From(ends, i) == IF i = 1 THEN 0 ELSE ends[i - 1]
Piece(p, ends, i) == NamesIn(p, From(ends, i), ends[i])
Left(p, ends, i) == NamesIn(p, From(ends, i), Len(p))

Reads(pat, p, ends) ==
    /\ ends[Len(pat)] = Len(p)
    /\ \A i \in DOMAIN pat :
          /\ From(ends, i) <= ends[i]
          /\ Takes(pat[i], p, Piece(p, ends, i), i = Len(pat))
          /\ Greedy(pat[i], p, Piece(p, ends, i), Left(p, ends, i))

Cuts(pat, p) == [DOMAIN pat -> 0..Len(p)]

Matches(pat, p) == \E ends \in Cuts(pat, p) : Reads(pat, p, ends)

Chosen == regs[reply.handler]

\* Of several Routes appended with one pattern and method, the one chosen is
\* the first.  (Of two calls of get() on one Route the second replaces.)
FirstRegistration ==
    \A k \in 1..(reply.handler - 1) :
        ~(regs[k].pat = Chosen.pat /\ regs[k].method = Chosen.method)

\* Dispatch never runs a handler on a path its registered pattern does not
\* stand for, whatever else is registered and however the path is written, nor
\* one that was appended later for the same pattern and method; and a 405 is
\* only sent for a path some registration stands for.
DispatchSound ==
    /\ reply.status = "ok" =>
          Matches(Chosen.pat, request.path) /\ FirstRegistration
    /\ reply.status = "not_allowed" =>
          \E k \in DOMAIN regs : Matches(regs[k].pat, request.path)

\* The last parameter of each key of a pattern.
LastOfKey(pat) ==
    {i \in DOMAIN pat :
        /\ Kind(pat[i]) \in Parameter
        /\ \A j \in DOMAIN pat :
              j > i /\ Kind(pat[j]) \in Parameter =>
                  Special[pat[j]].key # Special[pat[i]].key}

\* Capture b lies in path p, so that it can be read, and one of a single
\* segment is no more than that.
Readable(p, b, seg) ==
    /\ b.from <= b.to /\ b.to <= Len(p)
    /\ Kind(seg) # "full" => \A i \in (b.from + 1)..b.to : p[i] # "/"

\* The handler gets a capture for every key of its pattern, the one of the last
\* parameter of that key; together the captures are a way its pattern reads
\* the path, and each can be read from it.  Excepted is a "<*>" for which
\* nothing is left of the path: its range may lie outside (see Captured).
CapturesAgree ==
    reply.status = "ok" =>
        LET pat == Chosen.pat
            p == request.path
        IN  /\ {b.place : b \in params} = LastOfKey(pat)
            /\ \A b \in params : b.key = Special[pat[b.place]].key
            /\ \E ends \in Cuts(pat, p) :
                  /\ Reads(pat, p, ends)
                  /\ \A b \in params :
                        /\ NamesIn(p, b.from, b.to) =
                               IF Kind(pat[b.place]) = "full"
                               THEN Left(p, ends, b.place)
                               ELSE Piece(p, ends, b.place)
                        /\ \/ Readable(p, b, pat[b.place])
                           \/ /\ Kind(pat[b.place]) = "path"
                              /\ Left(p, ends, b.place) = {}

\* The registrations that hooked a middleware on the node of the first d
\* segments of pat; 0 stands for what build_route_tree hooked on the root.
HookedAt(pat, d) ==
    {k \in DOMAIN regs :
        /\ regs[k].hook = d
        /\ SubSeq(regs[k].pat, 1, d) = SubSeq(pat, 1, d)}
    \cup (IF d = 1 THEN {0} ELSE {})

\* A handler runs behind exactly the middlewares hooked on the nodes of its
\* pattern, those of the service first, then outermost node first, each once
\* and in the order of registration, however the routes were merged.
MiddlewareChain ==
    reply.status = "ok" =>
        /\ Len(ran) = Len(Chosen.pat)
        /\ \A d \in DOMAIN Chosen.pat :
              /\ Rng(ran[d]) = HookedAt(Chosen.pat, d)
              /\ \A i, j \in DOMAIN ran[d] : i < j => ran[d][i] < ran[d][j]

\* Registration k goes on from pattern pat, and path p may end on the way.
GoesOn(k, pat, p) ==
    LET longer == regs[k].pat
    IN  /\ Len(pat) <= Len(longer) /\ SubSeq(longer, 1, Len(pat)) = pat
        /\ \E d \in (Len(pat) + 1)..Len(longer) :
              Matches(SubSeq(longer, 1, d), p)

\* Registration k has static names only (the root may be ""), those of path p.
Exact(k, p) ==
    LET pat == regs[k].pat
    IN  /\ \A i \in DOMAIN pat : IsStatic(pat[i]) \/ (i = 1 /\ pat[1] = "")
        /\ Matches(pat, p)
        /\ \A j \in DOMAIN regs : ~GoesOn(j, pat, p)

\* The node of a pattern of static names only is the one that answers exactly
\* that path, unless a longer pattern goes on from it with parameters that
\* accept nothing.
ExactStaticWins ==
    reply.status # "none" /\ Canonical(request.path) =>
        \A k \in DOMAIN regs : Exact(k, request.path) =>
            reply.status # "not_found" /\ at = regs[k].pat

\* A path some registration stands for is answered 404 only where dispatch,
\* which does not backtrack, stopped at a node that stands for the path as well
\* but has no handler: the pattern of that node is a proper prefix of a
\* registered one, possibly of the very one the path stands for.
NotFoundOnlyAtPrefix ==
    reply.status = "not_found" /\ Canonical(request.path) =>
        \A k \in DOMAIN regs : Matches(regs[k].pat, request.path) =>
            /\ at # <<>> /\ Matches(at, request.path)
            /\ \A j \in DOMAIN regs : regs[j].pat # at
            /\ \E j \in DOMAIN regs :
                  /\ Len(at) < Len(regs[j].pat)
                  /\ SubSeq(regs[j].pat, 1, Len(at)) = at

=============================================================================
