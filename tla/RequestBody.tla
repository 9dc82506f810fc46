----------------------------- MODULE RequestBody -----------------------------
(***************************************************************************)
(* The body of one request (core/req_body.rs) and the calls of Request     *)
(* that read it (core/request.rs, core/form.rs): json_parse, form_parse,   *)
(* form_data and its users, and a handler that takes the body, polls it    *)
(* itself and may put the rest back.  Each call takes the body out of the  *)
(* request before it awaits the client, and keeps what it read in a        *)
(* OnceCell.  The handler may be cancelled at any await (the Timeout       *)
(* middleware, a lost connection).                                         *)
(*                                                                         *)
(* A chunk is the range of bytes of the body it carries; what a call has   *)
(* read is the sequence of its chunks.  Whether a body is well-formed,     *)
(* where the closing boundary of a multipart body is, and whether a body   *)
(* deserializes into the type asked for is chosen by the environment, the  *)
(* first two once for a body.                                              *)
(***************************************************************************)
EXTENDS Integers, Sequences

CONSTANTS
    Limit,      \* max_body_size, applied to Incoming bodies
    ChunkLens,  \* lengths of the chunks a client sends
    MaxChunks,  \* bound: chunks of the body
    MaxCalls,   \* bound: calls of the handler
    MaxFiles    \* bound: file parts of a multipart body

ASSUME RequestBodyAssumption ==
    /\ Limit \in Nat /\ ChunkLens \subseteq Nat
    /\ MaxChunks \in Nat /\ MaxCalls \in Nat /\ MaxFiles \in Nat

Type == {"json", "form", "multipart", "bare", "none"}
Parser == {"json", "form", "multipart"}
FileId == 1..MaxFiles
Chunk == [from : Nat, to : Nat]

VARIABLES
    ctype,      \* subtype of the content type; "bare": no boundary
    wellFormed, \* the body parses
    closing,    \* number of the chunk that completes the closing boundary of a
                \* multipart body; 0: there is none
    variant,    \* the ReqBody in the request: "Empty", "Once" or "Limited"
    taken,      \* the ReqBody its reader has
    reader,     \* the call that reads it
    sent,       \* chunks the client has sent
    client,     \* "open", "end" or "error"
    wire,       \* chunks not read yet
    seen,       \* LimitedIncoming.seen
    got,        \* chunks its readers were given
    start,      \* how many of them the handler had read itself before a call
                \* took the body
    cache,      \* the OnceCells json_data, form_body_cache and form_data: the
                \* set of what each holds
    whole,      \* parsers that have read a well-formed body
    result,     \* the last call that returned, and its result
    calls,
    parts,      \* FileParts of the FormData being read or kept
    creating,   \* files FilePart::create is writing
    dirs,       \* temporary directories on disk
    dying,      \* FileParts dropped whose thread has not run yet
    cut,        \* files whose creation was interrupted
    handler     \* "running" or "gone"

kindVars == <<ctype, wellFormed, closing>>
clientVars == <<sent, client, wire>>
bodyVars == <<variant, taken, reader, seen, got, start>>
fileVars == <<parts, creating, dirs, dying, cut>>
vars == <<ctype, wellFormed, closing, variant, taken, reader, sent, client,
          wire, seen, got, start, cache, whole, result, calls, parts,
          creating, dirs,
          dying, cut, handler>>

Size(chunk) == chunk.to - chunk.from
EndOf(chunks) == IF chunks = <<>> THEN 0 ELSE chunks[Len(chunks)].to
NoBytes(chunks) == \A i \in DOMAIN chunks : Size(chunks[i]) = 0

TypeOK ==
    /\ ctype \in Type /\ wellFormed \in BOOLEAN /\ closing \in 0..MaxChunks
    /\ variant \in {"Empty", "Once", "Limited"}
    /\ taken \in {"Empty", "Once", "Limited"}
    /\ reader \in Parser \cup {"none", "user"}
    /\ client \in {"open", "end", "error"}
    /\ sent \in Seq(Chunk) /\ wire \in Seq(Chunk) /\ got \in Seq(Chunk)
    /\ seen \in Nat /\ start \in Nat /\ calls \in 0..MaxCalls
    /\ cache \in [Parser -> SUBSET Seq(Chunk)]
    /\ whole \subseteq Parser
    /\ result \in [call : Parser \cup {"none"},
                   is : {"none", "content_type", "empty", "malformed",
                         "mismatch", "ok", "cancelled"}]
    /\ parts \subseteq FileId /\ creating \subseteq FileId
    /\ dirs \subseteq FileId /\ dying \subseteq FileId /\ cut \subseteq FileId
    /\ handler \in {"running", "gone"}

\* HyperService::call has wrapped an Incoming body into LimitedIncoming
\* (with_limit); a body given at once has no limit.
Init ==
    /\ ctype \in Type /\ wellFormed \in BOOLEAN
    /\ closing \in IF ctype = "multipart" THEN 0..MaxChunks ELSE {0}
    /\ \/ /\ variant = "Limited"
          /\ sent = <<>> /\ wire = <<>> /\ client = "open"
       \/ /\ variant = "Once"
          /\ \E n \in ChunkLens : sent = <<[from |-> 0, to |-> n]>>
          /\ wire = sent
          /\ client = "end"
       \/ /\ variant = "Empty"
          /\ sent = <<>> /\ wire = <<>> /\ client = "end"
    /\ taken = "Empty" /\ reader = "none" /\ seen = 0
    /\ got = <<>> /\ start = 0
    /\ cache = [k \in Parser |-> {}] /\ whole = {}
    /\ result = [call |-> "none", is |-> "none"] /\ calls = 0
    /\ parts = {} /\ creating = {} /\ dirs = {} /\ dying = {} /\ cut = {}
    /\ handler = "running"

-----------------------------------------------------------------------------
(* The client                                                              *)

ClientSend(n) ==
    /\ client = "open" /\ Len(sent) < MaxChunks
    /\ LET chunk == [from |-> EndOf(sent), to |-> EndOf(sent) + n]
       IN  sent' = Append(sent, chunk) /\ wire' = Append(wire, chunk)
    /\ UNCHANGED <<kindVars, client, bodyVars, cache, whole, result, calls,
                   fileVars, handler>>

ClientEnd(how) ==
    /\ client = "open"
    /\ client' = how
    /\ UNCHANGED <<kindVars, sent, wire, bodyVars, cache, whole, result,
                   calls, fileVars, handler>>

-----------------------------------------------------------------------------
(* Calls of the handler                                                    *)

\* A call awaits its end; a handler that holds the body may make others.
Call ==
    /\ handler = "running" /\ reader \notin Parser /\ calls < MaxCalls
    /\ calls' = calls + 1
    /\ UNCHANGED <<kindVars, clientVars, seen, got, whole, fileVars, handler>>

Answer(k, r) == result' = [call |-> k, is |-> r]

\* The parse into the type asked for.  Only form_parse keeps the raw bytes,
\* and so finds out here whether they are well-formed.
Typed(k) ==
    IF k = "form" /\ ~wellFormed THEN Answer(k, "malformed")
    ELSE \E r \in {"ok", "mismatch"} : Answer(k, r)

Accepts(k) == ctype = k \/ (k = "multipart" /\ ctype = "bare")

\* A value kept by an earlier call answers this one.
FromCache(k) ==
    /\ Call
    /\ cache[k] # {}
    /\ Accepts(k)
    /\ Typed(k)
    /\ UNCHANGED <<variant, taken, reader, start, cache>>

WrongType(k) ==
    /\ Call
    /\ ~Accepts(k)
    /\ Answer(k, "content_type")
    /\ UNCHANGED <<variant, taken, reader, start, cache>>

\* Without a body json_parse and urlencoded_form_parse fail at once, and multer
\* finds its stream incomplete.
NoBody(k) ==
    /\ Call
    /\ cache[k] = {} /\ ctype = k /\ variant = "Empty"
    /\ Answer(k, IF k = "multipart" THEN "malformed" ELSE "empty")
    /\ UNCHANGED <<variant, taken, reader, start, cache>>

\* FormData::read without a boundary: the body is dropped unread, and an empty
\* form is the result.
NoBoundary ==
    /\ Call
    /\ cache["multipart"] = {} /\ ctype = "bare"
    /\ variant' = "Empty"
    /\ cache' = [cache EXCEPT !["multipart"] = {<<>>}]
    /\ Typed("multipart")
    /\ UNCHANGED <<taken, reader, start>>

\* take_body: from here on the call awaits the client.
TakeBody(k) ==
    /\ Call
    /\ cache[k] = {} /\ ctype = k /\ variant # "Empty"
    /\ reader' = k /\ taken' = variant /\ variant' = "Empty"
    /\ start' = Len(got)
    /\ UNCHANGED <<cache, result>>

\* The handler takes the body to poll it itself.
UserTake ==
    /\ Call
    /\ variant # "Empty"
    /\ reader' = "user" /\ taken' = variant /\ variant' = "Empty"
    /\ UNCHANGED <<start, cache, result>>

\* It puts the rest back.  A Once that was polled has become Empty, and what is
\* left of a body may parse where the whole did not, and the other way round.
ReplaceBody ==
    /\ handler = "running" /\ reader = "user" /\ calls < MaxCalls
    /\ calls' = calls + 1
    /\ variant' = IF taken = "Once" /\ wire = <<>> THEN "Empty" ELSE taken
    /\ reader' = "none" /\ taken' = "Empty"
    /\ wellFormed' \in IF got = <<>> THEN {wellFormed} ELSE BOOLEAN
    /\ UNCHANGED <<ctype, closing, clientVars, seen, got, start, cache, whole,
                   result, fileVars, handler>>

-----------------------------------------------------------------------------
(* ReqBody::poll_frame                                                     *)

\* Mutant: a chunk over the limit is not counted.
CountRefusing(n) ==
    IF taken = "Limited" /\ seen + n <= Limit THEN seen + n ELSE seen

\* LimitedIncoming counts a chunk before it compares.
Count(n) == IF taken = "Limited" THEN seen + n ELSE seen

Over(n) == taken = "Limited" /\ seen + n > Limit

\* The next chunk passes.
Frame ==
    /\ reader # "none" /\ wire # <<>> /\ ~Over(Size(Head(wire)))
    /\ seen' = Count(Size(Head(wire)))
    /\ got' = Append(got, Head(wire)) /\ wire' = Tail(wire)
    /\ UNCHANGED <<kindVars, sent, client, variant, taken, reader, start,
                   cache, whole, result, calls, fileVars, handler>>

\* FormData and the file being written are dropped; every FilePart spawns a
\* thread that removes its file and directory, an unfinished file has none.
DropFiles ==
    /\ dying' = dying \cup parts /\ cut' = cut \cup creating
    /\ parts' = {} /\ creating' = {}
    /\ UNCHANGED dirs

\* Any error of the body, or of writing a file, ends a call; what was read is
\* dropped.
Abort(k, r) ==
    /\ reader' = "none" /\ taken' = "Empty"
    /\ Answer(k, r)
    /\ DropFiles

\* What the call that has the body was given.
Gathered == SubSeq(got, start + 1, Len(got))

ReadError == IF reader = "multipart" THEN "malformed" ELSE "empty"

\* The chunk exceeds the limit: an error, after which a handler may poll on.
OverLimit ==
    /\ reader # "none" /\ wire # <<>> /\ Over(Size(Head(wire)))
    /\ seen' = Count(Size(Head(wire))) /\ wire' = Tail(wire)
    /\ \/ /\ reader = "user"
          /\ UNCHANGED <<taken, reader, result, fileVars>>
       \/ reader # "user" /\ Abort(reader, ReadError)
    /\ UNCHANGED <<kindVars, sent, client, variant, got, start, cache, whole,
                   calls, handler>>

\* The connection breaks, or a temporary file cannot be written.
Broken ==
    /\ reader \in Parser
    /\ (wire = <<>> /\ client = "error") \/ creating # {}
    /\ Abort(reader, ReadError)
    /\ UNCHANGED <<kindVars, clientVars, variant, seen, got, start, cache,
                   whole, calls, handler>>

\* FilePart::create: a kept directory, then the file; the part exists at last.
FileBegin(f) ==
    /\ reader = "multipart" /\ creating = {} /\ Gathered # <<>>
    /\ f \notin dirs \cup parts \cup cut \cup dying
    /\ creating' = {f} /\ dirs' = dirs \cup {f}
    /\ UNCHANGED <<kindVars, clientVars, bodyVars, cache, whole, result,
                   calls, parts, dying, cut, handler>>

FileEnd ==
    /\ reader = "multipart" /\ creating # {}
    /\ parts' = parts \cup creating /\ creating' = {}
    /\ UNCHANGED <<kindVars, clientVars, bodyVars, cache, whole, result,
                   calls, dirs, dying, cut, handler>>

AtEnd == wire = <<>> /\ client = "end"

\* Mutant: a body is complete when nothing is there to be read.
CompleteWhenIdle ==
    IF reader = "multipart" THEN closing \in start + 1..Len(got)
    ELSE wire = <<>> /\ client # "error"

\* collect() reads to the end of the stream.  next_field() returns None at the
\* closing boundary: what follows it is not waited for, nor looked at unless it
\* was read along with the rest.
Complete ==
    IF reader = "multipart" THEN closing \in start + 1..Len(got) ELSE AtEnd

\* Mutant: the value is kept only after it has the type asked for.
FinishTypedFirst ==
    /\ reader \in Parser /\ Complete /\ creating = {} /\ ~NoBytes(Gathered)
    /\ wellFormed \/ reader = "form"
    /\ reader' = "none" /\ taken' = "Empty"
    /\ Typed(reader)
    /\ cache' = [cache EXCEPT ![reader] =
                     IF result'.is = "ok" THEN {Gathered} ELSE @]
    /\ whole' = IF wellFormed THEN whole \cup {reader} ELSE whole
    /\ UNCHANGED <<kindVars, clientVars, variant, seen, got, start, calls,
                   fileVars, handler>>

\* The body is complete: it is kept, then parsed into the type asked for.
Finish ==
    /\ reader \in Parser /\ Complete /\ creating = {} /\ ~NoBytes(Gathered)
    /\ wellFormed \/ reader = "form"
    /\ reader' = "none" /\ taken' = "Empty"
    /\ cache' = [cache EXCEPT ![reader] = {Gathered}]
    /\ Typed(reader)
    /\ whole' = IF wellFormed THEN whole \cup {reader} ELSE whole
    /\ UNCHANGED <<kindVars, clientVars, variant, seen, got, start, calls,
                   fileVars, handler>>

\* An empty body, one that ends too early, or one that does not parse, is not
\* kept; multer parses as it reads.
FinishBad ==
    /\ reader \in Parser
    /\ \/ AtEnd /\ (NoBytes(Gathered) \/ ~Complete)
       \/ AtEnd /\ ~wellFormed /\ reader = "json"
       \/ Gathered # <<>> /\ ~wellFormed /\ reader = "multipart"
    /\ Abort(reader, IF NoBytes(Gathered) THEN ReadError ELSE "malformed")
    /\ UNCHANGED <<kindVars, clientVars, variant, seen, got, start, cache,
                   whole, calls, handler>>

\* The handler gives up the call it awaits (a timeout of its own): the future
\* is dropped with the body.
Cancel ==
    /\ handler = "running" /\ reader \in Parser
    /\ Abort(reader, "cancelled")
    /\ UNCHANGED <<kindVars, clientVars, variant, seen, got, start, cache,
                   whole, calls, handler>>

\* The handler has returned, or was cancelled by Timeout or with its
\* connection: the request is dropped.
Gone ==
    /\ handler = "running"
    /\ handler' = "gone" /\ reader' = "none" /\ taken' = "Empty"
    /\ DropFiles
    /\ UNCHANGED <<kindVars, clientVars, variant, seen, got, start, cache,
                   whole, result, calls>>

\* Mutant: the thread removes the file but not its directory.
RemoveFileOnly(f) ==
    /\ f \in dying
    /\ dying' = dying \ {f}
    /\ UNCHANGED <<kindVars, clientVars, bodyVars, cache, whole, result,
                   calls, parts, creating, dirs, cut, handler>>

\* The thread of FilePart::drop.
RemoveUpload(f) ==
    /\ f \in dying
    /\ dying' = dying \ {f} /\ dirs' = dirs \ {f}
    /\ UNCHANGED <<kindVars, clientVars, bodyVars, cache, whole, result,
                   calls, parts, creating, cut, handler>>

CallStep ==
    \/ \E k \in Parser :
          FromCache(k) \/ WrongType(k) \/ NoBody(k) \/ TakeBody(k)
    \/ NoBoundary \/ UserTake \/ ReplaceBody

ReadStep ==
    \/ Frame \/ OverLimit \/ Broken \/ Finish \/ FinishBad \/ FileEnd
    \/ \E f \in FileId : FileBegin(f)

Next ==
    \/ \E n \in ChunkLens : ClientSend(n)
    \/ \E how \in {"end", "error"} : ClientEnd(how)
    \/ CallStep \/ ReadStep \/ Cancel \/ Gone
    \/ \E f \in FileId : RemoveUpload(f)

\* Spawned threads run; neither the client nor the handler has to go on.
Spec == Init /\ [][Next]_vars /\ WF_vars(\E f \in FileId : RemoveUpload(f))

-----------------------------------------------------------------------------
(* Properties                                                              *)

\* What a call may keep: json_parse and form_parse all that was left of the
\* body of a client that finished it, form_data no less than what leads up to
\* the closing boundary.
Entire(k, kept) ==
    IF k = "multipart"
    THEN /\ start < closing
         /\ \E n \in closing..Len(sent) : kept = SubSeq(sent, start + 1, n)
    ELSE client = "end" /\ kept = SubSeq(sent, start + 1, Len(sent))

\* Readers are given a prefix of what the client sent, never more than the
\* limit and nothing behind a chunk that was refused, also when the handler has
\* read some of it and put the rest back; and a call succeeds on nothing less
\* than the rest of the body.
WholeBody ==
    /\ \A i \in DOMAIN got : i \in DOMAIN sent /\ got[i] = sent[i]
    /\ variant = "Limited" \/ taken = "Limited" => EndOf(got) <= Limit
    /\ \A k \in Parser : \A kept \in cache[k] :
          ctype = "bare" \/ Entire(k, kept)

\* A body is read once and not forgotten: after a call has read a well-formed
\* one, every later call of that kind answers from it, also when the
\* first one asked for a type that did not fit.
KeptParse == result.call \in whole => result.is \in {"ok", "mismatch"}

OneCut == \A f, g \in cut : f = g

\* Uploads do not pile up: a request that is gone leaves no temporary
\* directory, except the one of a file that was interrupted half-way, and there
\* is at most one of those, since a body is read only once.
UploadsReleased == (handler = "gone" ~> dirs = cut) /\ []OneCut

=============================================================================
