---------------------------- MODULE HttpForward ----------------------------
(***************************************************************************)
(* One client connection served by the HTTP forward proxy: the loop of     *)
(* execute_http_forward, the request body it uploads, and the response it  *)
(* relays, with the client and the origin as processes of their own.       *)
(*                                                                         *)
(* The client may send its next request before the answer to this one.     *)
(* Every request is sent over a new upstream stream, the body is uploaded  *)
(* to its end before the response is looked at, and no timer runs except   *)
(* between two requests.  Bytes are counted in units: a head, a piece of a *)
(* body, a chunk's size line, its data or a trailer line each count one.   *)
(***************************************************************************)
EXTENDS Integers, Sequences

CONSTANTS
    Requests,      \* requests a client may send
    Responses,     \* answers an origin may give
    Modes,         \* when an origin answers: "patient", "early", "busy", "echo"
    MaxRequests,   \* MAX_REQUESTS_PER_CONNECTION
    MaxSent,       \* bound: requests one client begins
    MaxInfo,       \* MAX_INFORMATIONAL_RESPONSES
    BodyLimit,     \* max_decoded_body
    Window,        \* bound: units in flight from the client
    PipeCap        \* units each direction of the upstream stream holds

ASSUME ForwardAssumption ==
    /\ {MaxRequests, MaxSent, MaxInfo, BodyLimit, Window, PipeCap} \subseteq Nat
    /\ MaxRequests > 0 /\ MaxSent > 0 /\ Window > 0 /\ PipeCap > 0

VARIABLES
    client,     \* "open", "half" (sends no more) or "gone"
    sent,       \* the requests the client has begun
    rest,       \* what it has still to send of the last one
    cin,        \* units sent by the client and not read by the proxy
    phase,      \* where the loop is
    outcome,    \* outcome of the SessionReport
    count,      \* request_count
    copied,     \* the upload: data units, units on the wire, the last unit
    reply,      \* the response: informational heads, what is left, forwarded, last
    tally,      \* totals of the report and what was really written
    origin,     \* the process at the other end of the upstream stream
    toOrigin, fromOrigin,
    view        \* the client's HTTP parser over what it was sent

clientVars == <<client, sent, rest>>
loopVars   == <<phase, outcome, count>>
wires      == <<origin, toOrigin, fromOrigin>>
vars == <<client, sent, rest, cin, phase, outcome, count, copied, reply, tally,
          origin, toOrigin, fromOrigin, view>>

-----------------------------------------------------------------------------
(* Requests and responses.                                                 *)

\* A request has its Content-Length values, its transfer codings, the number of
\* body units the client really sends, Expect and Connection: close.
BodyKind(r) ==
    IF \/ \E i, j \in DOMAIN r.lengths : r.lengths[i] # r.lengths[j]
       \/ r.codings # <<>> /\ r.lengths # <<>>
       \/ \E i \in DOMAIN r.codings : r.codings[i] # "chunked"
    THEN "refused"
    ELSE IF r.codings # <<>> THEN "chunked"
    ELSE IF r.lengths # <<>> THEN "length" ELSE "none"

\* A client sends the body that its head announces.
ASSUME RequestAssumption ==
    \A r \in Requests :
       /\ r.body \in Nat
       /\ BodyKind(r) = "none" => r.body = 0
       /\ BodyKind(r) = "length" => r.body = r.lengths[1]

ExpectationIgnored(r) == FALSE

HasUnsupportedExpectation(r) == r.expect

Repeat(n, u) == [i \in 1..n |-> u]

\* Chunked framing: size line and data for each chunk, the zero chunk, and the
\* empty line after the trailers.
Chunks(n) ==
    [i \in 1..(2 * n) |-> IF i % 2 = 1 THEN "size" ELSE "data"] \o <<"zero", "end">>

RequestUnits(r) ==
    <<"head">> \o IF BodyKind(r) = "chunked" THEN Chunks(r.body)
                                             ELSE Repeat(r.body, "data")

\* A response has its number of informational heads, what the last head is, its
\* Content-Length (-1: none), its Transfer-Encoding ("coded": chunked with other
\* codings or parameters), its body, Connection: close, and whether the version
\* and Keep-Alive let the connection persist.
ASSUME ResponseAssumption == \A p \in Responses : p.length \in Int

IsChunked(p) == p.coding \in {"chunked", "coded"}

RelayFraming(p) ==
    IF IsChunked(p) THEN "chunked" ELSE IF p.length >= 0 THEN "length" ELSE "eof"

\* What a client makes of the forwarded head: filter_hop_by_hop keeps
\* Transfer-Encoding only when its value is exactly "chunked".
ClientFraming(p) ==
    IF p.coding = "chunked" THEN "chunked"
    ELSE IF p.length >= 0 THEN "length" ELSE "eof"

ResponseUnits(p) ==
    Repeat(p.info, "info") \o <<p.last>> \o
    IF p.last # "final" THEN <<>>
    ELSE IF IsChunked(p) THEN Chunks(p.body) ELSE Repeat(p.body, "data")

AliveAfterEof(p) == ~p.close /\ p.persist

UpstreamAlive(p) == ~p.close /\ p.persist /\ RelayFraming(p) # "eof"

-----------------------------------------------------------------------------
(* The client's reading of what the proxy writes.                          *)

NoView == [mode |-> "between", left |-> 0, begun |-> 0, cont |-> FALSE,
           coded |-> FALSE, bad |-> FALSE]

\* The client reads the head of a final response, or a reply of the proxy's own.
ReadsHead(v, framing, left, coded) ==
    [mode |-> IF framing = "length" /\ left = 0 THEN "between" ELSE framing,
     left |-> left, begun |-> v.begun + 1, cont |-> FALSE,
     coded |-> v.coded \/ coded, bad |-> v.bad \/ v.mode # "between"]

\* The client reads one unit of a body.
ReadsUnit(v, u) ==
    CASE v.mode = "between" -> [v EXCEPT !.bad = TRUE]
      [] v.mode = "length"  -> [v EXCEPT !.left = @ - 1,
                                         !.mode = IF v.left = 1 THEN "between" ELSE @]
      [] v.mode = "chunked" -> [v EXCEPT !.mode = IF u = "end" THEN "between" ELSE @]
      [] v.mode = "eof"     -> v

ReadsInfo(v) == [v EXCEPT !.cont = TRUE, !.bad = @ \/ v.mode # "between"]

\* A reply of the proxy's own, without a length, if the client is still there.
Replied == view' = IF client = "gone" THEN view ELSE ReadsHead(view, "eof", 0, FALSE)

-----------------------------------------------------------------------------
NoCopy   == [decoded |-> 0, wire |-> 0, last |-> "none"]
NoReply  == [infos |-> 0, left |-> 0, forwarded |-> 0, last |-> "none"]
NoOrigin == [mode |-> "none", open |-> FALSE, p |-> CHOOSE p \in Responses : TRUE,
             got |-> 0, put |-> 0]

\* The first request was read by the accept side.
Init ==
    /\ client = "open"
    /\ \E r \in Requests :
         /\ BodyKind(r) # "refused"
         /\ sent = <<r>> /\ rest = Tail(RequestUnits(r))
    /\ cin = <<>>
    /\ phase = "route" /\ outcome = "none" /\ count = 1
    /\ copied = NoCopy /\ reply = NoReply
    /\ tally = [up |-> 0, down |-> 0, wroteUp |-> 0, wroteDown |-> 0]
    /\ origin = NoOrigin /\ toOrigin = <<>> /\ fromOrigin = <<>>
    /\ view = NoView

req  == sent[count]
resp == origin.p

-----------------------------------------------------------------------------
(* The client.                                                             *)

ClientBegin ==
    /\ phase # "ended" /\ client = "open" /\ rest = <<>> /\ Len(sent) < MaxSent
    /\ \E r \in Requests : sent' = Append(sent, r) /\ rest' = RequestUnits(r)
    /\ UNCHANGED <<client, cin, copied, reply, tally, view, loopVars, wires>>

\* A client that sent Expect holds its body back until it has seen a head.
ClientSend ==
    /\ phase # "ended" /\ client = "open" /\ rest # <<>> /\ Len(cin) < Window
    /\ sent[Len(sent)].expect /\ Head(rest) # "head" =>
          view.cont \/ view.begun >= Len(sent)
    /\ cin' = Append(cin, [u |-> Head(rest), n |-> Len(sent)])
    /\ rest' = Tail(rest)
    /\ UNCHANGED <<client, sent, copied, reply, tally, view, loopVars, wires>>

\* The client closes its sending side, or goes away, at any point.
ClientCloses ==
    /\ phase # "ended" /\ client = "open" /\ client' \in {"half", "gone"}
    /\ UNCHANGED <<sent, rest, cin, copied, reply, tally, view, loopVars, wires>>

-----------------------------------------------------------------------------
(* The origin.  A patient one reads the request to its end before it       *)
(* answers, an early one answers once it has the head, a busy one answers  *)
(* then and reads on when it has, and one that echoes reads no further     *)
(* than it has written.                                                    *)

OriginHasAll == origin.got = Len(RequestUnits(req))

OriginDone == origin.put = Len(ResponseUnits(resp))

OriginReads ==
    /\ origin.open /\ toOrigin # <<>>
    /\ origin.mode = "echo" => origin.put >= origin.got \/ OriginDone
    /\ origin.mode = "busy" => origin.got = 0 \/ OriginDone
    /\ toOrigin' = Tail(toOrigin)
    /\ origin' = [origin EXCEPT !.got = @ + 1]
    /\ UNCHANGED <<cin, fromOrigin, copied, reply, tally, view, clientVars, loopVars>>

OriginWrites ==
    /\ origin.open /\ ~OriginDone /\ Len(fromOrigin) < PipeCap
    /\ \/ OriginHasAll
       \/ origin.mode \in {"early", "busy"} /\ origin.got > 0
       \/ origin.mode = "echo" /\ origin.put < origin.got
    /\ fromOrigin' = Append(fromOrigin, ResponseUnits(resp)[origin.put + 1])
    /\ origin' = [origin EXCEPT !.put = @ + 1]
    /\ UNCHANGED <<cin, toOrigin, copied, reply, tally, view, clientVars, loopVars>>

OriginShut ==
    /\ origin.open
    /\ origin' = [origin EXCEPT !.open = FALSE]
    /\ toOrigin' = <<>>
    /\ UNCHANGED <<cin, fromOrigin, copied, reply, tally, view, clientVars, loopVars>>

\* Asked for Connection: close, the origin closes when it has answered.
OriginFinishes ==
    OriginDone /\ (OriginHasAll \/ origin.mode \in {"early", "busy"}) /\ OriginShut

\* It may also fail at any point.
OriginDies == OriginShut

-----------------------------------------------------------------------------
(* The loop.                                                               *)

\* Return of execute_http_forward, which drops the upstream stream.
Return(how) ==
    /\ phase' = "ended" /\ outcome' = how
    /\ origin' = NoOrigin /\ toOrigin' = <<>> /\ fromOrigin' = <<>>
    /\ copied' = NoCopy /\ reply' = NoReply
    /\ UNCHANGED <<count, clientVars>>

ExpectationFailed ==
    /\ phase = "route" /\ HasUnsupportedExpectation(req)
    /\ Replied /\ Return("client_protocol_error")
    /\ UNCHANGED <<cin, tally>>

OpenRoute ==
    /\ phase = "route" /\ ~HasUnsupportedExpectation(req)
    /\ \E m \in Modes, p \in Responses :
         origin' = [mode |-> m, open |-> TRUE, p |-> p, got |-> 0, put |-> 0]
    /\ phase' = "request"
    /\ UNCHANGED <<outcome, count, cin, toOrigin, fromOrigin, copied, reply, tally,
                   view, clientVars>>

\* The report is a new one, which counts nothing of the earlier requests.
OpenFails ==
    /\ phase = "route" /\ ~HasUnsupportedExpectation(req)
    /\ \E how \in {"rejected", "open_failed"} : Return(how)
    /\ Replied
    /\ tally' = [tally EXCEPT !.up = 0, !.down = 0]
    /\ UNCHANGED cin

WriteHead ==
    /\ phase = "request" /\ origin.open
    /\ toOrigin' = <<"head">>
    /\ tally' = [tally EXCEPT !.wroteUp = @ + 1]
    /\ phase' = "upload"
    /\ UNCHANGED <<outcome, count, cin, origin, fromOrigin, copied, reply, view, clientVars>>

\* The write fails, or the flush after it.
WriteHeadFails ==
    /\ phase = "request" /\ ~origin.open
    /\ \E n \in {0, 1} : tally' = [tally EXCEPT !.up = @ + n, !.wroteUp = @ + n]
    /\ Replied /\ Return("relay_failed")
    /\ UNCHANGED cin

TooLong == BodyKind(req) = "length" /\ req.lengths[1] > BodyLimit

Uploaded ==
    CASE BodyKind(req) = "none"    -> TRUE
      [] BodyKind(req) = "length"  -> copied.decoded = req.lengths[1]
      [] BodyKind(req) = "chunked" -> copied.last = "end"

\* copy_request_body returns an error: both sides are shut down, and what was
\* copied of the body is not reported.
UploadError(written) ==
    /\ tally' = [tally EXCEPT !.up = @ + 1, !.wroteUp = @ + written]
    /\ Return("client_protocol_error")
    /\ UNCHANGED view

\* One unit read from the client and written upstream.  The size line of a
\* chunk is forwarded before the limit on the decoded body is looked at.
CopyUnit ==
    /\ phase = "upload" /\ ~TooLong /\ ~Uploaded
    /\ cin # <<>> /\ origin.open /\ Len(toOrigin) < PipeCap
    /\ LET u == Head(cin).u
           n == copied.decoded + (IF u = IF BodyKind(req) = "chunked" THEN "size" ELSE "data"
                                  THEN 1 ELSE 0)
       IN  /\ cin' = Tail(cin)
           /\ IF u = "size" /\ n > BodyLimit
              THEN UploadError(1)
              ELSE /\ copied' = [decoded |-> n, wire |-> copied.wire + 1, last |-> u]
                   /\ toOrigin' = Append(toOrigin, u)
                   /\ tally' = [tally EXCEPT !.wroteUp = @ + 1]
                   /\ UNCHANGED <<reply, view, origin, fromOrigin, clientVars, loopVars>>

\* The declared length is above the limit; the client has ended; the upstream
\* takes no more, or the flush after the body fails; or a size, the end of a
\* chunk or the trailers are not accepted.
UploadFails ==
    /\ phase = "upload"
    /\ \/ TooLong /\ UNCHANGED cin
       \/ ~TooLong /\ ~Uploaded /\ cin = <<>> /\ client # "open" /\ UNCHANGED cin
       \/ ~TooLong /\ Uploaded /\ ~origin.open /\ UNCHANGED cin
       \/ /\ ~TooLong /\ ~Uploaded /\ cin # <<>>
          /\ ~origin.open \/ BodyKind(req) = "chunked"
          /\ cin' = Tail(cin)
    /\ UploadError(0)

UploadEnds ==
    /\ phase = "upload" /\ ~TooLong /\ Uploaded
    /\ tally' = [tally EXCEPT !.up = @ + 1 + copied.wire]
    /\ phase' = "response"
    /\ UNCHANGED <<outcome, count, cin, copied, reply, view, clientVars, wires>>

-----------------------------------------------------------------------------
(* forward_response.                                                       *)

\* One unit written to the client; v is what the client makes of it.
Deliver(v) ==
    /\ client # "gone"
    /\ view' = v
    /\ tally' = [tally EXCEPT !.wroteDown = @ + 1]
    /\ fromOrigin' = Tail(fromOrigin)
    /\ UNCHANGED <<outcome, count, cin, copied, origin, toOrigin, clientVars>>

\* An error: the client is shut down and the forwarded bytes are not reported.
ResponseError == Return("relay_failed") /\ UNCHANGED <<cin, tally, view>>

Arrived(u) == fromOrigin # <<>> /\ Head(fromOrigin) = u

OriginEof == fromOrigin = <<>> /\ ~origin.open

Informational ==
    /\ phase = "response" /\ Arrived("info") /\ reply.infos < MaxInfo
    /\ Deliver(ReadsInfo(view))
    /\ reply' = [reply EXCEPT !.infos = @ + 1, !.forwarded = @ + 1]
    /\ UNCHANGED phase

FinalHead ==
    /\ phase = "response" /\ Arrived("final")
    /\ Deliver(ReadsHead(view, ClientFraming(resp), resp.length, resp.coding = "coded"))
    /\ reply' = [reply EXCEPT !.left = resp.length, !.forwarded = @ + 1, !.last = "final"]
    /\ phase' = "body"

UpgradeUnsupported ==
    /\ phase = "response" /\ Arrived("upgrade")
    /\ Replied /\ Return("relay_failed")
    /\ UNCHANGED <<cin, tally>>

Relayed ==
    CASE RelayFraming(resp) = "length"  -> reply.left = 0
      [] RelayFraming(resp) = "chunked" -> reply.last = "end"
      [] RelayFraming(resp) = "eof"     -> OriginEof

RelayUnit ==
    /\ phase = "body" /\ ~Relayed /\ fromOrigin # <<>>
    /\ Deliver(ReadsUnit(view, Head(fromOrigin)))
    /\ reply' = [reply EXCEPT !.left = @ - 1, !.forwarded = @ + 1, !.last = Head(fromOrigin)]
    /\ UNCHANGED phase

\* EOF in the data of a chunk is a result that closes the connection.
CutInChunk == RelayFraming(resp) = "chunked" /\ reply.last = "size"

\* Besides the ends and limits of the response head, a size or the trailers of
\* a chunked body may not be accepted.
ResponseFails ==
    /\ \/ phase = "response" /\ (OriginEof \/ Arrived("bad"))
       \/ phase = "response" /\ Arrived("info") /\ reply.infos = MaxInfo
       \/ phase \in {"response", "body"} /\ client = "gone" /\ fromOrigin # <<>>
       \/ phase = "body" /\ ~Relayed /\ OriginEof /\ ~CutInChunk
       \/ /\ phase = "body" /\ ~Relayed /\ RelayFraming(resp) = "chunked"
          /\ Arrived("size") \/ Arrived("zero") \/ Arrived("end")
    /\ ResponseError

Forwarded == tally' = [tally EXCEPT !.down = @ + reply.forwarded]

CutUncounted ==
    /\ phase = "body" /\ OriginEof /\ CutInChunk
    /\ Return("completed")
    /\ UNCHANGED <<cin, tally, view>>

ResponseCut ==
    /\ phase = "body" /\ OriginEof /\ CutInChunk
    /\ Forwarded /\ Return("completed")
    /\ UNCHANGED <<cin, view>>

\* The upstream stream lives on until the next request is read.
ResponseEnds ==
    /\ phase = "body" /\ Relayed
    /\ Forwarded
    /\ IF req.close \/ resp.close \/ ~UpstreamAlive(resp) \/ count >= MaxRequests
       THEN Return("completed")
       ELSE /\ phase' = "idle"
            /\ copied' = NoCopy /\ reply' = NoReply
            /\ UNCHANGED <<outcome, count, clientVars, wires>>
    /\ UNCHANGED <<cin, view>>

-----------------------------------------------------------------------------
(* Between two requests.                                                   *)

IsRequest(x) == x.u = "head" /\ BodyKind(sent[x.n]) # "refused"

NextRequest ==
    /\ phase = "idle" /\ cin # <<>> /\ IsRequest(Head(cin))
    /\ cin' = Tail(cin)
    /\ count' = count + 1 /\ phase' = "route"
    /\ origin' = NoOrigin /\ toOrigin' = <<>> /\ fromOrigin' = <<>>
    /\ UNCHANGED <<outcome, copied, reply, tally, view, clientVars>>

\* A malformed request, the client's end, or handshake_timeout.
IdleEnds ==
    /\ phase = "idle" /\ (cin # <<>> => ~IsRequest(Head(cin)))
    /\ Return("completed")
    /\ UNCHANGED <<cin, tally, view>>

-----------------------------------------------------------------------------
Loop ==
    \/ ExpectationFailed \/ OpenRoute \/ OpenFails \/ WriteHead \/ WriteHeadFails
    \/ CopyUnit \/ UploadFails \/ UploadEnds
    \/ Informational \/ FinalHead \/ UpgradeUnsupported \/ RelayUnit
    \/ ResponseFails \/ ResponseCut \/ ResponseEnds
    \/ NextRequest \/ IdleEnds

Next ==
    \/ ClientBegin \/ ClientSend \/ ClientCloses
    \/ OriginReads \/ OriginWrites \/ OriginFinishes \/ OriginDies
    \/ Loop

\* The task of the connection is polled; the origin goes on while it can; the
\* client finishes a request it has begun.  Nobody has to begin another one.
Spec ==
    /\ Init /\ [][Next]_vars
    /\ WF_vars(Loop) /\ WF_vars(ClientSend)
    /\ WF_vars(OriginReads) /\ WF_vars(OriginWrites) /\ WF_vars(OriginFinishes)

-----------------------------------------------------------------------------
(* Properties.                                                             *)

\* Client and proxy stay in step, whatever framing the responses use and
\* however they are cut: nothing is written inside or after an unfinished
\* response, the loop waits for another request only when each request so far
\* has had exactly one whole final response, and what it then reads as a head
\* is the head of the client's next request, never a left-over of a body.  The
\* one exception is a response whose Transfer-Encoding names chunked together
\* with something else, whose header forward_response drops.
InStep ==
    ~view.coded =>
       /\ ~view.bad
       /\ phase = "idle" =>
            /\ view.mode = "between" /\ view.begun = count
            /\ cin # <<>> => Head(cin) = [u |-> "head", n |-> count + 1]

\* The SessionReport of a completed session counts every unit written in both
\* directions over all its requests, and so do the totals whenever the loop turns
\* to another request.  That of a failed one never counts more than was written:
\* it leaves out the body or the response that was cut short and, the exception
\* in which the earlier requests are lost as well, counts nothing if the route of
\* the last one was refused or could not be opened.
BytesExact ==
    /\ tally.up <= tally.wroteUp /\ tally.down <= tally.wroteDown
    /\ phase \in {"route", "request", "idle"} \/ outcome = "completed" =>
          tally.up = tally.wroteUp /\ tally.down = tally.wroteDown

\* The proxy uploads while an origin that writes before it reads on waits for
\* it to read: both directions of the upstream stream are full.
Stalled ==
    /\ phase = "upload" /\ origin.mode \in {"busy", "echo"}
    /\ Len(toOrigin) = PipeCap /\ Len(fromOrigin) = PipeCap

\* Every session ends, although only the wait between two requests is timed:
\* provided client and origin carry on with what they have begun, the one way
\* for it not to is the stall of an origin that writes before it reads on.  A
\* client that is there is assumed to read what it is sent.
ForwardEnds == <>(phase = "ended" \/ Stalled)
=============================================================================
