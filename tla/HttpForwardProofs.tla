------------------------- MODULE HttpForwardProofs --------------------------
(***************************************************************************)
(* Proofs about HttpForward, for any requests and responses and any number *)
(* of either on one connection.                                            *)
(*                                                                         *)
(* BytesExact.  The report is only updated when an upload or a response is *)
(* over, so in between it is behind what was written.  The invariant       *)
(* (Accounts) says by how much in each phase: by the head and the units of *)
(* the upload in progress, then by the units of the response.              *)
(*                                                                         *)
(* InStep is about two streams that their readers have to divide as their  *)
(* writers did.  Streams says that what the client has sent and the proxy  *)
(* has not read goes on, without a gap, just where the proxy stopped in    *)
(* the request it works on (Chain, Starts, InSequence), and that an upload *)
(* has read its body to a known point and never past its end (Copying).    *)
(* Parsed says that the client reads the response as the proxy forwards    *)
(* it: between two responses whenever the proxy is, and in a body of the   *)
(* same framing with the same length left while it copies one (Agrees,     *)
(* InBody).                                                                *)
(***************************************************************************)
EXTENDS HttpForward, SequenceTheorems, TLAPS
-----------------------------------------------------------------------------
Phases == {"route", "request", "upload", "response", "body", "idle", "ended"}

Tallies == [up : Nat, down : Nat, wroteUp : Nat, wroteDown : Nat]

IsReply(r) ==
    /\ r = [infos |-> r.infos, left |-> r.left, forwarded |-> r.forwarded, last |-> r.last]
    /\ r.forwarded \in Nat

IsCopy(c) ==
    /\ c = [decoded |-> c.decoded, wire |-> c.wire, last |-> c.last]
    /\ c.wire \in Nat

(* What was written and is not reported yet, in each place of the loop.    *)
Reported(ph, how, t, c, r) ==
    /\ ph \in Phases /\ t \in Tallies /\ IsCopy(c) /\ IsReply(r)
    /\ ph # "ended" => how = "none"
    /\ ph \in {"route", "request", "idle"} =>
          c = NoCopy /\ r = NoReply /\ t.up = t.wroteUp /\ t.down = t.wroteDown
    /\ ph = "upload" =>
          r = NoReply /\ t.wroteUp = t.up + 1 + c.wire /\ t.down = t.wroteDown
    /\ ph \in {"response", "body"} =>
          t.up = t.wroteUp /\ t.wroteDown = t.down + r.forwarded
    /\ ph = "ended" =>
          /\ t.up <= t.wroteUp /\ t.down <= t.wroteDown
          /\ how = "completed" => t.up = t.wroteUp /\ t.down = t.wroteDown

Accounts == Reported(phase, outcome, tally, copied, reply)

(* The accounts at the start of a request and after a session. *)
LEMMA Blank == IsCopy(NoCopy) /\ IsReply(NoReply) /\ NoCopy.wire = 0 /\ NoReply.forwarded = 0
<1>1. 0 \in Nat
  OBVIOUS
<1> QED BY <1>1, Zenon DEF IsCopy, IsReply, NoCopy, NoReply

(* No request has been read, and nothing is counted. *)
LEMMA AccountsInit == Init => Accounts
<1> SUFFICES ASSUME Init PROVE Accounts
  OBVIOUS
<1>1. 0 \in Nat /\ "route" \in Phases /\ "route" # "ended" /\ "route" # "upload"
      /\ "route" \notin {"response", "body"}
  BY DEF Phases
<1>2. tally \in Tallies /\ tally.up = tally.wroteUp /\ tally.down = tally.wroteDown
  BY <1>1, Zenon DEF Init, Tallies
<1> QED BY <1>1, <1>2, Blank, Zenon DEF Init, Accounts, Reported

(* The session returns: what it reports is no more than what it wrote, and *)
(* all of it when it completed.                                            *)
LEMMA AccountsReturn ==
    ASSUME NEW how, Return(how), tally' \in Tallies,
           tally'.up <= tally'.wroteUp, tally'.down <= tally'.wroteDown,
           how = "completed" => tally'.up = tally'.wroteUp /\ tally'.down = tally'.wroteDown
    PROVE  Accounts'
<1>1. "ended" \in Phases /\ "ended" \notin {"route", "request", "idle"} /\ "ended" # "upload"
      /\ "ended" \notin {"response", "body"}
  BY DEF Phases
<1> QED BY <1>1, Blank, Zenon DEF Return, Accounts, Reported

(* It returns from a place where everything is reported. *)
LEMMA AccountsReturnEven ==
    ASSUME NEW how, Return(how), tally' \in Tallies,
           tally'.up = tally'.wroteUp, tally'.down = tally'.wroteDown
    PROVE  Accounts'
<1>1. tally'.up \in Nat /\ tally'.down \in Nat
  BY Zenon DEF Tallies
<1>2. tally'.up <= tally'.wroteUp /\ tally'.down <= tally'.wroteDown
  BY <1>1
<1> QED BY <1>2, AccountsReturn, Zenon

(* The tallies as numbers. *)
LEMMA TalliesNat ==
    ASSUME NEW t \in Tallies
    PROVE  t.up \in Nat /\ t.down \in Nat /\ t.wroteUp \in Nat /\ t.wroteDown \in Nat
  BY Zenon DEF Tallies

(* The steps of the client and of the origin are not the proxy's. *)
LEMMA AccountsPeers ==
    ASSUME Accounts,
           \/ ClientBegin \/ ClientSend \/ ClientCloses
           \/ OriginReads \/ OriginWrites \/ OriginFinishes \/ OriginDies
    PROVE  Accounts'
<1>1. UNCHANGED <<phase, outcome, tally, copied, reply>>
  BY Zenon DEF ClientBegin, ClientSend, ClientCloses, OriginReads, OriginWrites, OriginFinishes,
     OriginDies, OriginShut, loopVars
<1> QED BY <1>1, Zenon DEF Accounts

(* Before anything of a request is written, and between two requests. *)
LEMMA AccountsStart ==
    ASSUME Accounts,
           \/ ExpectationFailed \/ OpenRoute \/ OpenFails \/ WriteHead \/ WriteHeadFails
           \/ NextRequest \/ IdleEnds
    PROVE  Accounts'
<1>0. /\ phase \in {"route", "request", "idle"} /\ tally \in Tallies
      /\ copied = NoCopy /\ reply = NoReply
      /\ tally.up = tally.wroteUp /\ tally.down = tally.wroteDown /\ outcome = "none"
  <2>1. phase \in {"route", "request", "idle"}
    BY Zenon DEF ExpectationFailed, OpenRoute, OpenFails, WriteHead, WriteHeadFails, NextRequest,
       IdleEnds
  <2>2. phase # "ended"
    BY <2>1
  <2> QED BY <2>1, <2>2, Zenon DEF Accounts, Reported
<1>n. tally.up \in Nat /\ tally.down \in Nat /\ tally.wroteUp \in Nat /\ tally.wroteDown \in Nat
  BY <1>0, TalliesNat, Zenon
<1>1. CASE ExpectationFailed \/ IdleEnds
  BY <1>0, <1>1, AccountsReturnEven, Zenon DEF ExpectationFailed, IdleEnds
<1>5. CASE OpenFails
  <2>1. PICK how \in {"rejected", "open_failed"} : Return(how)
    BY <1>5, Zenon DEF OpenFails
  <2>2. how # "completed" /\ 0 \in Nat /\ 0 <= tally.wroteUp /\ 0 <= tally.wroteDown
    BY <1>n, <2>1
  <2>3. /\ tally' \in Tallies /\ tally'.wroteUp = tally.wroteUp /\ tally'.up = 0
        /\ tally'.down = 0 /\ tally'.wroteDown = tally.wroteDown
    BY <1>0, <1>5, <2>2, Zenon DEF OpenFails, Tallies
  <2> QED BY <2>1, <2>2, <2>3, AccountsReturn, Zenon
<1>2. CASE OpenRoute \/ NextRequest
  <2>1. phase' \in {"route", "request", "idle"} /\ UNCHANGED <<outcome, tally, copied, reply>>
    BY <1>2, Zenon DEF OpenRoute, NextRequest
  <2>2. phase' \in Phases /\ phase' # "upload" /\ phase' # "ended" /\ phase' \notin {"response", "body"}
    BY <2>1 DEF Phases
  <2> QED BY <1>0, <2>1, <2>2, Blank, Zenon DEF Accounts, Reported
<1>3. CASE WriteHead
  <2>1. /\ phase' = "upload" /\ tally' = [tally EXCEPT !.wroteUp = @ + 1]
        /\ UNCHANGED <<outcome, copied, reply>>
    BY <1>3, Zenon DEF WriteHead
  <2>2. tally.wroteUp + 1 \in Nat
    BY <1>n
  <2>3. /\ tally' \in Tallies /\ tally'.wroteUp = tally.wroteUp + 1 /\ tally'.up = tally.up
        /\ tally'.down = tally.down /\ tally'.wroteDown = tally.wroteDown
    BY <1>0, <2>1, <2>2, Zenon DEF Tallies
  <2>4. tally'.wroteUp = tally'.up + 1 + 0
    BY <1>0, <1>n, <2>3
  <2>5. "upload" \in Phases /\ "upload" # "ended" /\ "upload" \notin {"route", "request", "idle"}
        /\ "upload" \notin {"response", "body"}
    BY DEF Phases
  <2> QED BY <1>0, <2>1, <2>3, <2>4, <2>5, Blank, Zenon DEF Accounts, Reported
<1>4. CASE WriteHeadFails
  <2>1. PICK n \in {0, 1} : tally' = [tally EXCEPT !.up = @ + n, !.wroteUp = @ + n]
    BY <1>4, Zenon DEF WriteHeadFails
  <2>2. tally.up + n \in Nat /\ tally.wroteUp + n \in Nat
    BY <1>n
  <2>3. /\ tally' \in Tallies /\ tally'.wroteUp = tally.wroteUp + n /\ tally'.up = tally.up + n
        /\ tally'.down = tally.down /\ tally'.wroteDown = tally.wroteDown
    BY <1>0, <2>1, <2>2, Zenon DEF Tallies
  <2> QED BY <1>0, <1>4, <2>3, AccountsReturnEven, Zenon DEF WriteHeadFails
<1> QED BY <1>1, <1>2, <1>3, <1>4, <1>5, Zenon

(* The upload.  What is copied of the body is reported when all of it is;  *)
(* an error leaves it out of the report.                                   *)
LEMMA AccountsUpload ==
    ASSUME Accounts, CopyUnit \/ UploadFails \/ UploadEnds
    PROVE  Accounts'
<1>0. /\ phase = "upload" /\ tally \in Tallies /\ IsCopy(copied) /\ reply = NoReply
      /\ tally.wroteUp = tally.up + 1 + copied.wire /\ tally.down = tally.wroteDown
      /\ outcome = "none"
  <2>1. phase = "upload" /\ "upload" # "ended"
    BY Zenon DEF CopyUnit, UploadFails, UploadEnds
  <2> QED BY <2>1, Zenon DEF Accounts, Reported
<1>n. /\ tally.up \in Nat /\ tally.down \in Nat /\ tally.wroteUp \in Nat /\ tally.wroteDown \in Nat
      /\ copied.wire \in Nat
  BY <1>0, TalliesNat, Zenon DEF IsCopy
<1>1. ASSUME NEW n \in {0, 1}, UploadError(n) PROVE Accounts'
  <2>1. tally.up + 1 \in Nat /\ tally.wroteUp + n \in Nat
    BY <1>n
  <2>2. /\ Return("client_protocol_error")
        /\ tally' \in Tallies /\ tally'.wroteUp = tally.wroteUp + n /\ tally'.up = tally.up + 1
        /\ tally'.down = tally.down /\ tally'.wroteDown = tally.wroteDown
    BY <1>0, <1>1, <2>1, Zenon DEF UploadError, Tallies
  <2>3. tally'.up <= tally'.wroteUp /\ tally'.down <= tally'.wroteDown
    BY <1>0, <1>n, <2>2
  <2>4. "client_protocol_error" # "completed"
    OBVIOUS
  <2> QED BY <2>2, <2>3, <2>4, AccountsReturn, Zenon
<1>2. CASE UploadFails
  <2>1. 0 \in {0, 1}
    OBVIOUS
  <2> QED BY <1>1, <1>2, <2>1, Zenon DEF UploadFails
<1>3. CASE CopyUnit
  <2>1. \/ UploadError(1)
        \/ /\ \E n, u : copied' = [decoded |-> n, wire |-> copied.wire + 1, last |-> u]
           /\ tally' = [tally EXCEPT !.wroteUp = @ + 1]
           /\ UNCHANGED <<reply, phase, outcome>>
    BY <1>3, Zenon DEF CopyUnit, loopVars
  <2>2. CASE UploadError(1)
    <3>1. 1 \in {0, 1}
      OBVIOUS
    <3> QED BY <1>1, <2>2, <3>1, Zenon
  <2>3. ASSUME NEW n, NEW u, copied' = [decoded |-> n, wire |-> copied.wire + 1, last |-> u],
               tally' = [tally EXCEPT !.wroteUp = @ + 1], UNCHANGED <<reply, phase, outcome>>
        PROVE  Accounts'
    <3>1. tally.wroteUp + 1 \in Nat /\ copied.wire + 1 \in Nat
      BY <1>n
    <3>2. IsCopy(copied') /\ copied'.wire = copied.wire + 1
      BY <2>3, <3>1, Zenon DEF IsCopy
    <3>3. /\ tally' \in Tallies /\ tally'.wroteUp = tally.wroteUp + 1 /\ tally'.up = tally.up
          /\ tally'.down = tally.down /\ tally'.wroteDown = tally.wroteDown
      BY <1>0, <2>3, <3>1, Zenon DEF Tallies
    <3>4. tally'.wroteUp = tally'.up + 1 + copied'.wire
      BY <1>0, <1>n, <3>2, <3>3
    <3>5. "upload" \in Phases /\ "upload" # "ended" /\ "upload" \notin {"route", "request", "idle"}
          /\ "upload" \notin {"response", "body"}
      BY DEF Phases
    <3> QED BY <1>0, <2>3, <3>2, <3>3, <3>4, <3>5, Blank, Zenon DEF Accounts, Reported
  <2> QED BY <2>1, <2>2, <2>3, Zenon
<1>4. CASE UploadEnds
  <2>1. /\ tally' = [tally EXCEPT !.up = @ + 1 + copied.wire] /\ phase' = "response"
        /\ UNCHANGED <<outcome, copied, reply>>
    BY <1>4, Zenon DEF UploadEnds
  <2>2. tally.up + 1 + copied.wire \in Nat
    BY <1>n
  <2>3. /\ tally' \in Tallies /\ tally'.wroteUp = tally.wroteUp
        /\ tally'.up = tally.up + 1 + copied.wire
        /\ tally'.down = tally.down /\ tally'.wroteDown = tally.wroteDown
    BY <1>0, <2>1, <2>2, Zenon DEF Tallies
  <2>4. tally'.wroteUp = tally'.up /\ tally'.wroteDown = tally'.down + 0
    BY <1>0, <1>n, <2>3
  <2>5. "response" \in Phases /\ "response" # "ended"
        /\ "response" \notin {"route", "request", "idle"} /\ "response" # "upload"
    BY DEF Phases
  <2> QED BY <1>0, <2>1, <2>3, <2>4, <2>5, Blank, Zenon DEF Accounts, Reported
<1> QED BY <1>2, <1>3, <1>4, Zenon

(* forward_response.  What is forwarded is reported when the response has  *)
(* been relayed, or was cut inside a chunk.                                *)
LEMMA AccountsResponse ==
    ASSUME Accounts,
           \/ Informational \/ FinalHead \/ UpgradeUnsupported \/ RelayUnit
           \/ ResponseFails \/ ResponseCut \/ ResponseEnds
    PROVE  Accounts'
<1>0. /\ phase \in {"response", "body"} /\ tally \in Tallies /\ IsCopy(copied) /\ IsReply(reply)
      /\ tally.up = tally.wroteUp /\ tally.wroteDown = tally.down + reply.forwarded
      /\ outcome = "none"
  <2>1. phase \in {"response", "body"}
    BY Zenon DEF Informational, FinalHead, UpgradeUnsupported, RelayUnit, ResponseFails,
       ResponseCut, ResponseEnds
  <2>2. phase # "ended"
    BY <2>1
  <2> QED BY <2>1, <2>2, Zenon DEF Accounts, Reported
<1>n. /\ tally.up \in Nat /\ tally.down \in Nat /\ tally.wroteUp \in Nat /\ tally.wroteDown \in Nat
      /\ reply.forwarded \in Nat
  BY <1>0, TalliesNat, Zenon DEF IsReply
<1>1. CASE UpgradeUnsupported \/ ResponseFails
  <2>1. Return("relay_failed") /\ tally' = tally
    BY <1>1, Zenon DEF UpgradeUnsupported, ResponseFails, ResponseError
  <2>2. tally.up <= tally.wroteUp /\ tally.down <= tally.wroteDown /\ "relay_failed" # "completed"
    BY <1>0, <1>n
  <2> QED BY <1>0, <2>1, <2>2, AccountsReturn, Zenon
<1>2. CASE ResponseCut \/ ResponseEnds
  <2>1. tally.down + reply.forwarded \in Nat
    BY <1>n
  <2>2. /\ tally' \in Tallies /\ tally'.wroteUp = tally.wroteUp /\ tally'.up = tally.up
        /\ tally'.down = tally.down + reply.forwarded /\ tally'.wroteDown = tally.wroteDown
    BY <1>0, <1>2, <2>1, Zenon DEF ResponseCut, ResponseEnds, Forwarded, Tallies
  <2>3. tally'.up = tally'.wroteUp /\ tally'.down = tally'.wroteDown
    BY <1>0, <2>2, Zenon
  <2>4. \/ Return("completed")
        \/ phase' = "idle" /\ copied' = NoCopy /\ reply' = NoReply /\ outcome' = outcome
    BY <1>2, Zenon DEF ResponseCut, ResponseEnds
  <2>5. "idle" \in Phases /\ "idle" # "ended" /\ "idle" # "upload"
        /\ "idle" \notin {"response", "body"}
    BY DEF Phases
  <2> QED BY <1>0, <2>2, <2>3, <2>4, <2>5, AccountsReturnEven, Blank, Zenon
          DEF Accounts, Reported
<1>3. CASE Informational \/ FinalHead \/ RelayUnit
  <2>1. /\ phase' \in {"response", "body"} /\ UNCHANGED <<outcome, copied>>
        /\ tally' = [tally EXCEPT !.wroteDown = @ + 1]
    BY <1>0, <1>3, Zenon DEF Informational, FinalHead, RelayUnit, Deliver
  <2>2. tally.wroteDown + 1 \in Nat /\ reply.forwarded + 1 \in Nat
    BY <1>n
  <2>3. /\ tally' \in Tallies /\ tally'.wroteUp = tally.wroteUp /\ tally'.up = tally.up
        /\ tally'.down = tally.down /\ tally'.wroteDown = tally.wroteDown + 1
    BY <1>0, <2>1, <2>2, Zenon DEF Tallies
  <2>4. IsReply(reply') /\ reply'.forwarded = reply.forwarded + 1
    <3>1. CASE Informational
      BY <1>0, <2>2, <3>1, Zenon DEF Informational, IsReply
    <3>2. CASE FinalHead
      BY <1>0, <2>2, <3>2, Zenon DEF FinalHead, IsReply
    <3>3. CASE RelayUnit
      BY <1>0, <2>2, <3>3, Zenon DEF RelayUnit, IsReply
    <3> QED BY <1>3, <3>1, <3>2, <3>3, Zenon
  <2>5. tally'.wroteDown = tally'.down + reply'.forwarded
    BY <1>0, <1>n, <2>3, <2>4
  <2>6. phase' \in Phases /\ phase' # "ended" /\ phase' # "upload"
        /\ phase' \notin {"route", "request", "idle"}
    BY <2>1 DEF Phases
  <2> QED BY <1>0, <2>1, <2>3, <2>4, <2>5, <2>6, Zenon DEF Accounts, Reported
<1> QED BY <1>1, <1>2, <1>3, Zenon

(* The accounts are kept by every step. *)
LEMMA AccountsInductive == Spec => []Accounts
<1>1. Accounts /\ [Next]_vars => Accounts'
  <2> SUFFICES ASSUME Accounts, [Next]_vars PROVE Accounts'
    OBVIOUS
  <2>1. CASE UNCHANGED vars
    <3>1. UNCHANGED <<phase, outcome, tally, copied, reply>>
      BY <2>1, Zenon DEF vars
    <3> QED BY <3>1, Zenon DEF Accounts
  <2> QED BY <2>1, AccountsPeers, AccountsStart, AccountsUpload, AccountsResponse, Zenon
          DEF Next, Loop
<1> QED BY <1>1, AccountsInit, PTL DEF Spec

(* The SessionReport of a completed session counts every unit written in   *)
(* both directions, over any number of requests of any kind, the totals    *)
(* are exact between two requests, and a failed session never reports more *)
(* than was written (nothing, if its last route was not opened): the       *)
(* inductive invariant says for each place of the loop what was written    *)
(* and is not yet reported.                                                *)
THEOREM ForwardBytesExact == Spec => []BytesExact
<1>1. Accounts => BytesExact
  <2> SUFFICES ASSUME Accounts PROVE BytesExact
    OBVIOUS
  <2>1. /\ phase \in Phases /\ tally \in Tallies /\ IsCopy(copied) /\ IsReply(reply)
        /\ outcome = "completed" => phase = "ended"
    <3>1. "none" # "completed"
      OBVIOUS
    <3> QED BY <3>1, Zenon DEF Accounts, Reported
  <2>n. /\ tally.up \in Nat /\ tally.down \in Nat /\ tally.wroteUp \in Nat
        /\ tally.wroteDown \in Nat /\ reply.forwarded \in Nat /\ copied.wire \in Nat
    BY <2>1, TalliesNat, Zenon DEF IsReply, IsCopy
  <2>2. CASE phase = "ended"
    <3>1. phase \notin {"route", "request", "idle"}
      BY <2>2
    <3> QED BY <2>2, <3>1, Zenon DEF Accounts, Reported, BytesExact
  <2>3. CASE phase # "ended"
    <3>1. \/ tally.up = tally.wroteUp /\ tally.down = tally.wroteDown
          \/ tally.wroteUp = tally.up + 1 + copied.wire /\ tally.down = tally.wroteDown
          \/ tally.up = tally.wroteUp /\ tally.wroteDown = tally.down + reply.forwarded
      <4>1. \/ phase \in {"route", "request", "idle"} \/ phase = "upload"
            \/ phase \in {"response", "body"}
        BY <2>1, <2>3 DEF Phases
      <4> QED BY <4>1, Zenon DEF Accounts, Reported
    <3>2. tally.up <= tally.wroteUp /\ tally.down <= tally.wroteDown
      BY <2>n, <3>1
    <3>3. phase \in {"route", "request", "idle"} =>
             tally.up = tally.wroteUp /\ tally.down = tally.wroteDown
      BY Zenon DEF Accounts, Reported
    <3> QED BY <2>1, <2>3, <3>2, <3>3, Zenon DEF BytesExact
  <2> QED BY <2>2, <2>3, Zenon
<1> QED BY <1>1, AccountsInductive, PTL
-----------------------------------------------------------------------------
UnitKinds == {"head", "data", "size", "zero", "end"}

(* The units of a request: a head, and in a chunked body one last unit     *)
(* that no other unit looks like; otherwise as many data units as the      *)
(* length says.                                                            *)
LEMMA ChunkUnits ==
    ASSUME NEW n \in Nat
    PROVE  /\ Chunks(n) \in Seq(UnitKinds) /\ Len(Chunks(n)) = 2 * n + 2
           /\ \A i \in 1..(2 * n + 2) : Chunks(n)[i] = "end" <=> i = 2 * n + 2
<1>0. 2 * n \in Nat
  OBVIOUS
<1>1. PICK m \in Nat : m = 2 * n
  BY <1>0, Zenon
<1> DEFINE f == [i \in 1..m |-> IF i % 2 = 1 THEN "size" ELSE "data"]
<1> DEFINE g == <<"zero", "end">>
<1>2. Chunks(n) = f \o g
  BY <1>1, Zenon DEF Chunks
<1>3. "size" \in UnitKinds \ {"end"} /\ "data" \in UnitKinds \ {"end"}
  BY DEF UnitKinds
<1>4. f \in [1..m -> UnitKinds \ {"end"}]
  BY <1>3, Zenon
<1>5. g \in Seq(UnitKinds) /\ Len(g) = 2 /\ g[1] # "end" /\ g[2] = "end"
  BY DEF UnitKinds
<1> HIDE DEF f, g
<1>6. f \in Seq(UnitKinds) /\ Len(f) = m /\ \A i \in 1..m : f[i] # "end"
  BY <1>4
<1>7. /\ f \o g \in Seq(UnitKinds) /\ Len(f \o g) = m + 2
      /\ \A i \in 1..m : (f \o g)[i] = f[i]
      /\ (f \o g)[m + 1] = g[1] /\ (f \o g)[m + 2] = g[2]
  <2>1. /\ f \o g \in Seq(UnitKinds) /\ Len(f \o g) = Len(f) + Len(g)
        /\ \A i \in 1..(Len(f) + Len(g)) :
              (f \o g)[i] = IF i <= Len(f) THEN f[i] ELSE g[i - Len(f)]
    BY <1>5, <1>6, ConcatProperties, Zenon
  <2> DEFINE h == f \o g
  <2> HIDE DEF h
  <2>2. \A i \in 1..(m + 2) : h[i] = IF i <= m THEN f[i] ELSE g[i - m]
    BY <1>5, <1>6, <2>1 DEF h
  <2>3. h[m + 1] = g[1] /\ h[m + 2] = g[2] /\ \A i \in 1..m : h[i] = f[i]
    BY <2>2
  <2>4. Len(h) = m + 2
    BY <1>5, <1>6, <2>1 DEF h
  <2> QED BY <2>1, <2>3, <2>4, Zenon DEF h
<1>8. \A i \in 1..(m + 2) : \/ i \in 1..m /\ i # m + 2
                            \/ i = m + 1 /\ i # m + 2
                            \/ i = m + 2
  OBVIOUS
<1>9. \A i \in 1..(m + 2) : (f \o g)[i] = "end" <=> i = m + 2
  BY <1>5, <1>6, <1>7, <1>8, Zenon
<1> QED BY <1>1, <1>2, <1>7, <1>9, Zenon

(* A request is sent as its head and then its body; a chunked body ends    *)
(* with its last unit and not before.                                      *)
LEMMA UnitsOf ==
    ASSUME NEW r \in Requests
    PROVE  /\ RequestUnits(r) \in Seq(UnitKinds) /\ Len(RequestUnits(r)) \in Nat
           /\ Len(RequestUnits(r)) >= 1 /\ RequestUnits(r)[1] = "head"
           /\ BodyKind(r) = "chunked" =>
                 \A i \in 1..Len(RequestUnits(r)) :
                    RequestUnits(r)[i] = "end" <=> i = Len(RequestUnits(r))
           /\ BodyKind(r) # "chunked" =>
                 /\ Len(RequestUnits(r)) = r.body + 1
                 /\ \A i \in 2..Len(RequestUnits(r)) : RequestUnits(r)[i] = "data"
<1>0. r.body \in Nat
  BY RequestAssumption, Zenon
<1>1. ASSUME NEW b \in Seq(UnitKinds), NEW q, q = <<"head">> \o b
      PROVE  /\ q \in Seq(UnitKinds) /\ Len(q) = Len(b) + 1 /\ q[1] = "head" /\ Len(b) \in Nat
             /\ \A i \in 2..Len(q) : q[i] = b[i - 1] /\ i - 1 \in 1..Len(b)
  BY <1>1 DEF UnitKinds
<1>2. CASE BodyKind(r) = "chunked"
  <2>1. RequestUnits(r) = <<"head">> \o Chunks(r.body)
    BY <1>2, Zenon DEF RequestUnits
  <2> DEFINE q == RequestUnits(r)
  <2> DEFINE b == Chunks(r.body)
  <2>0. 2 * r.body \in Nat
    BY <1>0
  <2>a. PICK m \in Nat : m = 2 * r.body
    BY <2>0, Zenon
  <2>2. /\ b \in Seq(UnitKinds) /\ Len(b) = m + 2
        /\ \A i \in 1..(m + 2) : b[i] = "end" <=> i = m + 2
    BY <1>0, <2>a, ChunkUnits, Zenon
  <2>3. q = <<"head">> \o b
    BY <2>1, Zenon
  <2> HIDE DEF q, b
  <2>4. /\ q \in Seq(UnitKinds) /\ Len(q) = Len(b) + 1 /\ q[1] = "head" /\ Len(b) \in Nat
        /\ \A i \in 2..Len(q) : q[i] = b[i - 1] /\ i - 1 \in 1..Len(b)
    BY <1>1, <2>2, <2>3, Zenon
  <2>5. Len(q) \in Nat /\ Len(q) >= 1
    BY <2>4
  <2>6. ASSUME NEW i \in 1..Len(q) PROVE q[i] = "end" <=> i = Len(q)
    <3>1. CASE i = 1
      <4>1. q[i] # "end" /\ i # Len(q)
        BY <2>2, <2>4, <3>1
      <4> QED BY <4>1
    <3>2. CASE i # 1
      <4>1. i \in 2..Len(q)
        BY <2>4, <3>2
      <4>2. q[i] = b[i - 1] /\ i - 1 \in 1..Len(b)
        BY <2>4, <4>1, Zenon
      <4>3. i - 1 = m + 2 <=> i = Len(q)
        BY <2>2, <2>4, <4>1
      <4>4. b[i - 1] = "end" <=> i - 1 = m + 2
        BY <2>2, <4>2, Zenon
      <4> QED BY <4>2, <4>3, <4>4, Zenon
    <3> QED BY <3>1, <3>2
  <2> QED BY <1>2, <2>4, <2>5, <2>6, Zenon DEF q
<1>3. CASE BodyKind(r) # "chunked"
  <2> DEFINE q == RequestUnits(r)
  <2> DEFINE b == Repeat(r.body, "data")
  <2>1. q = <<"head">> \o b
    BY <1>3, Zenon DEF RequestUnits
  <2>2. /\ b \in Seq(UnitKinds) /\ Len(b) = r.body /\ \A i \in 1..Len(b) : b[i] = "data"
    <3>1. b \in [1..r.body -> UnitKinds] /\ \A i \in 1..r.body : b[i] = "data"
      BY DEF Repeat, UnitKinds
    <3> HIDE DEF b
    <3> QED BY <1>0, <3>1
  <2> HIDE DEF q, b
  <2>3. /\ q \in Seq(UnitKinds) /\ Len(q) = Len(b) + 1 /\ q[1] = "head" /\ Len(b) \in Nat
        /\ \A i \in 2..Len(q) : q[i] = b[i - 1] /\ i - 1 \in 1..Len(b)
    BY <1>1, <2>1, <2>2, Zenon
  <2>4. Len(q) \in Nat /\ Len(q) >= 1
    BY <2>3
  <2>5. \A i \in 2..Len(q) : q[i] = "data"
    BY <2>2, <2>3, Zenon
  <2> QED BY <1>3, <2>2, <2>3, <2>4, <2>5, Zenon DEF q
<1> QED BY <1>2, <1>3, Zenon
-----------------------------------------------------------------------------
(* The client's stream.  s is the sequence of requests begun, z what is    *)
(* still to be sent of the last one, q what is under way.                  *)
Arrivals == [u : UnitKinds, n : Nat]

(* Unit i of request m comes after unit k of request n. *)
IsAfter(s, n, k, m, i) ==
    \/ k < Len(RequestUnits(s[n])) /\ m = n /\ i = k + 1
    \/ k = Len(RequestUnits(s[n])) /\ m = n + 1 /\ i = 1

(* x is unit i of request n. *)
Carries(s, x, n, i) ==
    /\ n \in 1..Len(s) /\ i \in 1..Len(RequestUnits(s[n]))
    /\ x = [u |-> RequestUnits(s[n])[i], n |-> n]

(* How much of the last request is sent. *)
SentOf(s, z) == Len(RequestUnits(s[Len(s)])) - Len(z)

Remains(s, z) ==
    /\ SentOf(s, z) \in Nat
    /\ \A j \in 1..Len(z) : z[j] = RequestUnits(s[Len(s)])[SentOf(s, z) + j]

(* q and then z follow each other without a gap; num and idx are the       *)
(* requests and places of the units of q and of the next one.              *)
Chain(s, z, q, num, idx) ==
    /\ num \in [1..(Len(q) + 1) -> Nat] /\ idx \in [1..(Len(q) + 1) -> Nat]
    /\ IsAfter(s, Len(s), SentOf(s, z), num[Len(q) + 1], idx[Len(q) + 1])
    /\ \A j \in 1..Len(q) : /\ Carries(s, q[j], num[j], idx[j])
                            /\ IsAfter(s, num[j], idx[j], num[j + 1], idx[j + 1])

Starts(s, z, q, m, i) ==
    \E num, idx : Chain(s, z, q, num, idx) /\ num[1] = m /\ idx[1] = i

(* What is read first, and what then comes next. *)
LEMMA TailStarts ==
    ASSUME NEW s, NEW z, NEW q \in Seq(Arrivals), q # <<>>, NEW m, NEW i, Starts(s, z, q, m, i)
    PROVE  /\ Carries(s, Head(q), m, i)
           /\ \E x, y : IsAfter(s, m, i, x, y) /\ Starts(s, z, Tail(q), x, y)
<1>1. PICK num, idx : Chain(s, z, q, num, idx) /\ num[1] = m /\ idx[1] = i
  BY Zenon DEF Starts
<1>2. PICK L \in Nat : L = Len(Tail(q)) /\ Len(q) = L + 1
  <2>1. Len(Tail(q)) \in Nat /\ Len(q) = Len(Tail(q)) + 1
    OBVIOUS
  <2> QED BY <2>1, Zenon
<1>3. Head(q) = q[1] /\ \A j \in 1..L : Tail(q)[j] = q[j + 1]
  BY <1>2
<1>4. /\ 1 \in 1..(L + 1) /\ 1 + 1 = 2 /\ 2 \in 1..(L + 2) /\ (L + 1) + 1 = L + 2
      /\ \A j \in 1..L : j + 1 \in 1..(L + 1)
      /\ \A j \in 1..(L + 1) : j + 1 \in 1..(L + 2) /\ 1 \in 1..(L + 1) /\ L + 1 \in 1..(L + 1)
      /\ \A j \in 1..L : j \in 1..(L + 1)
  OBVIOUS
<1>5. /\ num \in [1..(L + 2) -> Nat] /\ idx \in [1..(L + 2) -> Nat]
      /\ IsAfter(s, Len(s), SentOf(s, z), num[L + 2], idx[L + 2])
      /\ \A j \in 1..(L + 1) : /\ Carries(s, q[j], num[j], idx[j])
                               /\ IsAfter(s, num[j], idx[j], num[j + 1], idx[j + 1])
  <2>1. Len(q) + 1 = L + 2 /\ Len(q) = L + 1
    BY <1>2
  <2> QED BY <1>1, <2>1, Zenon DEF Chain
<1>6. Carries(s, Head(q), m, i) /\ IsAfter(s, m, i, num[2], idx[2])
  BY <1>1, <1>3, <1>4, <1>5, Zenon
<1> DEFINE num2 == [j \in 1..(L + 1) |-> num[j + 1]]
<1> DEFINE idx2 == [j \in 1..(L + 1) |-> idx[j + 1]]
<1>7. /\ num2 \in [1..(L + 1) -> Nat] /\ idx2 \in [1..(L + 1) -> Nat]
      /\ \A j \in 1..(L + 1) : num2[j] = num[j + 1] /\ idx2[j] = idx[j + 1]
  BY <1>4, <1>5, Zenon
<1> HIDE DEF num2, idx2
<1>8. num2[1] = num[2] /\ idx2[1] = idx[2] /\ num2[L + 1] = num[L + 2] /\ idx2[L + 1] = idx[L + 2]
  BY <1>4, <1>7, Zenon
<1>9. ASSUME NEW j \in 1..L
      PROVE  /\ Carries(s, Tail(q)[j], num2[j], idx2[j])
             /\ IsAfter(s, num2[j], idx2[j], num2[j + 1], idx2[j + 1])
  <2>1. PICK k \in 1..(L + 1) : k = j + 1
    BY <1>4, Zenon
  <2>2. num2[j] = num[k] /\ idx2[j] = idx[k] /\ Tail(q)[j] = q[k]
    BY <1>3, <1>4, <1>7, <2>1, Zenon
  <2>3. num2[k] = num[k + 1] /\ idx2[k] = idx[k + 1]
    BY <1>7, Zenon
  <2> QED BY <1>5, <2>1, <2>2, <2>3, Zenon
<1>10. Chain(s, z, Tail(q), num2, idx2)
  BY <1>2, <1>5, <1>7, <1>8, <1>9, Zenon DEF Chain
<1> QED BY <1>6, <1>8, <1>10, Zenon DEF Starts

(* A unit more is under way, and a unit less is still to be sent. *)
LEMMA SendStarts ==
    ASSUME NEW s, s \in Seq(Requests), s # <<>>, NEW z \in Seq(UnitKinds), z # <<>>, Remains(s, z),
           NEW q \in Seq(Arrivals), NEW m, NEW i, Starts(s, z, q, m, i)
    PROVE  /\ Starts(s, Tail(z), Append(q, [u |-> Head(z), n |-> Len(s)]), m, i)
           /\ Remains(s, Tail(z))
<1>1. PICK num, idx : Chain(s, z, q, num, idx) /\ num[1] = m /\ idx[1] = i
  BY Zenon DEF Starts
<1> DEFINE x == [u |-> Head(z), n |-> Len(s)]
<1> DEFINE q2 == Append(q, x)
<1>2. /\ Len(s) \in 1..Len(s) /\ s[Len(s)] \in Requests /\ Len(s) \in Nat
  OBVIOUS
<1>3. PICK U \in Nat : U = Len(RequestUnits(s[Len(s)]))
  BY <1>2, UnitsOf, Zenon
<1>4. PICK k \in Nat : k = SentOf(s, z)
  BY Zenon DEF Remains
<1>5. /\ Len(z) \in Nat /\ Len(z) > 0 /\ Len(Tail(z)) = Len(z) - 1 /\ Head(z) = z[1]
      /\ \A j \in 1..Len(Tail(z)) : Tail(z)[j] = z[j + 1] /\ j + 1 \in 1..Len(z)
      /\ 1 \in 1..Len(z)
  OBVIOUS
<1>6. U - Len(z) = k
  BY <1>3, <1>4, Zenon DEF SentOf
<1>7. U - Len(Tail(z)) = k + 1 /\ k < U /\ k + 1 \in 1..U
  BY <1>5, <1>6
<1>8. SentOf(s, Tail(z)) = k + 1
  BY <1>3, <1>7, Zenon DEF SentOf
<1>9. \A j \in 1..Len(z) : z[j] = RequestUnits(s[Len(s)])[k + j]
  BY <1>4, Zenon DEF Remains
<1>10. Remains(s, Tail(z))
  <2>1. k + 1 \in Nat /\ \A j \in 1..Len(Tail(z)) : k + (j + 1) = (k + 1) + j
    BY <1>5
  <2>2. \A j \in 1..Len(Tail(z)) : Tail(z)[j] = RequestUnits(s[Len(s)])[k + (j + 1)]
    BY <1>5, <1>9, Zenon
  <2>3. \A j \in 1..Len(Tail(z)) : Tail(z)[j] = RequestUnits(s[Len(s)])[(k + 1) + j]
    BY <2>1, <2>2, Zenon
  <2> QED BY <1>8, <2>1, <2>3, Zenon DEF Remains
<1>11. PICK L \in Nat : L = Len(q) /\ Len(q2) = L + 1
  <2>1. Len(q) \in Nat /\ Len(q2) = Len(q) + 1
    OBVIOUS
  <2> QED BY <2>1, Zenon
<1>12. q2[L + 1] = x /\ \A j \in 1..L : q2[j] = q[j]
  BY <1>11
<1>13. /\ num \in [1..(L + 1) -> Nat] /\ idx \in [1..(L + 1) -> Nat]
       /\ IsAfter(s, Len(s), k, num[L + 1], idx[L + 1])
       /\ \A j \in 1..L : /\ Carries(s, q[j], num[j], idx[j])
                          /\ IsAfter(s, num[j], idx[j], num[j + 1], idx[j + 1])
  BY <1>1, <1>4, <1>11, Zenon DEF Chain
<1>14. num[L + 1] = Len(s) /\ idx[L + 1] = k + 1
  <2>1. k # U
    BY <1>7
  <2> QED BY <1>3, <1>13, <2>1, Zenon DEF IsAfter
<1>15. Carries(s, x, num[L + 1], idx[L + 1])
  <2>1. Head(z) = RequestUnits(s[Len(s)])[k + 1]
    BY <1>5, <1>9, Zenon
  <2> QED BY <1>2, <1>3, <1>7, <1>14, <2>1, Zenon DEF Carries
<1>16. PICK a \in Nat, b \in Nat : IsAfter(s, Len(s), k + 1, a, b)
  <2>1. k + 1 < U \/ k + 1 = U
    BY <1>7
  <2>2. (k + 1) + 1 \in Nat /\ Len(s) + 1 \in Nat /\ 1 \in Nat
    BY <1>2
  <2> QED BY <1>2, <1>3, <2>1, <2>2, Zenon DEF IsAfter
<1> DEFINE num2 == [j \in 1..(L + 2) |-> IF j = L + 2 THEN a ELSE num[j]]
<1> DEFINE idx2 == [j \in 1..(L + 2) |-> IF j = L + 2 THEN b ELSE idx[j]]
<1>17. /\ \A j \in 1..(L + 2) : j # L + 2 => j \in 1..(L + 1)
       /\ \A j \in 1..(L + 1) : j # L + 2 /\ j \in 1..(L + 2)
       /\ \A j \in 1..L : j \in 1..(L + 1) /\ j + 1 \in 1..(L + 1)
       /\ L + 2 \in 1..(L + 2) /\ 1 \in 1..(L + 1) /\ L + 1 \in 1..(L + 1) /\ (L + 1) + 1 = L + 2
       /\ \A j \in 1..(L + 1) : j \in 1..L \/ j = L + 1
  OBVIOUS
<1>18. /\ num2 \in [1..(L + 2) -> Nat] /\ idx2 \in [1..(L + 2) -> Nat]
       /\ num2[L + 2] = a /\ idx2[L + 2] = b
       /\ \A j \in 1..(L + 1) : num2[j] = num[j] /\ idx2[j] = idx[j]
  BY <1>13, <1>17, Zenon
<1> HIDE DEF num2, idx2, x, q2
<1>19. ASSUME NEW j \in 1..(L + 1)
       PROVE  /\ Carries(s, q2[j], num2[j], idx2[j])
              /\ IsAfter(s, num2[j], idx2[j], num2[j + 1], idx2[j + 1])
  <2>1. CASE j \in 1..L
    <3>1. num2[j] = num[j] /\ idx2[j] = idx[j] /\ num2[j + 1] = num[j + 1] /\ idx2[j + 1] = idx[j + 1]
      BY <1>17, <1>18, <2>1, Zenon
    <3>2. q2[j] = q[j]
      BY <1>12, <2>1, Zenon
    <3> QED BY <1>13, <2>1, <3>1, <3>2, Zenon
  <2>2. CASE j = L + 1
    <3>1. /\ num2[j] = num[L + 1] /\ idx2[j] = idx[L + 1] /\ num2[j + 1] = a /\ idx2[j + 1] = b
          /\ q2[j] = x
      BY <1>12, <1>17, <1>18, <2>2, Zenon
    <3>2. IsAfter(s, num[L + 1], idx[L + 1], a, b)
      BY <1>14, <1>16, Zenon
    <3> QED BY <1>15, <3>1, <3>2, Zenon
  <2> QED BY <1>17, <2>1, <2>2, Zenon
<1>20. Chain(s, Tail(z), q2, num2, idx2)
  <2>1. IsAfter(s, Len(s), SentOf(s, Tail(z)), num2[L + 2], idx2[L + 2])
    BY <1>8, <1>16, <1>18, Zenon
  <2>2. Len(q2) = L + 1 /\ Len(q2) + 1 = L + 2
    BY <1>11
  <2> QED BY <1>18, <1>19, <2>1, <2>2, Zenon DEF Chain
<1>21. num2[1] = m /\ idx2[1] = i
  BY <1>1, <1>17, <1>18, Zenon
<1>22. Starts(s, Tail(z), q2, m, i)
  BY <1>20, <1>21, Zenon DEF Starts
<1> QED BY <1>10, <1>22, Zenon DEF q2, x

(* A request that is begun comes after the last one. *)
LEMMA BeginStarts ==
    ASSUME NEW s, s \in Seq(Requests), s # <<>>, NEW r \in Requests,
           NEW q \in Seq(Arrivals), NEW m, NEW i, Starts(s, <<>>, q, m, i)
    PROVE  /\ Starts(Append(s, r), RequestUnits(r), q, m, i)
           /\ Remains(Append(s, r), RequestUnits(r))
<1> DEFINE s2 == Append(s, r)
<1> DEFINE z == RequestUnits(r)
<1>1. /\ Len(s) \in Nat /\ Len(s) \in 1..Len(s) /\ Len(s2) = Len(s) + 1 /\ s2[Len(s2)] = r
      /\ \A n \in 1..Len(s) : s2[n] = s[n] /\ n \in 1..Len(s2) /\ s[n] \in Requests
  OBVIOUS
<1>2. z \in Seq(UnitKinds) /\ Len(z) \in Nat /\ Len(z) >= 1
  BY UnitsOf, Zenon
<1> HIDE DEF s2, z
<1>3. Len(z) - Len(z) = 0 /\ 0 < Len(z) /\ 0 \in Nat /\ 0 + 1 = 1 /\ \A j \in 1..Len(z) : 0 + j = j
  BY <1>2
<1>4. SentOf(s2, z) = 0
  BY <1>1, <1>3, Zenon DEF SentOf, z
<1>5. Remains(s2, z)
  BY <1>1, <1>3, <1>4, Zenon DEF Remains, z
<1>6. PICK num, idx : Chain(s, <<>>, q, num, idx) /\ num[1] = m /\ idx[1] = i
  BY Zenon DEF Starts
<1>7. \A n \in 1..Len(s) : \A k, x, y : IsAfter(s, n, k, x, y) => IsAfter(s2, n, k, x, y)
  BY <1>1, Zenon DEF IsAfter
<1>8. \A n, k, x : Carries(s, x, n, k) => Carries(s2, x, n, k) /\ n \in 1..Len(s)
  BY <1>1, Zenon DEF Carries
<1>9. \A j \in 1..Len(q) : /\ Carries(s2, q[j], num[j], idx[j])
                           /\ IsAfter(s2, num[j], idx[j], num[j + 1], idx[j + 1])
  BY <1>6, <1>7, <1>8, Zenon DEF Chain
<1>10. IsAfter(s2, Len(s2), SentOf(s2, z), num[Len(q) + 1], idx[Len(q) + 1])
  <2>1. IsAfter(s, Len(s), SentOf(s, <<>>), num[Len(q) + 1], idx[Len(q) + 1])
    BY <1>6, Zenon DEF Chain
  <2>2. Len(RequestUnits(s[Len(s)])) \in Nat
    BY <1>1, UnitsOf, Zenon
  <2>3. Len(RequestUnits(s[Len(s)])) - Len(<<>>) = Len(RequestUnits(s[Len(s)]))
    BY <2>2
  <2>4. SentOf(s, <<>>) = Len(RequestUnits(s[Len(s)]))
    BY <2>3, Zenon DEF SentOf
  <2>5. ~(SentOf(s, <<>>) < Len(RequestUnits(s[Len(s)])))
    BY <2>2, <2>4
  <2>6. num[Len(q) + 1] = Len(s2) /\ idx[Len(q) + 1] = 0 + 1
    BY <1>1, <1>3, <2>1, <2>5, Zenon DEF IsAfter
  <2>7. 0 < Len(RequestUnits(s2[Len(s2)]))
    BY <1>1, <1>3, Zenon DEF z
  <2> QED BY <1>4, <2>6, <2>7, Zenon DEF IsAfter
<1>11. Chain(s2, z, q, num, idx)
  BY <1>6, <1>9, <1>10, Zenon DEF Chain
<1> QED BY <1>5, <1>6, <1>11, Zenon DEF Starts, s2, z

(* The first request, whose head the accept side has read. *)
LEMMA FirstStarts ==
    ASSUME NEW r \in Requests
    PROVE  /\ \E m, i : /\ IsAfter(<<r>>, 1, 1, m, i)
                        /\ Starts(<<r>>, Tail(RequestUnits(r)), <<>>, m, i)
           /\ Remains(<<r>>, Tail(RequestUnits(r)))
           /\ Tail(RequestUnits(r)) \in Seq(UnitKinds)
<1> DEFINE s == <<r>>
<1> DEFINE w == RequestUnits(r)
<1>1. Len(s) = 1 /\ s[1] = r /\ 1 \in Nat
  OBVIOUS
<1>2. w \in Seq(UnitKinds) /\ Len(w) \in Nat /\ Len(w) >= 1
  BY UnitsOf, Zenon
<1> HIDE DEF s, w
<1>3. /\ Tail(w) \in Seq(UnitKinds) /\ Len(Tail(w)) = Len(w) - 1
      /\ \A j \in 1..Len(Tail(w)) : Tail(w)[j] = w[1 + j]
  BY <1>2
<1>4. Len(w) - Len(Tail(w)) = 1
  BY <1>2, <1>3
<1>5. SentOf(s, Tail(w)) = 1
  BY <1>1, <1>4, Zenon DEF SentOf, w
<1>6. Remains(s, Tail(w))
  BY <1>1, <1>3, <1>5, Zenon DEF Remains, w
<1>7. PICK m \in Nat, i \in Nat : IsAfter(s, 1, 1, m, i)
  <2>0. \A n \in Nat : n >= 1 => 1 < n \/ 1 = n
    OBVIOUS
  <2>1. 1 < Len(w) \/ 1 = Len(w)
    BY <1>2, <2>0, Zenon
  <2>2. 1 + 1 \in Nat
    OBVIOUS
  <2> QED BY <1>1, <2>1, <2>2, Zenon DEF IsAfter, w
<1> DEFINE num == [j \in 1..1 |-> m]
<1> DEFINE idx == [j \in 1..1 |-> i]
<1>8. Len(<<>>) + 1 = 1 /\ 1 \in 1..1 /\ 1..Len(<<>>) = {}
  OBVIOUS
<1>9. num \in [1..1 -> Nat] /\ idx \in [1..1 -> Nat] /\ num[1] = m /\ idx[1] = i
  BY <1>8, Zenon
<1> HIDE DEF num, idx
<1>10. Chain(s, Tail(w), <<>>, num, idx)
  BY <1>1, <1>5, <1>7, <1>8, <1>9, Zenon DEF Chain
<1> QED BY <1>3, <1>6, <1>7, <1>9, <1>10, Zenon DEF Starts, s, w
-----------------------------------------------------------------------------
(* How much of its request the proxy has read: the head and what it copied *)
(* until the upload ends, then all of it.                                  *)
ReadOf(ph, c, r) ==
    IF ph \in {"route", "request", "upload"} THEN c.wire + 1 ELSE Len(RequestUnits(r))

(* What was copied of a body. *)
Copying(c, r) ==
    /\ c.wire + 1 <= Len(RequestUnits(r))
    /\ c.wire = 0 => c.decoded = 0 /\ c.last = "none"
    /\ c.wire > 0 => c.last = RequestUnits(r)[c.wire + 1]
    /\ BodyKind(r) = "length" => c.decoded = c.wire

InSequence(s, z, q, n, k) == \E m, i : IsAfter(s, n, k, m, i) /\ Starts(s, z, q, m, i)

ClientSide ==
    /\ sent \in Seq(Requests) /\ sent # <<>> /\ rest \in Seq(UnitKinds) /\ Remains(sent, rest)
    /\ cin \in Seq(Arrivals) /\ count \in 1..Len(sent)

ProxySide ==
    /\ BodyKind(sent[count]) # "refused"
    /\ Copying(copied, sent[count]) \/ phase \notin {"route", "request", "upload"}
    /\ InSequence(sent, rest, cin, count, ReadOf(phase, copied, sent[count]))

(* The inductive invariant: the proxy reads on in the client's stream just *)
(* where it stopped.                                                       *)
Streams == ClientSide /\ (phase # "ended" => ProxySide)

(* Of a new request nothing is copied. *)
LEMMA BlankCopying ==
    ASSUME NEW r \in Requests
    PROVE  Copying(NoCopy, r) /\ \A ph \in {"route", "request", "upload"} : ReadOf(ph, NoCopy, r) = 1
<1>1. NoCopy.wire = 0 /\ NoCopy.decoded = 0 /\ NoCopy.last = "none"
  BY Zenon DEF NoCopy
<1>2. Len(RequestUnits(r)) \in Nat /\ Len(RequestUnits(r)) >= 1
  BY UnitsOf, Zenon
<1>3. 0 + 1 = 1 /\ 1 <= Len(RequestUnits(r)) /\ ~(0 > 0)
  BY <1>2
<1> QED BY <1>1, <1>3, Zenon DEF Copying, ReadOf

(* Nothing was sent and nothing is being read. *)
LEMMA StreamsInit == Init => Streams
<1> SUFFICES ASSUME Init PROVE Streams
  OBVIOUS
<1>1. PICK r \in Requests : /\ BodyKind(r) # "refused" /\ sent = <<r>>
                            /\ rest = Tail(RequestUnits(r))
  BY Zenon DEF Init
<1>2. cin = <<>> /\ phase = "route" /\ count = 1 /\ copied = NoCopy
  BY Zenon DEF Init
<1>3. sent \in Seq(Requests) /\ sent # <<>> /\ 1 \in 1..Len(sent) /\ sent[1] = r
  BY <1>1
<1>4. <<>> \in Seq(Arrivals)
  OBVIOUS
<1>5. ClientSide
  BY <1>1, <1>2, <1>3, <1>4, FirstStarts, Zenon DEF ClientSide
<1>6. InSequence(sent, rest, cin, 1, 1)
  BY <1>1, <1>2, FirstStarts, Zenon DEF InSequence
<1>7. ProxySide
  BY <1>1, <1>2, <1>3, <1>6, BlankCopying, Zenon DEF ProxySide
<1> QED BY <1>5, <1>7, Zenon DEF Streams

(* The client begins a request, or sends a unit of it. *)
LEMMA StreamsClient ==
    ASSUME Streams, ClientBegin \/ ClientSend
    PROVE  Streams'
<1>0. /\ ClientSide /\ UNCHANGED <<phase, count, copied>> /\ phase # "ended" /\ ProxySide
  BY Zenon DEF Streams, ClientBegin, ClientSend, loopVars
<1>1. /\ sent \in Seq(Requests) /\ sent # <<>> /\ rest \in Seq(UnitKinds) /\ Remains(sent, rest)
      /\ cin \in Seq(Arrivals) /\ count \in 1..Len(sent)
  BY <1>0, Zenon DEF ClientSide
<1> DEFINE k == ReadOf(phase, copied, sent[count])
<1>2. PICK m, i : IsAfter(sent, count, k, m, i) /\ Starts(sent, rest, cin, m, i)
  BY <1>0, Zenon DEF ProxySide, InSequence
<1>3. CASE ClientBegin
  <2>1. PICK r \in Requests : sent' = Append(sent, r) /\ rest' = RequestUnits(r)
    BY <1>3, Zenon DEF ClientBegin
  <2>2. rest = <<>> /\ cin' = cin
    BY <1>3, Zenon DEF ClientBegin
  <2>3. /\ sent' \in Seq(Requests) /\ sent' # <<>> /\ count \in 1..Len(sent')
        /\ sent'[count] = sent[count]
    BY <1>1, <2>1
  <2>4. Starts(sent', rest', cin', m, i) /\ Remains(sent', rest')
    BY <1>1, <1>2, <2>1, <2>2, BeginStarts, Zenon
  <2>5. rest' \in Seq(UnitKinds)
    BY <2>1, UnitsOf, Zenon
  <2>6. ClientSide'
    BY <1>0, <1>1, <2>2, <2>3, <2>4, <2>5, Zenon DEF ClientSide
  <2>7. IsAfter(sent', count, k, m, i)
    BY <1>2, <2>3, Zenon DEF IsAfter
  <2>8. InSequence(sent', rest', cin', count', ReadOf(phase', copied', sent'[count']))
    BY <1>0, <2>3, <2>4, <2>7, Zenon DEF InSequence
  <2>9. ProxySide'
    BY <1>0, <2>3, <2>8, Zenon DEF ProxySide
  <2> QED BY <2>6, <2>9, Zenon DEF Streams
<1>4. CASE ClientSend
  <2>1. /\ sent' = sent /\ rest # <<>> /\ rest' = Tail(rest)
        /\ cin' = Append(cin, [u |-> Head(rest), n |-> Len(sent)])
    BY <1>4, Zenon DEF ClientSend
  <2>2. Starts(sent', rest', cin', m, i) /\ Remains(sent', rest')
    BY <1>1, <1>2, <2>1, SendStarts, Zenon
  <2>3. rest' \in Seq(UnitKinds) /\ Head(rest) \in UnitKinds /\ Len(sent) \in Nat
    BY <1>1, <2>1
  <2>4. [u |-> Head(rest), n |-> Len(sent)] \in Arrivals
    BY <2>3, Zenon DEF Arrivals
  <2>5. cin' \in Seq(Arrivals)
    <3>1. \A x \in Arrivals : Append(cin, x) \in Seq(Arrivals)
      BY <1>1
    <3> QED BY <2>1, <2>4, <3>1, Zenon
  <2>6. ClientSide'
    BY <1>0, <1>1, <2>1, <2>2, <2>3, <2>5, Zenon DEF ClientSide
  <2>7. InSequence(sent', rest', cin', count', ReadOf(phase', copied', sent'[count']))
    BY <1>0, <1>2, <2>1, <2>2, Zenon DEF InSequence
  <2>8. ProxySide'
    BY <1>0, <2>1, <2>7, Zenon DEF ProxySide
  <2> QED BY <2>6, <2>8, Zenon DEF Streams
<1> QED BY <1>3, <1>4, Zenon

(* A session that returns reads no more of the client's stream. *)
LEMMA StreamsReturn ==
    ASSUME Streams, NEW how, Return(how), cin' = cin \/ (cin' = Tail(cin) /\ cin # <<>>)
    PROVE  Streams'
<1>1. phase' = "ended" /\ UNCHANGED <<sent, rest, count>>
  BY Zenon DEF Return, clientVars
<1>2. cin \in Seq(Arrivals) /\ ClientSide
  BY Zenon DEF Streams, ClientSide
<1>3. cin' \in Seq(Arrivals)
  BY <1>2
<1> QED BY <1>1, <1>2, <1>3, Zenon DEF Streams, ClientSide

(* Steps that read nothing of it. *)
LEMMA StreamsKept ==
    ASSUME Streams, phase # "ended", UNCHANGED <<sent, rest, cin, count>>,
           \/ UNCHANGED <<phase, copied>>
           \/ UNCHANGED copied /\ phase = "route" /\ phase' = "request"
           \/ UNCHANGED copied /\ phase = "request" /\ phase' = "upload"
           \/ phase \in {"response", "body"} /\ phase' \in {"response", "body", "idle"}
    PROVE  Streams'
<1>1. ClientSide /\ ProxySide
  BY Zenon DEF Streams
<1>2. ClientSide'
  BY <1>1, Zenon DEF ClientSide
<1>3. /\ "route" \in {"route", "request", "upload"} /\ "request" \in {"route", "request", "upload"}
      /\ "upload" \in {"route", "request", "upload"}
      /\ \A ph \in {"response", "body", "idle"} : ph \notin {"route", "request", "upload"}
      /\ {"response", "body"} \subseteq {"response", "body", "idle"}
  OBVIOUS
<1>4. /\ ReadOf(phase', copied', sent[count]) = ReadOf(phase, copied, sent[count])
      /\ \/ phase' \notin {"route", "request", "upload"}
         \/ phase \in {"route", "request", "upload"} /\ copied' = copied
  BY <1>3, Zenon DEF ReadOf
<1>5. ProxySide'
  BY <1>1, <1>4, Zenon DEF ProxySide
<1> QED BY <1>2, <1>5, Zenon DEF Streams

(* The body is uploaded when the whole request is read, and not before. *)
LEMMA WholeUpload ==
    ASSUME NEW r \in Requests, NEW c, c.wire \in Nat, Copying(c, r), BodyKind(r) # "refused"
    PROVE  /\ BodyKind(r) \in {"none", "length", "chunked"}
           /\ BodyKind(r) = "none" => c.wire + 1 = Len(RequestUnits(r))
           /\ BodyKind(r) = "length" => (c.decoded = r.lengths[1] <=> c.wire + 1 = Len(RequestUnits(r)))
           /\ BodyKind(r) = "chunked" => (c.last = "end" <=> c.wire + 1 = Len(RequestUnits(r)))
<1> DEFINE w == RequestUnits(r)
<1>1. PICK W \in Nat : W = Len(w) /\ W >= 1
  BY UnitsOf, Zenon
<1>2. w[1] = "head" /\ 1 \in 1..W /\ "head" # "end" /\ "none" # "end"
  <2>1. w[1] = "head"
    BY UnitsOf, Zenon
  <2>2. 1 \in 1..W /\ "head" # "end" /\ "none" # "end"
    BY <1>1
  <2> QED BY <2>1, <2>2, Zenon
<1>3. PICK k \in Nat : k = c.wire
  BY Zenon
<1>4. /\ k + 1 <= W /\ (k = 0 => c.decoded = 0 /\ c.last = "none")
      /\ (k > 0 => c.last = w[k + 1]) /\ (BodyKind(r) = "length" => c.decoded = k)
  BY <1>1, <1>3, Zenon DEF Copying
<1>5. k + 1 \in 1..W /\ (k = 0 \/ k > 0)
  BY <1>1, <1>4
<1>6. CASE BodyKind(r) = "none"
  <2>1. r.body = 0 /\ W = r.body + 1
    BY <1>1, <1>6, RequestAssumption, UnitsOf, Zenon
  <2>2. k + 1 = W
    BY <1>4, <2>1
  <2>3. "none" # "length" /\ "none" # "chunked"
    OBVIOUS
  <2> QED BY <1>1, <1>3, <1>6, <2>2, <2>3, Zenon
<1>7. CASE BodyKind(r) = "length"
  <2>1. r.body \in Nat /\ r.body = r.lengths[1] /\ W = r.body + 1
    BY <1>1, <1>7, RequestAssumption, UnitsOf, Zenon
  <2>2. k = r.body <=> k + 1 = W
    BY <2>1
  <2>3. "length" # "none" /\ "length" # "chunked"
    OBVIOUS
  <2> QED BY <1>1, <1>3, <1>4, <1>7, <2>1, <2>2, <2>3, Zenon
<1>8. CASE BodyKind(r) = "chunked"
  <2>1. \A i \in 1..W : w[i] = "end" <=> i = W
    BY <1>1, <1>8, UnitsOf, Zenon
  <2>2. "chunked" # "none" /\ "chunked" # "length"
    OBVIOUS
  <2>3. CASE k = 0
    <3>1. k + 1 = 1
      BY <2>3
    <3>2. c.last # "end" /\ k + 1 # W
      BY <1>2, <1>4, <2>1, <2>3, <3>1, Zenon
    <3> QED BY <1>1, <1>3, <1>8, <2>2, <3>2, Zenon
  <2>4. CASE k > 0
    BY <1>1, <1>3, <1>4, <1>5, <1>8, <2>1, <2>2, <2>4, Zenon
  <2> QED BY <1>5, <2>3, <2>4, Zenon
<1>9. BodyKind(r) \in {"none", "length", "chunked"}
  BY Zenon DEF BodyKind
<1> QED BY <1>6, <1>7, <1>8, <1>9, Zenon

(* The upload reads the units of its request in their order. *)
LEMMA StreamsUpload ==
    ASSUME Streams, Accounts, CopyUnit \/ UploadFails \/ UploadEnds
    PROVE  Streams'
<1>0. /\ phase = "upload" /\ "upload" # "ended" /\ "upload" \in {"route", "request", "upload"}
      /\ copied.wire \in Nat
  BY Zenon DEF CopyUnit, UploadFails, UploadEnds, Accounts, Reported, IsCopy
<1>1. /\ sent \in Seq(Requests) /\ cin \in Seq(Arrivals) /\ count \in 1..Len(sent) /\ ClientSide
      /\ ProxySide
  BY <1>0, Zenon DEF Streams, ClientSide
<1>2. PICK r \in Requests : r = sent[count]
  <2>1. sent[count] \in Requests
    BY <1>1
  <2> QED BY <2>1, Zenon
<1>3. /\ BodyKind(r) # "refused" /\ Copying(copied, r)
      /\ InSequence(sent, rest, cin, count, copied.wire + 1)
  BY <1>0, <1>1, <1>2, Zenon DEF ProxySide, ReadOf
<1>4. Uploaded <=> copied.wire + 1 = Len(RequestUnits(r))
  BY <1>0, <1>2, <1>3, WholeUpload, Zenon DEF Uploaded, req
<1>5. CASE UploadFails
  <2>1. /\ cin' = cin \/ (cin' = Tail(cin) /\ cin # <<>>)
        /\ Return("client_protocol_error")
    BY <1>5, Zenon DEF UploadFails, UploadError
  <2> QED BY <2>1, StreamsReturn, Zenon
<1>6. CASE UploadEnds
  <2>1. Uploaded /\ phase' = "response" /\ UNCHANGED <<sent, rest, cin, count>>
    BY <1>6, Zenon DEF UploadEnds, clientVars
  <2>2. "response" \notin {"route", "request", "upload"}
    OBVIOUS
  <2>3. ReadOf(phase', copied', r) = copied.wire + 1
    BY <1>4, <2>1, <2>2, Zenon DEF ReadOf
  <2>4. ProxySide'
    BY <1>2, <1>3, <2>1, <2>2, <2>3, Zenon DEF ProxySide
  <2>5. ClientSide'
    BY <1>1, <2>1, Zenon DEF ClientSide
  <2> QED BY <2>4, <2>5, Zenon DEF Streams
<1>7. CASE CopyUnit
  <2> DEFINE u == Head(cin).u
  <2>1. ~Uploaded /\ cin # <<>> /\ cin' = Tail(cin)
    BY <1>7, Zenon DEF CopyUnit
  <2>2. CASE UploadError(1)
    BY <2>1, <2>2, StreamsReturn, Zenon DEF UploadError
  <2>3. CASE ~UploadError(1)
    <3>1. PICK n : /\ copied' = [decoded |-> n, wire |-> copied.wire + 1, last |-> u]
                   /\ (BodyKind(r) = "length" => n = copied.decoded + (IF u = "data" THEN 1 ELSE 0))
      <4>1. "length" # "chunked"
        OBVIOUS
      <4> QED BY <1>2, <1>7, <2>3, <4>1, Zenon DEF CopyUnit, req
    <3>2. UNCHANGED <<sent, rest, count, phase>>
      BY <1>7, <2>3, Zenon DEF CopyUnit, clientVars, loopVars
    <3> HIDE DEF u
    <3>3. PICK k \in Nat : k = copied.wire
      BY <1>0, Zenon
    <3>4. PICK W \in Nat : W = Len(RequestUnits(r))
      BY UnitsOf, Zenon
    <3>5. /\ k + 1 <= W /\ (k = 0 => copied.decoded = 0 /\ copied.last = "none")
          /\ (k > 0 => copied.last = RequestUnits(r)[k + 1])
          /\ (BodyKind(r) = "length" => copied.decoded = k) /\ k + 1 # W
      BY <1>3, <1>4, <2>1, <3>3, <3>4, Zenon DEF Copying
    <3>6. /\ k + 1 < W /\ (k + 1) + 1 <= W /\ (k + 1) + 1 \in 2..W /\ k + 1 # 0 /\ k + 1 > 0
      BY <3>5
    <3>7. Starts(sent, rest, cin, count, (k + 1) + 1)
      BY <1>2, <1>3, <3>3, <3>4, <3>5, Zenon DEF InSequence, IsAfter
    <3>8. /\ Carries(sent, Head(cin), count, (k + 1) + 1)
          /\ InSequence(sent, rest, Tail(cin), count, (k + 1) + 1)
      BY <1>1, <2>1, <3>7, TailStarts, Zenon DEF InSequence
    <3>9. u = RequestUnits(r)[(k + 1) + 1]
      <4>1. PICK x : x = Head(cin)
        BY Zenon
      <4>2. Carries(sent, x, count, (k + 1) + 1)
        BY <3>8, <4>1, Zenon
      <4>3. x.u = RequestUnits(sent[count])[(k + 1) + 1]
        BY <4>2, Zenon DEF Carries
      <4> QED BY <1>2, <4>1, <4>3, Zenon DEF u
    <3>10. BodyKind(r) = "length" => n = k + 1
      <4>1. ASSUME BodyKind(r) = "length" PROVE u = "data"
        <5>1. "length" # "chunked"
          OBVIOUS
        <5> QED BY <3>4, <3>6, <3>9, <4>1, <5>1, UnitsOf, Zenon
      <4> QED BY <3>1, <3>5, <4>1, Zenon
    <3>11. copied'.wire = k + 1 /\ copied'.last = u /\ copied'.decoded = n
      BY <3>1, <3>3, Zenon
    <3>12. Copying(copied', r)
      BY <3>4, <3>6, <3>9, <3>10, <3>11, Zenon DEF Copying
    <3>13. ReadOf(phase', copied', r) = (k + 1) + 1
      BY <1>0, <3>2, <3>11, Zenon DEF ReadOf
    <3>14. ProxySide'
      BY <1>2, <1>3, <2>1, <3>2, <3>8, <3>12, <3>13, Zenon DEF ProxySide
    <3>15. cin' \in Seq(Arrivals)
      BY <1>1, <2>1
    <3>16. ClientSide'
      BY <1>1, <3>2, <3>15, Zenon DEF ClientSide
    <3> QED BY <3>14, <3>16, Zenon DEF Streams
  <2> QED BY <2>2, <2>3, Zenon
<1> QED BY <1>5, <1>6, <1>7, Zenon

(* The loop waits for the head of the next request. *)
LEMMA StreamsIdle ==
    ASSUME Streams, phase = "idle"
    PROVE  Starts(sent, rest, cin, count + 1, 1)
<1>1. /\ "idle" # "ended" /\ "idle" \notin {"route", "request", "upload"}
  OBVIOUS
<1>2. sent \in Seq(Requests) /\ count \in 1..Len(sent)
  BY Zenon DEF Streams, ClientSide
<1>3. sent[count] \in Requests
  BY <1>2
<1>4. Len(RequestUnits(sent[count])) \in Nat
  BY <1>3, UnitsOf, Zenon
<1>5. ~(Len(RequestUnits(sent[count])) < Len(RequestUnits(sent[count])))
  BY <1>4
<1>6. InSequence(sent, rest, cin, count, Len(RequestUnits(sent[count])))
  BY <1>1, Zenon DEF Streams, ProxySide, ReadOf
<1> QED BY <1>5, <1>6, Zenon DEF InSequence, IsAfter

(* Every step keeps the sides in sequence. *)
LEMMA StreamsNext ==
    ASSUME Streams, Accounts, NextRequest
    PROVE  Streams'
<1>1. /\ phase = "idle" /\ cin # <<>> /\ IsRequest(Head(cin)) /\ cin' = Tail(cin)
      /\ count' = count + 1 /\ phase' = "route" /\ UNCHANGED <<copied, sent, rest>>
  BY Zenon DEF NextRequest, clientVars
<1>2. cin \in Seq(Arrivals) /\ ClientSide /\ sent \in Seq(Requests)
  BY Zenon DEF Streams, ClientSide
<1>3. copied = NoCopy
  BY <1>1, Zenon DEF Accounts, Reported
<1>4. /\ Carries(sent, Head(cin), count + 1, 1)
      /\ InSequence(sent, rest, Tail(cin), count + 1, 1)
  BY <1>1, <1>2, StreamsIdle, TailStarts, Zenon DEF InSequence
<1>5. count + 1 \in 1..Len(sent) /\ BodyKind(sent[count + 1]) # "refused"
  <2>1. PICK x : x = Head(cin)
    BY Zenon
  <2>2. Carries(sent, x, count + 1, 1) /\ IsRequest(x)
    BY <1>1, <1>4, <2>1, Zenon
  <2>3. x.n = count + 1 /\ count + 1 \in 1..Len(sent)
    BY <2>2, Zenon DEF Carries
  <2> QED BY <2>2, <2>3, Zenon DEF IsRequest
<1>6. sent[count + 1] \in Requests /\ cin' \in Seq(Arrivals)
  BY <1>1, <1>2, <1>5
<1>7. ClientSide'
  BY <1>1, <1>2, <1>5, <1>6, Zenon DEF ClientSide
<1>8. ReadOf(phase', copied', sent'[count']) = 1 /\ Copying(copied', sent'[count'])
  BY <1>1, <1>3, <1>6, BlankCopying, Zenon
<1>9. ProxySide'
  BY <1>1, <1>4, <1>5, <1>8, Zenon DEF ProxySide
<1> QED BY <1>7, <1>9, Zenon DEF Streams

(* The proxy never loses its place in the client's stream. *)
LEMMA StreamsInductive == Spec => []Streams
<1>1. Accounts /\ Streams /\ [Next]_vars => Streams'
  <2> SUFFICES ASSUME Accounts, Streams, [Next]_vars PROVE Streams'
    OBVIOUS
  <2>1. CASE UNCHANGED vars
    <3>1. UNCHANGED <<sent, rest, cin, count, phase, copied>>
      BY <2>1, Zenon DEF vars
    <3> QED BY <3>1, Zenon DEF Streams, ClientSide, ProxySide
  <2>2. CASE ClientCloses \/ OriginReads \/ OriginWrites \/ OriginFinishes \/ OriginDies
    <3>1. UNCHANGED <<sent, rest, cin, count, phase, copied>>
      BY <2>2, Zenon DEF ClientCloses, OriginReads, OriginWrites, OriginFinishes, OriginDies,
         OriginShut, loopVars, clientVars
    <3> QED BY <3>1, Zenon DEF Streams, ClientSide, ProxySide
  <2>3. CASE \/ ExpectationFailed \/ OpenFails \/ WriteHeadFails \/ UpgradeUnsupported
             \/ ResponseFails \/ ResponseCut \/ IdleEnds
    <3>1. cin' = cin /\ \E how : Return(how)
      BY <2>3, Zenon DEF ExpectationFailed, OpenFails, WriteHeadFails, UpgradeUnsupported,
         ResponseFails, ResponseError, ResponseCut, IdleEnds
    <3> QED BY <3>1, StreamsReturn, Zenon
  <2>4. CASE OpenRoute \/ WriteHead
    <3>1. /\ UNCHANGED <<sent, rest, cin, count, copied>>
          /\ \/ phase = "route" /\ phase' = "request"
             \/ phase = "request" /\ phase' = "upload"
      BY <2>4, Zenon DEF OpenRoute, WriteHead, clientVars
    <3>2. phase # "ended"
      BY <3>1
    <3> QED BY <3>1, <3>2, StreamsKept, Zenon
  <2>5. CASE Informational \/ FinalHead \/ RelayUnit \/ ResponseEnds
    <3>1. /\ UNCHANGED <<sent, rest, cin, count>> /\ phase \in {"response", "body"}
          /\ phase' \in {"response", "body", "idle"} \/ Return("completed")
      BY <2>5, Zenon DEF Informational, FinalHead, RelayUnit, ResponseEnds, Deliver, Return,
         clientVars
    <3>2. phase # "ended"
      BY <3>1
    <3> QED BY <3>1, <3>2, StreamsKept, StreamsReturn, Zenon
  <2> QED BY <2>1, <2>2, <2>3, <2>4, <2>5, StreamsClient, StreamsUpload, StreamsNext, Zenon
          DEF Next, Loop
<1> QED BY <1>1, StreamsInit, AccountsInductive, PTL DEF Spec
-----------------------------------------------------------------------------
(* What the client's parser has made of the responses.                     *)
Readings == {"between", "length", "chunked", "eof"}

IsView(v) ==
    /\ v = [mode |-> v.mode, left |-> v.left, begun |-> v.begun, cont |-> v.cont,
            coded |-> v.coded, bad |-> v.bad]
    /\ v.mode \in Readings /\ v.coded \in BOOLEAN /\ v.bad \in BOOLEAN

IsOrigin(o) == o = [mode |-> o.mode, open |-> o.open, p |-> o.p, got |-> o.got, put |-> o.put]

(* The client is as far in the body of response p as the proxy, whose      *)
(* account of it is r.                                                     *)
InBody(p, r, v) ==
    /\ RelayFraming(p) = "length" =>
          /\ r.left \in Int /\ v.left = r.left
          /\ v.mode = IF r.left = 0 THEN "between" ELSE "length"
    /\ RelayFraming(p) = "chunked" => v.mode = IF r.last = "end" THEN "between" ELSE "chunked"
    /\ RelayFraming(p) = "eof" => v.mode = "eof"

Agrees(ph, n, p, r, v) ==
    /\ ~v.bad
    /\ ph \in {"route", "request", "upload", "response"} => v.mode = "between" /\ v.begun + 1 = n
    /\ ph = "body" => v.begun = n /\ InBody(p, r, v)
    /\ ph = "idle" => v.begun = n /\ v.mode = "between"

Parsed ==
    /\ IsView(view) /\ IsOrigin(origin)
    /\ phase \in {"request", "upload", "response", "body"} => origin.p \in Responses
    /\ ~view.coded => Agrees(phase, count, origin.p, reply, view)

HeadMode(f, n) == IF f = "length" /\ n = 0 THEN "between" ELSE f
LengthMode(n)  == IF n = 1 THEN "between" ELSE "length"
ChunkMode(u)   == IF u = "end" THEN "between" ELSE "chunked"

(* The parser reads a head between two responses. *)
HeadOf(w, v, f, n, c) ==
    /\ IsView(w) /\ w.left = n /\ w.begun = v.begun + 1 /\ w.mode = HeadMode(f, n)
    /\ ~w.coded => ~v.coded /\ ~c
    /\ (~v.bad /\ v.mode = "between") => ~w.bad

(* The client reads a final head. *)
LEMMA HeadRead ==
    ASSUME NEW v, IsView(v), NEW f \in Readings, NEW n, NEW c \in BOOLEAN
    PROVE  HeadOf(ReadsHead(v, f, n, c), v, f, n, c)
<1>1. /\ v.coded \in BOOLEAN /\ v.bad \in BOOLEAN /\ (v.mode # "between") \in BOOLEAN
  BY Zenon DEF IsView
<1>2. (v.coded \/ c) \in BOOLEAN /\ (v.bad \/ v.mode # "between") \in BOOLEAN
  BY <1>1, Zenon
<1>3. PICK x \in BOOLEAN, y \in BOOLEAN : /\ x = (v.coded \/ c) /\ y = (v.bad \/ v.mode # "between")
                                          /\ ~x => ~v.coded /\ ~c
                                          /\ (~v.bad /\ v.mode = "between") => ~y
  BY <1>2, Zenon
<1>4. PICK m \in Readings : m = HeadMode(f, n)
  <2>1. "between" \in Readings
    BY DEF Readings
  <2> QED BY <2>1, Zenon DEF HeadMode
<1>5. PICK w : w = ReadsHead(v, f, n, c)
  BY Zenon
<1>6. w = [mode |-> m, left |-> n, begun |-> v.begun + 1, cont |-> FALSE, coded |-> x, bad |-> y]
  BY <1>3, <1>4, <1>5, Zenon DEF ReadsHead, HeadMode
<1>7. /\ w.mode = m /\ w.left = n /\ w.begun = v.begun + 1 /\ w.cont = FALSE
      /\ w.coded = x /\ w.bad = y
  BY <1>6, Zenon
<1>8. IsView(w)
  BY <1>6, <1>7, Zenon DEF IsView
<1> QED BY <1>3, <1>4, <1>5, <1>7, <1>8, Zenon DEF HeadOf

(* The client reads an informational head. *)
LEMMA InfoRead ==
    ASSUME NEW v, IsView(v)
    PROVE  /\ IsView(ReadsInfo(v)) /\ ReadsInfo(v).begun = v.begun
           /\ ReadsInfo(v).mode = v.mode /\ ReadsInfo(v).coded = v.coded
           /\ (~v.bad /\ v.mode = "between") => ~ReadsInfo(v).bad
<1>1. /\ v.coded \in BOOLEAN /\ v.bad \in BOOLEAN /\ (v.mode # "between") \in BOOLEAN
  BY Zenon DEF IsView
<1>2. (v.bad \/ v.mode # "between") \in BOOLEAN
  BY <1>1, Zenon
<1>3. PICK y \in BOOLEAN : /\ y = (v.bad \/ v.mode # "between")
                           /\ (~v.bad /\ v.mode = "between") => ~y
  BY <1>2, Zenon
<1>4. PICK w : w = ReadsInfo(v) /\ w = [v EXCEPT !.cont = TRUE, !.bad = y]
  BY <1>3, Zenon DEF ReadsInfo
<1>5. v = [mode |-> v.mode, left |-> v.left, begun |-> v.begun, cont |-> v.cont,
           coded |-> v.coded, bad |-> v.bad] /\ v.mode \in Readings
  BY Zenon DEF IsView
<1>6. w = [mode |-> v.mode, left |-> v.left, begun |-> v.begun, cont |-> TRUE,
           coded |-> v.coded, bad |-> y]
  BY <1>4, <1>5, Zenon
<1>7. /\ w.mode = v.mode /\ w.left = v.left /\ w.begun = v.begun /\ w.cont = TRUE
      /\ w.coded = v.coded /\ w.bad = y
  BY <1>6, Zenon
<1>8. IsView(w)
  BY <1>1, <1>5, <1>6, <1>7, Zenon DEF IsView
<1> QED BY <1>3, <1>4, <1>7, <1>8, Zenon

(* The parser reads a unit of a body. *)
LEMMA UnitRead ==
    ASSUME NEW v, IsView(v), NEW u
    PROVE  /\ IsView(ReadsUnit(v, u)) /\ ReadsUnit(v, u).coded = v.coded
           /\ v.mode = "length" =>
                 /\ ReadsUnit(v, u).left = v.left - 1 /\ ReadsUnit(v, u).begun = v.begun
                 /\ ReadsUnit(v, u).mode = LengthMode(v.left)
                 /\ ReadsUnit(v, u).bad = v.bad
           /\ v.mode = "chunked" =>
                 /\ ReadsUnit(v, u).left = v.left /\ ReadsUnit(v, u).begun = v.begun
                 /\ ReadsUnit(v, u).mode = ChunkMode(u)
                 /\ ReadsUnit(v, u).bad = v.bad
           /\ v.mode = "eof" => ReadsUnit(v, u) = v
<1>1. /\ v = [mode |-> v.mode, left |-> v.left, begun |-> v.begun, cont |-> v.cont,
              coded |-> v.coded, bad |-> v.bad]
      /\ v.coded \in BOOLEAN /\ v.bad \in BOOLEAN /\ v.mode \in Readings
  BY Zenon DEF IsView
<1>0. PICK w : w = ReadsUnit(v, u)
  BY Zenon
<1>2. CASE v.mode = "between"
  <2>1. w = [v EXCEPT !.bad = TRUE]
    BY <1>0, <1>2, Zenon DEF ReadsUnit
  <2>2. w = [mode |-> v.mode, left |-> v.left, begun |-> v.begun, cont |-> v.cont,
             coded |-> v.coded, bad |-> TRUE] /\ TRUE \in BOOLEAN
    BY <1>1, <2>1, Zenon
  <2>3. "between" # "length" /\ "between" # "chunked" /\ "between" # "eof"
    OBVIOUS
  <2>4. /\ w.mode = v.mode /\ w.left = v.left /\ w.begun = v.begun /\ w.cont = v.cont
        /\ w.coded = v.coded /\ w.bad = TRUE
    BY <2>2, Zenon
  <2>5. IsView(w)
    BY <1>1, <2>2, <2>4, Zenon DEF IsView
  <2> QED BY <1>0, <1>2, <2>3, <2>4, <2>5, Zenon
<1>3. CASE v.mode = "length"
  <2>0. "length" # "between" /\ "length" # "chunked" /\ "length" # "eof"
    OBVIOUS
  <2>1. PICK m \in Readings : m = LengthMode(v.left)
    <3>1. "between" \in Readings /\ "length" \in Readings
      BY DEF Readings
    <3> QED BY <3>1, Zenon DEF LengthMode
  <2>2. w = [v EXCEPT !.left = v.left - 1, !.mode = m]
    BY <1>0, <1>3, <2>0, <2>1, Zenon DEF ReadsUnit, LengthMode
  <2>3. w = [mode |-> m, left |-> v.left - 1, begun |-> v.begun, cont |-> v.cont,
             coded |-> v.coded, bad |-> v.bad]
    BY <1>1, <2>2, Zenon
  <2>4. /\ w.mode = m /\ w.left = v.left - 1 /\ w.begun = v.begun /\ w.cont = v.cont
        /\ w.coded = v.coded /\ w.bad = v.bad
    BY <2>3, Zenon
  <2>5. IsView(w)
    BY <1>1, <2>3, <2>4, Zenon DEF IsView
  <2> QED BY <1>0, <1>3, <2>0, <2>1, <2>4, <2>5, Zenon
<1>4. CASE v.mode = "chunked"
  <2>0. "chunked" # "between" /\ "chunked" # "length" /\ "chunked" # "eof"
    OBVIOUS
  <2>1. PICK m \in Readings : m = ChunkMode(u)
    <3>1. "between" \in Readings /\ "chunked" \in Readings
      BY DEF Readings
    <3> QED BY <3>1, Zenon DEF ChunkMode
  <2>2. w = [v EXCEPT !.mode = m]
    BY <1>0, <1>4, <2>0, <2>1, Zenon DEF ReadsUnit, ChunkMode
  <2>3. w = [mode |-> m, left |-> v.left, begun |-> v.begun, cont |-> v.cont,
             coded |-> v.coded, bad |-> v.bad]
    BY <1>1, <2>2, Zenon
  <2>4. /\ w.mode = m /\ w.left = v.left /\ w.begun = v.begun /\ w.cont = v.cont
        /\ w.coded = v.coded /\ w.bad = v.bad
    BY <2>3, Zenon
  <2>5. IsView(w)
    BY <1>1, <2>3, <2>4, Zenon DEF IsView
  <2> QED BY <1>0, <1>4, <2>0, <2>1, <2>4, <2>5, Zenon
<1>5. CASE v.mode = "eof"
  <2>0. "eof" # "between" /\ "eof" # "length" /\ "eof" # "chunked"
    OBVIOUS
  <2>1. w = v
    BY <1>0, <1>5, <2>0, Zenon DEF ReadsUnit
  <2> QED BY <1>0, <1>5, <2>0, <2>1, Zenon
<1> QED BY <1>1, <1>2, <1>3, <1>4, <1>5, Zenon DEF Readings

(* An origin that is not connected has the fields of one. *)
LEMMA BlankOrigin == IsOrigin(NoOrigin)
<1>1. PICK p : NoOrigin = [mode |-> "none", open |-> FALSE, p |-> p, got |-> 0, put |-> 0]
  BY Zenon DEF NoOrigin
<1>2. /\ NoOrigin.mode = "none" /\ NoOrigin.open = FALSE /\ NoOrigin.p = p /\ NoOrigin.got = 0
      /\ NoOrigin.put = 0
  BY <1>1, Zenon
<1> QED BY <1>1, <1>2, Zenon DEF IsOrigin

(* The client waits for its first response head. *)
LEMMA ParsedInit == Init => Parsed
<1> SUFFICES ASSUME Init PROVE Parsed
  OBVIOUS
<1>1. phase = "route" /\ count = 1 /\ view = NoView /\ origin = NoOrigin
  BY Zenon DEF Init
<1>2. NoView = [mode |-> "between", left |-> 0, begun |-> 0, cont |-> FALSE, coded |-> FALSE,
                bad |-> FALSE]
  BY Zenon DEF NoView
<1>3. /\ NoView.mode = "between" /\ NoView.left = 0 /\ NoView.begun = 0 /\ NoView.cont = FALSE
      /\ NoView.coded = FALSE /\ NoView.bad = FALSE
  BY <1>2, Zenon
<1>4. "between" \in Readings /\ FALSE \in BOOLEAN
  BY DEF Readings
<1>5. IsView(NoView)
  BY <1>2, <1>3, <1>4, Zenon DEF IsView
<1>6. 0 + 1 = 1 /\ "route" \notin {"request", "upload", "response", "body"} /\ "route" # "body"
      /\ "route" # "idle"
  OBVIOUS
<1> QED BY <1>1, <1>3, <1>5, <1>6, BlankOrigin, Zenon DEF Parsed, Agrees

(* The steps of the client and of the origin write nothing to the client. *)
LEMMA ParsedPeers ==
    ASSUME Parsed,
           \/ ClientBegin \/ ClientSend \/ ClientCloses
           \/ OriginReads \/ OriginWrites \/ OriginFinishes \/ OriginDies
    PROVE  Parsed'
<1>1. UNCHANGED <<phase, count, reply, view>>
  BY Zenon DEF ClientBegin, ClientSend, ClientCloses, OriginReads, OriginWrites, OriginFinishes,
     OriginDies, OriginShut, loopVars
<1>2. /\ origin = [mode |-> origin.mode, open |-> origin.open, p |-> origin.p, got |-> origin.got,
                   put |-> origin.put]
      /\ IsOrigin(origin)
  BY Zenon DEF Parsed, IsOrigin
<1>3. \/ origin' = origin \/ origin' = [origin EXCEPT !.got = @ + 1]
      \/ origin' = [origin EXCEPT !.put = @ + 1] \/ origin' = [origin EXCEPT !.open = FALSE]
  BY Zenon DEF ClientBegin, ClientSend, ClientCloses, OriginReads, OriginWrites, OriginFinishes,
     OriginDies, OriginShut, wires
<1>4. origin'.p = origin.p /\ IsOrigin(origin')
  <2>1. ASSUME NEW o, NEW g, NEW w,
               origin' = [mode |-> origin.mode, open |-> o, p |-> origin.p, got |-> g, put |-> w]
        PROVE  origin'.p = origin.p /\ IsOrigin(origin')
    <3>1. /\ origin'.p = origin.p /\ origin'.mode = origin.mode /\ origin'.open = o
          /\ origin'.got = g /\ origin'.put = w
      BY <2>1, Zenon
    <3> QED BY <2>1, <3>1, Zenon DEF IsOrigin
  <2>2. \E o, g, w :
           origin' = [mode |-> origin.mode, open |-> o, p |-> origin.p, got |-> g, put |-> w]
    BY <1>2, <1>3, Zenon
  <2> QED BY <2>1, <2>2, Zenon
<1> QED BY <1>1, <1>4, Zenon DEF Parsed

(* The session returns, after a reply of its own or without one. *)
LEMMA ParsedReturn ==
    ASSUME Parsed, NEW how, Return(how),
           \/ view' = view
           \/ Replied /\ phase \in {"route", "request", "upload", "response"}
    PROVE  Parsed'
<1>1. phase' = "ended" /\ origin' = NoOrigin
  BY Zenon DEF Return
<1>2. IsView(view) /\ (~view.coded => Agrees(phase, count, origin.p, reply, view))
  BY Zenon DEF Parsed
<1>3. IsView(view') /\ (~view'.coded => ~view'.bad)
  <2>1. CASE view' = view
    BY <1>2, <2>1, Zenon DEF Agrees
  <2>2. CASE /\ view' = ReadsHead(view, "eof", 0, FALSE)
             /\ phase \in {"route", "request", "upload", "response"}
    <3>1. "eof" \in Readings /\ FALSE \in BOOLEAN
      BY DEF Readings
    <3>2. ~view.coded => ~view.bad /\ view.mode = "between"
      BY <1>2, <2>2, Zenon DEF Agrees
    <3>3. HeadOf(ReadsHead(view, "eof", 0, FALSE), view, "eof", 0, FALSE)
      BY <1>2, <3>1, HeadRead, Zenon
    <3> QED BY <2>2, <3>2, <3>3, Zenon DEF HeadOf
  <2> QED BY <2>1, <2>2, Zenon DEF Replied
<1>4. /\ "ended" \notin {"request", "upload", "response", "body"} /\ "ended" # "body"
      /\ "ended" # "idle" /\ "ended" \notin {"route", "request", "upload", "response"}
  OBVIOUS
<1> QED BY <1>1, <1>3, <1>4, BlankOrigin, Zenon DEF Parsed, Agrees

(* Before the response nothing is written to the client. *)
LEMMA ParsedRequest ==
    ASSUME Parsed, view' = view, count' = count,
           \/ OpenRoute
           \/ /\ phase \in {"request", "upload"} /\ phase' \in {"upload", "response"}
              /\ UNCHANGED origin
    PROVE  Parsed'
<1>1. /\ phase \in {"route", "request", "upload", "response"}
      /\ phase' \in {"route", "request", "upload", "response"} /\ phase' # "body" /\ phase' # "idle"
  <2>1. \/ phase = "route" /\ phase' = "request"
        \/ phase \in {"request", "upload"} /\ phase' \in {"upload", "response"}
    BY Zenon DEF OpenRoute
  <2> QED BY <2>1
<1>2. Agrees(phase, count, origin.p, reply, view) => Agrees(phase', count', origin'.p, reply', view')
  BY <1>1, Zenon DEF Agrees
<1>3. IsOrigin(origin') /\ origin'.p \in Responses
  <2>1. CASE OpenRoute
    <3>1. PICK m \in Modes, p \in Responses :
             origin' = [mode |-> m, open |-> TRUE, p |-> p, got |-> 0, put |-> 0]
      BY <2>1, Zenon DEF OpenRoute
    <3>2. /\ origin'.mode = m /\ origin'.open = TRUE /\ origin'.p = p /\ origin'.got = 0
          /\ origin'.put = 0
      BY <3>1, Zenon
    <3> QED BY <3>1, <3>2, Zenon DEF IsOrigin
  <2>2. CASE phase \in {"request", "upload"} /\ UNCHANGED origin
    BY <2>2, Zenon DEF Parsed
  <2> QED BY <2>1, <2>2, Zenon
<1> QED BY <1>2, <1>3, Zenon DEF Parsed

(* The framings that proxy and client go by. *)
LEMMA Framings ==
    ASSUME NEW p
    PROVE  /\ RelayFraming(p) \in {"length", "chunked", "eof"}
           /\ ClientFraming(p) \in {"length", "chunked", "eof"} /\ ClientFraming(p) \in Readings
           /\ p.coding # "coded" => ClientFraming(p) = RelayFraming(p)
<1>1. p.coding # "coded" => (IsChunked(p) <=> p.coding = "chunked")
  <2>1. "chunked" \in {"chunked", "coded"}
    OBVIOUS
  <2> QED BY <2>1, Zenon DEF IsChunked
<1>2. /\ RelayFraming(p) \in {"length", "chunked", "eof"}
      /\ ClientFraming(p) \in {"length", "chunked", "eof"}
  BY Zenon DEF RelayFraming, ClientFraming
<1>3. ClientFraming(p) \in Readings
  BY <1>2, Zenon DEF Readings
<1> QED BY <1>1, <1>2, <1>3, Zenon DEF RelayFraming, ClientFraming

(* A head is forwarded to a client that expects one. *)
LEMMA ParsedHead ==
    ASSUME Parsed, Accounts, Informational \/ FinalHead
    PROVE  Parsed'
<1>0. /\ phase = "response" /\ UNCHANGED <<count, origin>> /\ IsReply(reply)
      /\ "response" \in {"route", "request", "upload", "response"}
      /\ "response" \in {"request", "upload", "response", "body"}
  BY Zenon DEF Informational, FinalHead, Deliver, Accounts, Reported
<1>1. /\ IsView(view) /\ IsOrigin(origin) /\ origin.p \in Responses
      /\ ~view.coded => ~view.bad /\ view.mode = "between" /\ view.begun + 1 = count
  BY <1>0, Zenon DEF Parsed, Agrees
<1>2. CASE Informational
  <2>1. phase' = phase /\ view' = ReadsInfo(view)
    BY <1>2, Zenon DEF Informational, Deliver
  <2>2. /\ IsView(view') /\ view'.begun = view.begun /\ view'.mode = view.mode
        /\ view'.coded = view.coded
        /\ (~view.bad /\ view.mode = "between") => ~view'.bad
    BY <1>1, <2>1, InfoRead, Zenon
  <2>3. "response" # "body" /\ "response" # "idle"
    OBVIOUS
  <2> QED BY <1>0, <1>1, <2>1, <2>2, <2>3, Zenon DEF Parsed, Agrees
<1>3. CASE FinalHead
  <2> DEFINE p == origin.p
  <2>1. /\ phase' = "body" /\ view' = ReadsHead(view, ClientFraming(p), p.length, p.coding = "coded")
        /\ reply' = [reply EXCEPT !.left = p.length, !.forwarded = @ + 1, !.last = "final"]
    BY <1>3, Zenon DEF FinalHead, Deliver, resp
  <2>2. reply'.left = p.length /\ reply'.last = "final"
    BY <1>0, <2>1, Zenon DEF IsReply
  <2> HIDE DEF p
  <2>3. PICK c \in BOOLEAN : c = (p.coding = "coded")
    BY Zenon
  <2>4. ClientFraming(p) \in Readings
    BY Framings, Zenon
  <2>5. /\ IsView(view') /\ view'.left = p.length /\ view'.begun = view.begun + 1
        /\ view'.mode = HeadMode(ClientFraming(p), p.length)
        /\ ~view'.coded => ~view.coded /\ ~c
        /\ (~view.bad /\ view.mode = "between") => ~view'.bad
    <3>1. PICK f \in Readings : f = ClientFraming(p)
      BY <2>4, Zenon
    <3>4. PICK n : n = p.length
      BY Zenon
    <3>0. IsView(view)
      BY <1>1, Zenon
    <3>2. HeadOf(ReadsHead(view, f, n, c), view, f, n, c)
      BY <3>0, HeadRead, Zenon
    <3>3. view' = ReadsHead(view, f, n, c)
      BY <2>1, <2>3, <3>1, <3>4, Zenon
    <3> QED BY <3>1, <3>2, <3>3, <3>4, Zenon DEF HeadOf
  <2>6. p.length \in Int
    BY <1>1, ResponseAssumption, Zenon DEF p
  <2>7. ~c => InBody(p, reply', view')
    <3>1. ASSUME ~c PROVE ClientFraming(p) = RelayFraming(p)
      BY <2>3, <3>1, Framings, Zenon
    <3>2. "final" # "end" /\ "chunked" # "length" /\ "eof" # "length"
      OBVIOUS
    <3> QED BY <2>2, <2>5, <2>6, <3>1, <3>2, Zenon DEF InBody, HeadMode
  <2>8. /\ "body" \notin {"route", "request", "upload", "response"} /\ "body" # "idle"
    OBVIOUS
  <2>9. ~view'.coded => Agrees(phase', count', origin'.p, reply', view')
    <3> SUFFICES ASSUME ~view'.coded PROVE Agrees("body", count, p, reply', view')
      BY <1>0, <2>1, Zenon DEF p
    <3>1. ~view'.bad /\ view'.begun = count /\ InBody(p, reply', view')
      BY <1>1, <2>5, <2>7, Zenon
    <3> QED BY <2>8, <3>1, Zenon DEF Agrees
  <2> QED BY <1>0, <1>1, <2>5, <2>9, Zenon DEF Parsed
<1> QED BY <1>2, <1>3, Zenon

(* A unit of a body is forwarded, when the response is not at its end. *)
LEMMA ParsedUnit ==
    ASSUME Parsed, Accounts, RelayUnit
    PROVE  Parsed'
<1> DEFINE p == origin.p
<1>0. /\ phase = "body" /\ UNCHANGED <<phase, count, origin>> /\ IsReply(reply) /\ ~Relayed
      /\ "body" \in {"request", "upload", "response", "body"}
  BY Zenon DEF RelayUnit, Deliver, Accounts, Reported
<1>1. PICK u : u = Head(fromOrigin)
  BY Zenon
<1>2. /\ view' = ReadsUnit(view, u)
      /\ reply' = [reply EXCEPT !.left = @ - 1, !.forwarded = @ + 1, !.last = u]
  BY <1>1, Zenon DEF RelayUnit, Deliver
<1>3. reply'.left = reply.left - 1 /\ reply'.last = u
  BY <1>0, <1>2, Zenon DEF IsReply
<1>4. /\ IsView(view) /\ IsOrigin(origin) /\ origin.p \in Responses
      /\ ~view.coded => ~view.bad /\ view.begun = count /\ InBody(p, reply, view)
  BY <1>0, Zenon DEF Parsed, Agrees
<1>5. /\ RelayFraming(p) = "length" => reply.left # 0
      /\ RelayFraming(p) = "chunked" => reply.last # "end"
  <2>1. "chunked" # "length"
    OBVIOUS
  <2> QED BY <1>0, <2>1, Zenon DEF Relayed, resp
<1> HIDE DEF p
<1>6. IsView(view') /\ view'.coded = view.coded
  BY <1>2, <1>4, UnitRead, Zenon
<1>7. ASSUME ~view.coded PROVE ~view'.bad /\ view'.begun = count /\ InBody(p, reply', view')
  <2>0. ~view.bad /\ view.begun = count /\ InBody(p, reply, view)
    BY <1>4, <1>7, Zenon
  <2>1. CASE RelayFraming(p) = "length"
    <3>0. "length" # "chunked" /\ "length" # "eof"
      OBVIOUS
    <3>1. /\ reply.left \in Int /\ view.left = reply.left /\ view.mode = "length"
      BY <1>5, <2>0, <2>1, Zenon DEF InBody
    <3>2. /\ ReadsUnit(view, u).left = view.left - 1 /\ ReadsUnit(view, u).begun = view.begun
          /\ ReadsUnit(view, u).mode = LengthMode(view.left)
          /\ ReadsUnit(view, u).bad = view.bad
      <4>1. IsView(view)
        BY <1>4, Zenon
      <4> QED BY <3>1, <4>1, UnitRead, Zenon
    <3>3. reply.left - 1 \in Int /\ (reply.left - 1 = 0 <=> reply.left = 1)
      BY <3>1
    <3>4. InBody(p, reply', view')
      BY <1>2, <1>3, <2>1, <3>0, <3>1, <3>2, <3>3, Zenon DEF InBody, LengthMode
    <3> QED BY <1>2, <2>0, <3>2, <3>4, Zenon
  <2>2. CASE RelayFraming(p) = "chunked"
    <3>0. "chunked" # "length" /\ "chunked" # "eof"
      OBVIOUS
    <3>1. view.mode = "chunked"
      BY <1>5, <2>0, <2>2, Zenon DEF InBody
    <3>2. /\ ReadsUnit(view, u).begun = view.begun /\ ReadsUnit(view, u).bad = view.bad
          /\ ReadsUnit(view, u).mode = ChunkMode(u)
      <4>1. IsView(view)
        BY <1>4, Zenon
      <4> QED BY <3>1, <4>1, UnitRead, Zenon
    <3>3. InBody(p, reply', view')
      BY <1>2, <1>3, <2>2, <3>0, <3>2, Zenon DEF InBody, ChunkMode
    <3> QED BY <1>2, <2>0, <3>2, <3>3, Zenon
  <2>3. CASE RelayFraming(p) = "eof"
    <3>0. "eof" # "length" /\ "eof" # "chunked"
      OBVIOUS
    <3>1. view.mode = "eof"
      BY <2>0, <2>3, Zenon DEF InBody
    <3>2. view' = view
      BY <1>2, <1>4, <3>1, UnitRead, Zenon
    <3>3. InBody(p, reply', view')
      BY <2>3, <3>0, <3>1, <3>2, Zenon DEF InBody
    <3> QED BY <2>0, <3>2, <3>3, Zenon
  <2> QED BY <2>1, <2>2, <2>3, Framings, Zenon
<1>8. /\ "body" \notin {"route", "request", "upload", "response"} /\ "body" # "idle"
  OBVIOUS
<1>9. ~view'.coded => Agrees(phase', count', origin'.p, reply', view')
  <2> SUFFICES ASSUME ~view'.coded PROVE Agrees("body", count, p, reply', view')
    BY <1>0, Zenon DEF p
  <2>1. ~view'.bad /\ view'.begun = count /\ InBody(p, reply', view')
    BY <1>6, <1>7, Zenon
  <2> QED BY <1>8, <2>1, Zenon DEF Agrees
<1> QED BY <1>0, <1>4, <1>6, <1>9, Zenon DEF Parsed

(* When the response is relayed and the connection is kept, the client has *)
(* read a whole response; its next request is then served.                 *)
LEMMA ParsedEnds ==
    ASSUME Parsed, ResponseEnds \/ NextRequest
    PROVE  Parsed'
<1>1. CASE NextRequest
  <2>1. /\ phase = "idle" /\ phase' = "route" /\ count' = count + 1 /\ view' = view
        /\ origin' = NoOrigin
    BY <1>1, Zenon DEF NextRequest
  <2>2. /\ IsView(view) /\ (~view.coded => ~view.bad /\ view.begun = count /\ view.mode = "between")
    BY <2>1, Zenon DEF Parsed, Agrees
  <2>3. "route" \notin {"request", "upload", "response", "body"} /\ "route" # "body"
        /\ "route" # "idle"
    OBVIOUS
  <2>4. ~view'.coded => Agrees(phase', count', origin'.p, reply', view')
    BY <2>1, <2>2, <2>3, Zenon DEF Agrees
  <2> QED BY <2>1, <2>2, <2>3, <2>4, BlankOrigin, Zenon DEF Parsed
<1>2. CASE ResponseEnds /\ Return("completed")
  BY <1>2, ParsedReturn, Zenon DEF ResponseEnds
<1>3. CASE ResponseEnds /\ ~Return("completed")
  <2> DEFINE p == origin.p
  <2>1. /\ phase = "body" /\ Relayed /\ UpstreamAlive(p) /\ phase' = "idle"
        /\ UNCHANGED <<count, origin, view>>
    BY <1>3, Zenon DEF ResponseEnds, wires, resp
  <2>2. RelayFraming(p) # "eof" /\ RelayFraming(p) \in {"length", "chunked", "eof"}
    BY <2>1, Framings, Zenon DEF UpstreamAlive
  <2>3. /\ RelayFraming(p) = "length" => reply.left = 0
        /\ RelayFraming(p) = "chunked" => reply.last = "end"
    <3>1. "chunked" # "length"
      OBVIOUS
    <3> QED BY <2>1, <3>1, Zenon DEF Relayed, resp
  <2>4. /\ IsView(view) /\ IsOrigin(origin)
        /\ ~view.coded => ~view.bad /\ view.begun = count /\ InBody(p, reply, view)
    BY <2>1, Zenon DEF Parsed, Agrees
  <2> HIDE DEF p
  <2>5. ~view.coded => view.mode = "between"
    BY <2>2, <2>3, <2>4, Zenon DEF InBody
  <2>6. /\ "idle" \notin {"route", "request", "upload", "response"} /\ "idle" # "body"
        /\ "idle" \notin {"request", "upload", "response", "body"}
    OBVIOUS
  <2> QED BY <2>1, <2>4, <2>5, <2>6, Zenon DEF Parsed, Agrees
<1> QED BY <1>1, <1>2, <1>3, Zenon

(* Client and proxy agree in every place of the loop. *)
LEMMA ParsedInductive == Spec => []Parsed
<1>1. Accounts /\ Parsed /\ [Next]_vars => Parsed'
  <2> SUFFICES ASSUME Accounts, Parsed, [Next]_vars PROVE Parsed'
    OBVIOUS
  <2>1. CASE UNCHANGED vars
    <3>1. UNCHANGED <<phase, count, origin, reply, view>>
      BY <2>1, Zenon DEF vars
    <3> QED BY <3>1, Zenon DEF Parsed
  <2>2. CASE \/ ExpectationFailed \/ OpenFails \/ WriteHeadFails \/ UpgradeUnsupported
    <3>1. /\ \E how : Return(how)
          /\ Replied /\ phase \in {"route", "request", "upload", "response"}
      BY <2>2, Zenon DEF ExpectationFailed, OpenFails, WriteHeadFails, UpgradeUnsupported
    <3> QED BY <3>1, ParsedReturn, Zenon
  <2>3. CASE ResponseFails \/ ResponseCut \/ IdleEnds \/ UploadFails
    <3>1. view' = view /\ \E how : Return(how)
      BY <2>3, Zenon DEF ResponseFails, ResponseError, ResponseCut, IdleEnds, UploadFails, UploadError
    <3> QED BY <3>1, ParsedReturn, Zenon
  <2>4. CASE OpenRoute
    <3>1. view' = view /\ count' = count
      BY <2>4, Zenon DEF OpenRoute
    <3> QED BY <2>4, <3>1, ParsedRequest, Zenon
  <2>5. CASE WriteHead \/ UploadEnds
    <3>1. /\ phase \in {"request", "upload"} /\ phase' \in {"upload", "response"}
          /\ UNCHANGED <<origin, view, count>>
      BY <2>5, Zenon DEF WriteHead, UploadEnds, wires
    <3> QED BY <3>1, ParsedRequest, Zenon
  <2>6. CASE CopyUnit
    <3>1. CASE UploadError(1)
      BY <3>1, ParsedReturn, Zenon DEF UploadError
    <3>2. CASE ~UploadError(1)
      <4>1. phase = "upload" /\ phase' = phase /\ UNCHANGED <<origin, view, count>>
        BY <2>6, <3>2, Zenon DEF CopyUnit, loopVars
      <4> QED BY <4>1, ParsedRequest, Zenon
    <3> QED BY <3>1, <3>2, Zenon
  <2> QED BY <2>1, <2>2, <2>3, <2>4, <2>5, <2>6, ParsedPeers, ParsedHead, ParsedUnit, ParsedEnds,
             Zenon DEF Next, Loop
<1> QED BY <1>1, ParsedInit, AccountsInductive, PTL DEF Spec

(* Client and proxy stay in step for any requests, responses and limits:   *)
(* nothing is written inside or after an unfinished response, and what the *)
(* loop reads as the next request is the head of the client's next one.    *)
(* Parsed relates the client's parser to forward_response, and Streams the *)
(* units under way to what copy_request_body has read.                     *)
THEOREM ForwardInStep == Spec => []InStep
<1>1. Parsed /\ Streams => InStep
  <2> SUFFICES ASSUME Parsed, Streams, ~view.coded
               PROVE  /\ ~view.bad
                      /\ phase = "idle" =>
                           /\ view.mode = "between" /\ view.begun = count
                           /\ cin # <<>> => Head(cin) = [u |-> "head", n |-> count + 1]
    BY Zenon DEF InStep
  <2>1. /\ ~view.bad
        /\ phase = "idle" => view.mode = "between" /\ view.begun = count
    BY Zenon DEF Parsed, Agrees
  <2>2. ASSUME phase = "idle", cin # <<>> PROVE Head(cin) = [u |-> "head", n |-> count + 1]
    <3>1. sent \in Seq(Requests) /\ cin \in Seq(Arrivals)
      BY Zenon DEF Streams, ClientSide
    <3>2. Carries(sent, Head(cin), count + 1, 1)
      BY <2>2, <3>1, StreamsIdle, TailStarts, Zenon
    <3>3. PICK x : x = Head(cin)
      BY Zenon
    <3>4. /\ count + 1 \in 1..Len(sent)
          /\ x = [u |-> RequestUnits(sent[count + 1])[1], n |-> count + 1]
      BY <3>2, <3>3, Zenon DEF Carries
    <3>5. sent[count + 1] \in Requests
      BY <3>1, <3>4
    <3>6. RequestUnits(sent[count + 1])[1] = "head"
      BY <3>5, UnitsOf, Zenon
    <3> QED BY <3>3, <3>4, <3>6, Zenon
  <2> QED BY <2>1, <2>2, Zenon
<1> QED BY <1>1, ParsedInductive, StreamsInductive, PTL
=============================================================================
