--------------------------- MODULE ReverseProofs ----------------------------
(***************************************************************************)
(* Proofs about Reverse, for any number of control connections, external   *)
(* clients and reverse clients, and any limits.                            *)
(*                                                                         *)
(* A counter of the server is changed by one task and read by another, and *)
(* what it counts moves through a queue in between.  The invariant         *)
(* (ReverseInv) says of every connection where the server has it, and that *)
(* each counter is the number of connections or of external clients in     *)
(* certain places (ControlCount, GaugeCount, StreamCount).  It needs to    *)
(* know that the queue holds every queued connection once (QueueOf), and   *)
(* that an external client that was given a connection has it for itself   *)
(* (OwnersOf): otherwise the connection could be counted down twice.       *)
(*                                                                         *)
(* Each step moves at most one connection and one external client, and the *)
(* counts follow from the places it moves between (MoveCounts,             *)
(* ServedCounts).  Steps that only move a connection between places no     *)
(* counter looks at keep every count (QuietStep).                          *)
(***************************************************************************)
EXTENDS Reverse, FiniteSetTheorems, TLAPS
-----------------------------------------------------------------------------
(* Where the server has a connection that none of its counters counts. *)
Idle == {"Free", "Backlog", "Closed"}

Admitted  == {"Handshake", "Failed", "Accepted"}
Pooled    == Admitted \cup {"Queued", "Taken"}
Authentic == {"Accepted", "Queued", "Taken", "Relay"}

Where(cn, X) == {c \in Conns : cn[c].server \in X}
Number(cn, X) == Cardinality(Where(cn, X))
Served(ex) == {e \in Externals : ex[e].phase \in {"Waiting", "Taking", "Paired", "Left"}}

IsConn(r) ==
    r = [server |-> r.server, client |-> r.client, told |-> r.told, ended |-> r.ended,
         blocked |-> r.blocked]
IsConns(cn) == cn = [c \in Conns |-> cn[c]] /\ \A c \in Conns : IsConn(cn[c])
IsExts(ex) ==
    /\ ex = [e \in Externals |-> ex[e]]
    /\ \A e \in Externals : ex[e] = [phase |-> ex[e].phase, conn |-> ex[e].conn]
IsLoop(l) == l = [control |-> l.control, external |-> l.external, cancelled |-> l.cancelled]

(* The queue holds queued connections, each of them once and all of them.  *)
QueueOf(cn, ch) ==
    /\ ch \in Seq(Conns) /\ Number(cn, {"Queued"}) = Len(ch)
    /\ \A i \in 1..Len(ch) : cn[ch[i]].server = "Queued"
    /\ \A i, j \in 1..Len(ch) : ch[i] = ch[j] => i = j

(* An external client that was given a connection has it for itself. *)
Has(cn, x) ==
    /\ x.phase = "Taking" => \E c \in Conns : x.conn = {c} /\ cn[c].server = "Taken"
    /\ x.phase \in {"Paired", "Left"} => \E c \in Conns : x.conn = {c} /\ cn[c].server = "Relay"

Holding == {"Taking", "Paired", "Left"}

OwnersOf(cn, ex) ==
    /\ \A e \in Externals : Has(cn, ex[e])
    /\ \A e, f \in Externals :
          (ex[e].phase \in Holding /\ ex[f].phase \in Holding /\ ex[e].conn = ex[f].conn) => e = f

Limit(cf) == IF cf.controls = 0 THEN 1 ELSE cf.controls

ControlCount(cn, cf, ac) ==
    IF cf.framing = "native"
    THEN /\ ac = Number(cn, Pooled) + Number(cn, {"Excess"})
         /\ Number(cn, Pooled) <= cf.controls
    ELSE /\ ac = Number(cn, Admitted) + Number(cn, {"Excess"})
         /\ Number(cn, Admitted) <= Limit(cf)

GaugeCount(cn, cf, g) == cf.framing = "native" => g = Number(cn, Authentic)

StreamCount(ex, cf, as) ==
    cf.framing = "native" => as = Cardinality(Served(ex)) /\ as <= cf.streams

Structure ==
    /\ IsConns(conn) /\ IsExts(ext) /\ IsLoop(loop) /\ config \in Configs
    /\ QueueOf(conn, channel) /\ OwnersOf(conn, ext)

(* The inductive invariant. *)
ReverseInv ==
    /\ Structure
    /\ Serving => /\ ControlCount(conn, config, active_control)
                  /\ GaugeCount(conn, config, gauge)
                  /\ StreamCount(ext, config, active_streams)
-----------------------------------------------------------------------------
(* Counting connections and external clients. *)
LEMMA NumberNat ==
    ASSUME NEW cn, NEW X
    PROVE  Number(cn, X) \in Nat /\ IsFiniteSet(Where(cn, X))
<1>1. Where(cn, X) \subseteq Conns
  BY Zenon DEF Where
<1>2. IsFiniteSet(Where(cn, X))
  BY <1>1, ReverseAssumption, FS_Subset, Zenon
<1> QED BY <1>2, FS_CardinalityType, Zenon DEF Number

(* So are the external clients being served. *)
LEMMA ServedNat ==
    ASSUME NEW ex
    PROVE  Cardinality(Served(ex)) \in Nat /\ IsFiniteSet(Served(ex))
<1>1. Served(ex) \subseteq Externals
  BY Zenon DEF Served
<1>2. IsFiniteSet(Served(ex))
  BY <1>1, ReverseAssumption, FS_Subset, Zenon
<1> QED BY <1>2, FS_CardinalityType, Zenon

(* Only c is somewhere else. *)
Moved(cn, cn2, c) == \A b \in Conns : b # c => cn2[b].server = cn[b].server

(* A connection that enters a set of places is one more there. *)
LEMMA Joins ==
    ASSUME NEW cn, NEW cn2, NEW c \in Conns, Moved(cn, cn2, c), NEW X,
           cn[c].server \notin X, cn2[c].server \in X
    PROVE  Number(cn2, X) = Number(cn, X) + 1
<1>1. Where(cn2, X) = Where(cn, X) \cup {c} /\ c \notin Where(cn, X)
  BY Zenon DEF Where, Moved
<1>2. IsFiniteSet(Where(cn, X))
  BY NumberNat, Zenon
<1>3. Cardinality(Where(cn, X) \cup {c}) = Cardinality(Where(cn, X)) + 1
  BY <1>1, <1>2, FS_AddElement, Zenon
<1> QED BY <1>1, <1>3, Zenon DEF Number

(* A connection that leaves a set of places is one less there. *)
LEMMA Quits ==
    ASSUME NEW cn, NEW cn2, NEW c \in Conns, Moved(cn, cn2, c), NEW X,
           cn[c].server \in X, cn2[c].server \notin X
    PROVE  Number(cn2, X) = Number(cn, X) - 1
<1>1. Where(cn2, X) = Where(cn, X) \ {c} /\ c \in Where(cn, X)
  BY Zenon DEF Where, Moved
<1>2. IsFiniteSet(Where(cn, X))
  BY NumberNat, Zenon
<1>3. Cardinality(Where(cn, X) \ {c}) = Cardinality(Where(cn, X)) - 1
  BY <1>1, <1>2, FS_RemoveElement, Zenon
<1> QED BY <1>1, <1>3, Zenon DEF Number

Counts(cn, cn2, c, X) ==
    /\ (cn[c].server \notin X /\ cn2[c].server \in X) => Number(cn2, X) = Number(cn, X) + 1
    /\ (cn[c].server \in X /\ cn2[c].server \notin X) => Number(cn2, X) = Number(cn, X) - 1
    /\ (cn[c].server \in X <=> cn2[c].server \in X) => Number(cn2, X) = Number(cn, X)

(* The three things one moving connection can do to a count. *)
LEMMA MoveCounts ==
    ASSUME NEW cn, NEW cn2, NEW c \in Conns, Moved(cn, cn2, c)
    PROVE  \A X : Counts(cn, cn2, c, X)
<1> SUFFICES ASSUME NEW X PROVE Counts(cn, cn2, c, X)
  BY Zenon
<1>1. ASSUME cn[c].server \notin X, cn2[c].server \in X PROVE Number(cn2, X) = Number(cn, X) + 1
  BY <1>1, Joins, Zenon
<1>2. ASSUME cn[c].server \in X, cn2[c].server \notin X PROVE Number(cn2, X) = Number(cn, X) - 1
  BY <1>2, Quits, Zenon
<1>3. ASSUME cn[c].server \in X <=> cn2[c].server \in X PROVE Number(cn2, X) = Number(cn, X)
  <2>1. Where(cn2, X) = Where(cn, X)
    BY <1>3, Zenon DEF Where, Moved
  <2> QED BY <2>1, Zenon DEF Number
<1> QED BY <1>1, <1>2, <1>3, Zenon DEF Counts

(* Connections come and go where none is counted. *)
Quiet(cn, cn2) ==
    \A c \in Conns : \/ cn2[c].server = cn[c].server
                     \/ cn[c].server \in Idle /\ cn2[c].server \in Idle

(* Moves between idle places count for nothing. *)
LEMMA QuietCounts ==
    ASSUME NEW cn, NEW cn2, Quiet(cn, cn2), NEW X, X \cap Idle = {}
    PROVE  Number(cn2, X) = Number(cn, X)
<1>1. \A c \in Conns : cn2[c].server \in X <=> cn[c].server \in X
  BY Zenon DEF Quiet
<1>2. Where(cn2, X) = Where(cn, X)
  BY <1>1, Zenon DEF Where
<1> QED BY <1>2, Zenon DEF Number

(* No counter counts a connection in an idle place. *)
LEMMA Apart ==
    /\ Pooled \cap Idle = {} /\ Admitted \cap Idle = {} /\ Authentic \cap Idle = {}
    /\ {"Excess"} \cap Idle = {} /\ {"Queued"} \cap Idle = {}
    /\ "Queued" \notin Idle /\ "Taken" \notin Idle /\ "Relay" \notin Idle
  BY DEF Pooled, Admitted, Authentic, Idle
-----------------------------------------------------------------------------
(* One end of a connection is dropped. *)
LEMMA Leaving ==
    ASSUME IsConns(conn), NEW c \in Conns
    PROVE  /\ IsConn(ServerLeaves(c)) /\ ServerLeaves(c).server \in {"Closed", "Free"}
           /\ IsConn(ClientLeaves(c))
           /\ \/ ClientLeaves(c).server = conn[c].server
              \/ conn[c].server = "Closed" /\ ClientLeaves(c).server = "Free"
<1>1. /\ conn[c] = [server |-> conn[c].server, client |-> conn[c].client, told |-> conn[c].told,
                    ended |-> conn[c].ended, blocked |-> conn[c].blocked]
  BY Zenon DEF IsConns, IsConn
<1>2. Free.server = "Free" /\ IsConn(Free)
  BY Zenon DEF Free, IsConn
<1>3. PICK r : r = [conn[c] EXCEPT !.server = "Closed", !.ended = @ \ {"e2c", "c2e"},
                                   !.blocked = @ \ {"e2c", "c2e"}]
  BY Zenon
<1>4. r.server = "Closed" /\ IsConn(r)
  BY <1>1, <1>3, Zenon DEF IsConn
<1>5. ServerLeaves(c) = r \/ ServerLeaves(c) = Free
  BY <1>3, Zenon DEF ServerLeaves, Settled
<1>6. PICK s : s = [conn[c] EXCEPT !.client = "Gone", !.told = FALSE,
                                   !.ended = @ \ {"c2t", "t2c"}, !.blocked = @ \ {"c2t", "t2c"}]
  BY Zenon
<1>7. s.server = conn[c].server /\ IsConn(s)
  BY <1>1, <1>6, Zenon DEF IsConn
<1>8. ClientLeaves(c) = s \/ (s.server = "Closed" /\ ClientLeaves(c) = Free)
  BY <1>6, Zenon DEF ClientLeaves, Settled
<1> QED BY <1>2, <1>4, <1>5, <1>7, <1>8, Zenon

(* The server drops one connection, and no other one moves. *)
LEMMA LeaveMoves ==
    ASSUME IsConns(conn), NEW c \in Conns, conn' = [conn EXCEPT ![c] = ServerLeaves(c)]
    PROVE  IsConns(conn') /\ Moved(conn, conn', c) /\ conn'[c].server \in {"Closed", "Free"}
<1>1. conn = [b \in Conns |-> conn[b]] /\ \A b \in Conns : IsConn(conn[b])
  BY Zenon DEF IsConns
<1>2. conn' = [b \in Conns |-> IF b = c THEN ServerLeaves(c) ELSE conn[b]]
  BY <1>1, Zenon
<1>3. conn'[c] = ServerLeaves(c) /\ \A b \in Conns : b # c => conn'[b] = conn[b]
  BY <1>2, Zenon
<1>4. conn' = [b \in Conns |-> conn'[b]] /\ \A b \in Conns : IsConn(conn'[b])
  BY <1>1, <1>2, <1>3, Leaving, Zenon
<1> QED BY <1>3, <1>4, Leaving, Zenon DEF IsConns, Moved

(* The server moves one connection, and no other one. *)
LEMMA ServerMoves ==
    ASSUME IsConns(conn), NEW c \in Conns, NEW s,
           \/ conn' = Server(c, s)
           \/ \E t : conn' = [conn EXCEPT ![c].server = s, ![c].told = t]
    PROVE  IsConns(conn') /\ Moved(conn, conn', c) /\ conn'[c].server = s
<1>1. conn = [b \in Conns |-> conn[b]] /\ \A b \in Conns : IsConn(conn[b])
  BY Zenon DEF IsConns
<1>2. PICK t : \/ conn' = [conn EXCEPT ![c].server = s]
               \/ conn' = [conn EXCEPT ![c].server = s, ![c].told = t]
  BY Zenon DEF Server
<1>3. /\ conn[c] = [server |-> conn[c].server, client |-> conn[c].client, told |-> conn[c].told,
                    ended |-> conn[c].ended, blocked |-> conn[c].blocked]
  BY <1>1, Zenon DEF IsConn
<1>4. PICK r : conn' = [b \in Conns |-> IF b = c THEN r ELSE conn[b]] /\ IsConn(r) /\ r.server = s
  <2>a. PICK r : r = [conn[c] EXCEPT !.server = s]
    BY Zenon
  <2>1. r.server = s /\ IsConn(r)
    BY <1>3, <2>a, Zenon DEF IsConn
  <2>b. PICK q : q = [conn[c] EXCEPT !.server = s, !.told = t]
    BY Zenon
  <2>2. q.server = s /\ IsConn(q)
    BY <1>3, <2>b, Zenon DEF IsConn
  <2>3. CASE conn' = [conn EXCEPT ![c].server = s]
    <3>1. conn' = [b \in Conns |-> IF b = c THEN r ELSE conn[b]]
      BY <1>1, <2>a, <2>3, Zenon
    <3> QED BY <2>1, <3>1, Zenon
  <2>4. CASE conn' = [conn EXCEPT ![c].server = s, ![c].told = t]
    <3>1. conn' = [b \in Conns |-> IF b = c THEN q ELSE conn[b]]
      BY <1>1, <2>b, <2>4, Zenon
    <3> QED BY <2>2, <3>1, Zenon
  <2> QED BY <1>2, <2>3, <2>4, Zenon
<1>5. conn'[c] = r /\ \A b \in Conns : b # c => conn'[b] = conn[b]
  BY <1>4, Zenon
<1>6. conn' = [b \in Conns |-> conn'[b]] /\ \A b \in Conns : IsConn(conn'[b])
  BY <1>1, <1>4, <1>5, Zenon
<1> QED BY <1>4, <1>5, <1>6, Zenon DEF IsConns, Moved
-----------------------------------------------------------------------------
(* Every connection is free, every client away and every counter zero. *)
LEMMA ReverseInit == Init => ReverseInv
<1> SUFFICES ASSUME Init PROVE ReverseInv
  OBVIOUS
<1>1. conn = [c \in Conns |-> Free] /\ Free.server = "Free" /\ IsConn(Free)
  BY Zenon DEF Init, Free, IsConn
<1>2. IsConns(conn) /\ \A c \in Conns : conn[c].server = "Free"
  BY <1>1, Zenon DEF IsConns
<1>3. \A X : "Free" \notin X => Number(conn, X) = 0
  <2> SUFFICES ASSUME NEW X, "Free" \notin X PROVE Number(conn, X) = 0
    BY Zenon
  <2>1. Where(conn, X) = {}
    BY <1>2, Zenon DEF Where
  <2> QED BY <2>1, FS_EmptySet, Zenon DEF Number
<1>4. /\ "Free" \notin Pooled /\ "Free" \notin Admitted /\ "Free" \notin Authentic
      /\ "Free" \notin {"Excess"} /\ "Free" \notin {"Queued"}
  BY DEF Pooled, Admitted, Authentic
<1>5. IsExts(ext) /\ \A e \in Externals : ext[e].phase \in {"Away", "Done"}
  BY Zenon DEF Init, IsExts
<1>6. {"Away", "Done"} \cap Holding = {} /\ "Away" \notin {"Waiting", "Taking", "Paired", "Left"}
      /\ "Done" \notin {"Waiting", "Taking", "Paired", "Left"}
      /\ "Away" \notin {"Paired", "Left"} /\ "Away" # "Taking"
      /\ "Done" \notin {"Paired", "Left"} /\ "Done" # "Taking"
  BY DEF Holding
<1>7. OwnersOf(conn, ext)
  BY <1>5, <1>6, Zenon DEF OwnersOf, Has
<1>8. Served(ext) = {}
  BY <1>5, <1>6, Zenon DEF Served
<1>9. Cardinality(Served(ext)) = 0
  BY <1>8, FS_EmptySet, Zenon
<1>10. QueueOf(conn, channel)
  <2>1. channel = <<>> /\ Number(conn, {"Queued"}) = 0
    BY <1>3, <1>4, Zenon DEF Init
  <2>2. channel \in Seq(Conns) /\ Len(channel) = 0 /\ 1..Len(channel) = {}
    BY <2>1
  <2> QED BY <2>1, <2>2, Zenon DEF QueueOf
<1>11. config \in Configs /\ config.controls \in Nat /\ config.streams \in Nat
  BY ReverseAssumption, Zenon DEF Init
<1>12. /\ 0 = 0 + 0 /\ 0 <= config.controls /\ 0 <= config.streams /\ 0 <= Limit(config)
  BY <1>11 DEF Limit
<1>13. ControlCount(conn, config, active_control) /\ GaugeCount(conn, config, gauge)
       /\ StreamCount(ext, config, active_streams)
  <2>1. active_control = 0 /\ gauge = 0 /\ active_streams = 0
    BY Zenon DEF Init
  <2>2. /\ Number(conn, Pooled) = 0 /\ Number(conn, Admitted) = 0 /\ Number(conn, {"Excess"}) = 0
        /\ Number(conn, Authentic) = 0
    BY <1>3, <1>4, Zenon
  <2> QED BY <1>9, <1>12, <2>1, <2>2, Zenon DEF ControlCount, GaugeCount, StreamCount
<1>14. IsLoop(loop)
  BY Zenon DEF Init, IsLoop
<1> QED BY <1>2, <1>5, <1>7, <1>10, <1>11, <1>13, <1>14, Zenon DEF ReverseInv, Structure

(* Connections that are not counted come and go, and the counters, the     *)
(* queue and the external clients are left as they are.                    *)
LEMMA QuietStep ==
    ASSUME ReverseInv, IsConns(conn'), Quiet(conn, conn'),
           UNCHANGED <<config, channel, ext, active_control, active_streams, gauge>>,
           IsLoop(loop'), ~loop'.cancelled => ~loop.cancelled
    PROVE  ReverseInv'
<1>1. Structure /\ QueueOf(conn, channel) /\ OwnersOf(conn, ext)
  BY Zenon DEF ReverseInv, Structure
<1>2. /\ Number(conn', Pooled) = Number(conn, Pooled)
      /\ Number(conn', Admitted) = Number(conn, Admitted)
      /\ Number(conn', Authentic) = Number(conn, Authentic)
      /\ Number(conn', {"Excess"}) = Number(conn, {"Excess"})
      /\ Number(conn', {"Queued"}) = Number(conn, {"Queued"})
  <2>1. \A X : X \cap Idle = {} => Number(conn', X) = Number(conn, X)
    BY QuietCounts, Zenon
  <2> QED BY <2>1, Apart, Zenon
<1>3. \A c \in Conns : \A s \in {"Queued", "Taken", "Relay"} :
         conn[c].server = s => conn'[c].server = s
  BY Apart, Zenon DEF Quiet
<1>4. \A i \in 1..Len(channel) : channel[i] \in Conns
  <2>1. channel \in Seq(Conns)
    BY <1>1, Zenon DEF QueueOf
  <2> QED BY <2>1
<1>5. QueueOf(conn', channel')
  <2>1. \A i \in 1..Len(channel) : conn'[channel[i]].server = "Queued"
    BY <1>1, <1>3, <1>4, Zenon DEF QueueOf
  <2> QED BY <1>1, <1>2, <2>1, Zenon DEF QueueOf
<1>6. OwnersOf(conn', ext')
  BY <1>1, <1>3, Zenon DEF OwnersOf, Has
<1>7. Structure'
  BY <1>1, <1>5, <1>6, Zenon DEF Structure
<1>8. ASSUME ControlCount(conn, config, active_control) /\ GaugeCount(conn, config, gauge)
      PROVE  ControlCount(conn', config', active_control') /\ GaugeCount(conn', config', gauge')
  BY <1>2, <1>8, Zenon DEF ControlCount, GaugeCount
<1> QED BY <1>7, <1>8, Zenon DEF ReverseInv, Serving

(* run_session returns. *)
LEMMA SessionOverQuiet ==
    ASSUME IsConns(conn), NEW k, NEW ph, SessionOver(k, ph)
    PROVE  IsConns(conn') /\ Quiet(conn, conn')
<1>1. conn' = [c \in Conns |-> IF c \in client[k].conn THEN ClientLeaves(c) ELSE conn[c]]
  BY Zenon DEF SessionOver
<1>2. "Closed" \in Idle /\ "Free" \in Idle
  BY DEF Idle
<1>3. ASSUME NEW c \in Conns
      PROVE  /\ IsConn(conn'[c])
             /\ \/ conn'[c].server = conn[c].server
                \/ conn[c].server \in Idle /\ conn'[c].server \in Idle
  <2>1. CASE c \in client[k].conn
    <3>1. conn'[c] = ClientLeaves(c)
      BY <1>1, <2>1, Zenon
    <3> QED BY <1>2, <3>1, Leaving, Zenon
  <2>2. CASE c \notin client[k].conn
    <3>1. conn'[c] = conn[c]
      BY <1>1, <2>2, Zenon
    <3> QED BY <3>1, Zenon DEF IsConns
  <2> QED BY <2>1, <2>2, Zenon
<1>4. conn' = [c \in Conns |-> conn'[c]]
  BY <1>1, Zenon
<1> QED BY <1>3, <1>4, Zenon DEF IsConns, Quiet

(* The clients' loops, and the directions of the relays. *)
LEMMA ClientSteps ==
    ASSUME ReverseInv,
           \/ \E k \in Clients : ClientStep(k) \/ CancelClient(k)
           \/ \E c \in Conns, d \in Directions :
                 DirectionEnds(c, d) \/ DirectionBreaks(c, d) \/ WriteBlocks(c, d) \/ WriteGoesOn(c, d)
           \/ UNCHANGED vars
    PROVE  ReverseInv'
<1>k. ASSUME NEW k \in Clients, ClientStep(k) \/ CancelClient(k)
      PROVE  /\ UNCHANGED <<config, channel, ext, loop, active_control, active_streams, gauge>>
             /\ \/ conn' = conn
                \/ \E ph : SessionOver(k, ph)
                \/ Dial(k) /\ conn' # conn
                \/ \E c : conn' = [conn EXCEPT ![c].told = FALSE]
  <2>1. UNCHANGED <<config, channel, ext, loop, active_control, active_streams, gauge>>
    BY <1>k, Zenon DEF ClientStep, CancelClient, Dial, ReadHandshake, ConnectTarget,
       ClientRelayReturns, BackoffEnds, serverVars, counters
  <2> QED BY <1>k, <2>1, Zenon DEF ClientStep, CancelClient, ReadHandshake, ConnectTarget,
       ClientRelayReturns, BackoffEnds
<1>d. ASSUME NEW c \in Conns, NEW d \in Directions,
             DirectionEnds(c, d) \/ DirectionBreaks(c, d) \/ WriteBlocks(c, d) \/ WriteGoesOn(c, d)
      PROVE  /\ UNCHANGED <<config, channel, ext, loop, active_control, active_streams, gauge>>
             /\ \/ conn' = [conn EXCEPT ![c].ended = @ \cup {d}, ![c].blocked = @ \ {d}]
                \/ \E X : conn' = [conn EXCEPT ![c].blocked = X]
  BY <1>d, Zenon DEF DirectionEnds, DirectionBreaks, WriteBlocks, WriteGoesOn, Ends,
     serverVars, counters
<1>v. ASSUME UNCHANGED vars
      PROVE  /\ UNCHANGED <<config, channel, ext, loop, active_control, active_streams, gauge>>
             /\ conn' = conn
  BY <1>v, Zenon DEF vars, serverVars, counters
<1>0. IsConns(conn) /\ IsLoop(loop)
  BY Zenon DEF ReverseInv, Structure
<1>1. UNCHANGED <<config, channel, ext, loop, active_control, active_streams, gauge>>
  BY <1>k, <1>d, <1>v, Zenon
<1>2. Quiet(conn, conn) /\ IsConns(conn)
  BY <1>0, Zenon DEF Quiet
<1>3. ASSUME NEW c, NEW r, conn' = [b \in Conns |-> IF b = c THEN r ELSE conn[b]],
             c \in Conns => /\ IsConn(r)
                            /\ \/ r.server = conn[c].server
                               \/ conn[c].server \in Idle /\ r.server \in Idle
      PROVE  IsConns(conn') /\ Quiet(conn, conn')
  <2>1. conn = [b \in Conns |-> conn[b]] /\ \A b \in Conns : IsConn(conn[b])
    BY <1>0, Zenon DEF IsConns
  <2>3. \A b \in Conns : (b = c => conn'[b] = r) /\ (b # c => conn'[b] = conn[b])
    BY <1>3, Zenon
  <2>4. conn' = [b \in Conns |-> conn'[b]]
    BY <1>3, Zenon
  <2> QED BY <1>3, <2>1, <2>3, <2>4, Zenon DEF IsConns, Quiet
<1>4. ASSUME NEW c \in Conns PROVE
        conn[c] = [server |-> conn[c].server, client |-> conn[c].client, told |-> conn[c].told,
                   ended |-> conn[c].ended, blocked |-> conn[c].blocked]
  BY <1>0, Zenon DEF IsConns, IsConn
<1>9. conn = [b \in Conns |-> conn[b]]
  BY <1>0, Zenon DEF IsConns
<1>5. \/ conn' = conn
      \/ \E k, ph : SessionOver(k, ph)
      \/ \E k \in Clients : Dial(k) /\ conn' # conn
      \/ \E c : conn' = [conn EXCEPT ![c].told = FALSE]
      \/ \E c, d : conn' = [conn EXCEPT ![c].ended = @ \cup {d}, ![c].blocked = @ \ {d}]
      \/ \E c, X : conn' = [conn EXCEPT ![c].blocked = X]
  BY <1>k, <1>d, <1>v, Zenon
<1>6. IsConns(conn') /\ Quiet(conn, conn')
  <2>1. ASSUME NEW k \in Clients, Dial(k), conn' # conn PROVE IsConns(conn') /\ Quiet(conn, conn')
    <3>1. At("Free") # {} /\ conn' = [conn EXCEPT ![CHOOSE c \in At("Free") : TRUE] =
                                        [Free EXCEPT !.server = "Backlog", !.client = "Open"]]
      BY <2>1, Zenon DEF Dial
    <3>2. PICK c : c = CHOOSE b \in At("Free") : TRUE
      BY Zenon
    <3>3. c \in At("Free")
      BY <3>1, <3>2, Zenon
    <3>4. PICK r : r = [Free EXCEPT !.server = "Backlog", !.client = "Open"]
      BY Zenon
    <3>5. r.server = "Backlog" /\ IsConn(r)
      BY <3>4, Zenon DEF Free, IsConn
    <3>6. "Backlog" \in Idle /\ "Free" \in Idle
      BY DEF Idle
    <3>7. conn' = [b \in Conns |-> IF b = c THEN r ELSE conn[b]]
      BY <1>9, <3>1, <3>2, <3>4, Zenon
    <3> QED BY <1>3, <3>3, <3>5, <3>6, <3>7, Zenon DEF At
  <2>2. ASSUME NEW c, conn' = [conn EXCEPT ![c].told = FALSE]
        PROVE  IsConns(conn') /\ Quiet(conn, conn')
    <3>1. PICK r : r = [conn[c] EXCEPT !.told = FALSE]
      BY Zenon
    <3>2. ASSUME c \in Conns PROVE r.server = conn[c].server /\ IsConn(r)
      <4>1. conn[c] = [server |-> conn[c].server, client |-> conn[c].client,
                       told |-> conn[c].told, ended |-> conn[c].ended, blocked |-> conn[c].blocked]
        BY <1>4, <3>2, Zenon
      <4> QED BY <3>1, <4>1, Zenon DEF IsConn
    <3>3. conn' = [b \in Conns |-> IF b = c THEN r ELSE conn[b]]
      BY <1>9, <2>2, <3>1, Zenon
    <3> QED BY <1>3, <3>2, <3>3, Zenon
  <2>3. ASSUME NEW c, NEW d, conn' = [conn EXCEPT ![c].ended = @ \cup {d}, ![c].blocked = @ \ {d}]
        PROVE  IsConns(conn') /\ Quiet(conn, conn')
    <3>1. PICK r : r = [conn[c] EXCEPT !.ended = @ \cup {d}, !.blocked = @ \ {d}]
      BY Zenon
    <3>2. ASSUME c \in Conns PROVE r.server = conn[c].server /\ IsConn(r)
      <4>1. conn[c] = [server |-> conn[c].server, client |-> conn[c].client,
                       told |-> conn[c].told, ended |-> conn[c].ended, blocked |-> conn[c].blocked]
        BY <1>4, <3>2, Zenon
      <4> QED BY <3>1, <4>1, Zenon DEF IsConn
    <3>3. conn' = [b \in Conns |-> IF b = c THEN r ELSE conn[b]]
      BY <1>9, <2>3, <3>1, Zenon
    <3> QED BY <1>3, <3>2, <3>3, Zenon
  <2>4. ASSUME NEW c, NEW X, conn' = [conn EXCEPT ![c].blocked = X]
        PROVE  IsConns(conn') /\ Quiet(conn, conn')
    <3>1. PICK r : r = [conn[c] EXCEPT !.blocked = X]
      BY Zenon
    <3>2. ASSUME c \in Conns PROVE r.server = conn[c].server /\ IsConn(r)
      <4>1. conn[c] = [server |-> conn[c].server, client |-> conn[c].client,
                       told |-> conn[c].told, ended |-> conn[c].ended, blocked |-> conn[c].blocked]
        BY <1>4, <3>2, Zenon
      <4> QED BY <3>1, <4>1, Zenon DEF IsConn
    <3>3. conn' = [b \in Conns |-> IF b = c THEN r ELSE conn[b]]
      BY <1>9, <2>4, <3>1, Zenon
    <3> QED BY <1>3, <3>2, <3>3, Zenon
  <2> QED BY <1>0, <1>2, <1>5, <2>1, <2>2, <2>3, <2>4, SessionOverQuiet, Zenon
<1>7. IsLoop(loop') /\ (~loop'.cancelled => ~loop.cancelled)
  BY <1>0, <1>1, Zenon
<1>8. UNCHANGED <<config, channel, ext, active_control, active_streams, gauge>>
  BY <1>1, Zenon
<1> QED BY <1>6, <1>7, <1>8, QuietStep, Zenon

(* The server is cancelled, and its control loop stops. *)
LEMMA CancelSteps ==
    ASSUME ReverseInv, CancelServer \/ StopControl
    PROVE  ReverseInv'
<1>0. IsConns(conn) /\ IsLoop(loop)
  BY Zenon DEF ReverseInv, Structure
<1>1. UNCHANGED <<config, channel, ext, active_control, active_streams, gauge>>
  BY Zenon DEF CancelServer, StopControl, counters
<1>2. loop = [control |-> loop.control, external |-> loop.external, cancelled |-> loop.cancelled]
  BY <1>0, Zenon DEF IsLoop
<1>3. CASE CancelServer
  <2>1. loop' = [loop EXCEPT !.cancelled = TRUE] /\ conn' = conn
    BY <1>3, Zenon DEF CancelServer
  <2>2. IsLoop(loop') /\ loop'.cancelled = TRUE
    BY <1>2, <2>1, Zenon DEF IsLoop
  <2>3. Quiet(conn, conn') /\ IsConns(conn')
    BY <1>0, <2>1, Zenon DEF Quiet
  <2> QED BY <1>1, <2>2, <2>3, QuietStep, Zenon
<1>4. CASE StopControl
  <2>1. /\ loop' = [loop EXCEPT !.control = "Stopped"]
        /\ conn' = [c \in Conns |-> IF conn[c].server = "Backlog" THEN ServerLeaves(c) ELSE conn[c]]
    BY <1>4, Zenon DEF StopControl
  <2>2. IsLoop(loop') /\ loop'.cancelled = loop.cancelled
    BY <1>2, <2>1, Zenon DEF IsLoop
  <2>3. "Backlog" \in Idle /\ "Closed" \in Idle /\ "Free" \in Idle
    BY DEF Idle
  <2>4. ASSUME NEW c \in Conns
        PROVE  /\ IsConn(conn'[c])
               /\ \/ conn'[c].server = conn[c].server
                  \/ conn[c].server \in Idle /\ conn'[c].server \in Idle
    <3>1. CASE conn[c].server = "Backlog"
      <4>1. conn'[c] = ServerLeaves(c)
        BY <2>1, <3>1, Zenon
      <4> QED BY <1>0, <2>3, <3>1, <4>1, Leaving, Zenon
    <3>2. CASE conn[c].server # "Backlog"
      <4>1. conn'[c] = conn[c]
        BY <2>1, <3>2, Zenon
      <4> QED BY <1>0, <4>1, Zenon DEF IsConns
    <3> QED BY <3>1, <3>2, Zenon
  <2>5. conn' = [c \in Conns |-> conn'[c]]
    BY <2>1, Zenon
  <2>6. IsConns(conn') /\ Quiet(conn, conn')
    BY <2>4, <2>5, Zenon DEF IsConns, Quiet
  <2> QED BY <1>1, <2>2, <2>6, QuietStep, Zenon
<1> QED BY <1>3, <1>4, Zenon
-----------------------------------------------------------------------------
(* What the counters become when one connection moves on. *)
LEMMA ControlSame ==
    ASSUME NEW cn, NEW cn2, NEW c \in Conns, Moved(cn, cn2, c), NEW cf, NEW ac,
           cn[c].server \in Pooled <=> cn2[c].server \in Pooled,
           cn[c].server \in Admitted <=> cn2[c].server \in Admitted,
           cn[c].server \in {"Excess"} <=> cn2[c].server \in {"Excess"},
           ControlCount(cn, cf, ac)
    PROVE  ControlCount(cn2, cf, ac)
<1>a. \A X : Counts(cn, cn2, c, X)
  BY MoveCounts, Zenon
<1>1. Number(cn2, Pooled) = Number(cn, Pooled)
  BY <1>a, Zenon DEF Counts
<1>2. Number(cn2, Admitted) = Number(cn, Admitted)
  BY <1>a, Zenon DEF Counts
<1>3. Number(cn2, {"Excess"}) = Number(cn, {"Excess"})
  BY <1>a, Zenon DEF Counts
<1> QED BY <1>1, <1>2, <1>3, Zenon DEF ControlCount

(* A connection is no longer counted. *)
LEMMA ControlLess ==
    ASSUME NEW cn, NEW cn2, NEW c \in Conns, Moved(cn, cn2, c), NEW cf \in Configs, NEW ac,
           cn[c].server \in Admitted, cn2[c].server \in {"Closed", "Free"},
           ControlCount(cn, cf, ac)
    PROVE  ControlCount(cn2, cf, ac - 1)
<1>a. \A X : Counts(cn, cn2, c, X)
  BY MoveCounts, Zenon
<1>0. /\ cn[c].server \in Pooled /\ cn[c].server \notin {"Excess"}
      /\ cn2[c].server \notin Pooled /\ cn2[c].server \notin Admitted
      /\ cn2[c].server \notin {"Excess"}
  BY DEF Pooled, Admitted
<1>1. Number(cn2, Pooled) = Number(cn, Pooled) - 1
  BY <1>0, <1>a, Zenon DEF Counts
<1>2. Number(cn2, Admitted) = Number(cn, Admitted) - 1
  BY <1>0, <1>a, Zenon DEF Counts
<1>3. Number(cn2, {"Excess"}) = Number(cn, {"Excess"})
  BY <1>0, <1>a, Zenon DEF Counts
<1>4. /\ Number(cn, Pooled) \in Nat /\ Number(cn, Admitted) \in Nat
      /\ Number(cn, {"Excess"}) \in Nat
  BY NumberNat, Zenon
<1>5. cf.controls \in Nat /\ Limit(cf) \in Nat
  <2>1. cf.controls \in Nat
    BY ReverseAssumption, Zenon
  <2> QED BY <2>1 DEF Limit
<1>6. \A a, e, m \in Nat : a - 1 + e = (a + e) - 1 /\ (a <= m => a - 1 <= m)
  OBVIOUS
<1>7. CASE cf.framing = "native"
  <2>1. ac = Number(cn, Pooled) + Number(cn, {"Excess"}) /\ Number(cn, Pooled) <= cf.controls
    BY <1>7, Zenon DEF ControlCount
  <2>2. /\ ac - 1 = Number(cn2, Pooled) + Number(cn2, {"Excess"})
        /\ Number(cn2, Pooled) <= cf.controls
    BY <1>1, <1>3, <1>4, <1>5, <1>6, <2>1
  <2> QED BY <1>7, <2>2, Zenon DEF ControlCount
<1>8. CASE cf.framing # "native"
  <2>1. ac = Number(cn, Admitted) + Number(cn, {"Excess"}) /\ Number(cn, Admitted) <= Limit(cf)
    BY <1>8, Zenon DEF ControlCount
  <2>2. /\ ac - 1 = Number(cn2, Admitted) + Number(cn2, {"Excess"})
        /\ Number(cn2, Admitted) <= Limit(cf)
    BY <1>2, <1>3, <1>4, <1>5, <1>6, <2>1
  <2> QED BY <1>8, <2>2, Zenon DEF ControlCount
<1> QED BY <1>7, <1>8, Zenon

(* A rejected connection. *)
LEMMA ExcessLess ==
    ASSUME NEW cn, NEW cn2, NEW c \in Conns, Moved(cn, cn2, c), NEW cf, NEW ac,
           cn[c].server = "Excess", cn2[c].server \in {"Closed", "Free"},
           ControlCount(cn, cf, ac)
    PROVE  ControlCount(cn2, cf, ac - 1)
<1>a. \A X : Counts(cn, cn2, c, X)
  BY MoveCounts, Zenon
<1>0. /\ cn[c].server \notin Pooled /\ cn[c].server \notin Admitted
      /\ cn2[c].server \notin Pooled /\ cn2[c].server \notin Admitted
      /\ cn[c].server \in {"Excess"} /\ cn2[c].server \notin {"Excess"}
  BY DEF Pooled, Admitted
<1>1. Number(cn2, Pooled) = Number(cn, Pooled)
  BY <1>0, <1>a, Zenon DEF Counts
<1>2. Number(cn2, Admitted) = Number(cn, Admitted)
  BY <1>0, <1>a, Zenon DEF Counts
<1>3. Number(cn2, {"Excess"}) = Number(cn, {"Excess"}) - 1
  BY <1>0, <1>a, Zenon DEF Counts
<1>4. /\ Number(cn, Pooled) \in Nat /\ Number(cn, Admitted) \in Nat
      /\ Number(cn, {"Excess"}) \in Nat
  BY NumberNat, Zenon
<1>5. \A a, e \in Nat : a + (e - 1) = (a + e) - 1
  OBVIOUS
<1> QED BY <1>1, <1>2, <1>3, <1>4, <1>5, Zenon DEF ControlCount

(* A connection comes out of the backlog. *)
LEMMA ControlMore ==
    ASSUME NEW cn, NEW cn2, NEW c \in Conns, Moved(cn, cn2, c), NEW cf \in Configs, NEW ac,
           cn[c].server = "Backlog", ControlCount(cn, cf, ac),
           \/ cn2[c].server = "Excess"
           \/ /\ cn2[c].server = "Handshake"
              /\ ac < IF cf.framing = "native" THEN cf.controls ELSE Limit(cf)
    PROVE  ControlCount(cn2, cf, ac + 1)
<1>a. \A X : Counts(cn, cn2, c, X)
  BY MoveCounts, Zenon
<1>0. /\ cn[c].server \notin Pooled /\ cn[c].server \notin Admitted
      /\ cn[c].server \notin {"Excess"}
  BY DEF Pooled, Admitted
<1>4. /\ Number(cn, Pooled) \in Nat /\ Number(cn, Admitted) \in Nat
      /\ Number(cn, {"Excess"}) \in Nat
  BY NumberNat, Zenon
<1>5. cf.controls \in Nat /\ Limit(cf) \in Nat
  <2>1. cf.controls \in Nat
    BY ReverseAssumption, Zenon
  <2> QED BY <2>1 DEF Limit
<1>7. CASE cn2[c].server = "Excess"
  <2>0. /\ cn2[c].server \notin Pooled /\ cn2[c].server \notin Admitted
        /\ cn2[c].server \in {"Excess"}
    BY <1>7 DEF Pooled, Admitted
  <2>1. Number(cn2, Pooled) = Number(cn, Pooled)
    BY <1>0, <2>0, <1>a, Zenon DEF Counts
  <2>2. Number(cn2, Admitted) = Number(cn, Admitted)
    BY <1>0, <2>0, <1>a, Zenon DEF Counts
  <2>3. Number(cn2, {"Excess"}) = Number(cn, {"Excess"}) + 1
    BY <1>0, <2>0, <1>a, Zenon DEF Counts
  <2>4. CASE cf.framing = "native"
    <3>1. ac = Number(cn, Pooled) + Number(cn, {"Excess"}) /\ Number(cn, Pooled) <= cf.controls
      BY <2>4, Zenon DEF ControlCount
    <3>2. ac + 1 = Number(cn2, Pooled) + Number(cn2, {"Excess"})
      BY <1>4, <2>1, <2>3, <3>1
    <3> QED BY <2>1, <2>4, <3>1, <3>2, Zenon DEF ControlCount
  <2>5. CASE cf.framing # "native"
    <3>1. ac = Number(cn, Admitted) + Number(cn, {"Excess"}) /\ Number(cn, Admitted) <= Limit(cf)
      BY <2>5, Zenon DEF ControlCount
    <3>2. ac + 1 = Number(cn2, Admitted) + Number(cn2, {"Excess"})
      BY <1>4, <2>2, <2>3, <3>1
    <3> QED BY <2>2, <2>5, <3>1, <3>2, Zenon DEF ControlCount
  <2> QED BY <2>4, <2>5, Zenon
<1>8. CASE /\ cn2[c].server = "Handshake"
           /\ ac < IF cf.framing = "native" THEN cf.controls ELSE Limit(cf)
  <2>0. /\ cn2[c].server \in Pooled /\ cn2[c].server \in Admitted
        /\ cn2[c].server \notin {"Excess"}
    BY <1>8 DEF Pooled, Admitted
  <2>1. Number(cn2, Pooled) = Number(cn, Pooled) + 1
    BY <1>0, <2>0, <1>a, Zenon DEF Counts
  <2>2. Number(cn2, Admitted) = Number(cn, Admitted) + 1
    BY <1>0, <2>0, <1>a, Zenon DEF Counts
  <2>3. Number(cn2, {"Excess"}) = Number(cn, {"Excess"})
    BY <1>0, <2>0, <1>a, Zenon DEF Counts
  <2>4. CASE cf.framing = "native"
    <3>1. ac = Number(cn, Pooled) + Number(cn, {"Excess"}) /\ ac < cf.controls
      BY <1>8, <2>4, Zenon DEF ControlCount
    <3>2. ac + 1 = Number(cn2, Pooled) + Number(cn2, {"Excess"})
      BY <1>4, <2>1, <2>3, <3>1
    <3>3. Number(cn2, Pooled) <= cf.controls
      BY <1>4, <1>5, <2>1, <3>1
    <3> QED BY <2>4, <3>2, <3>3, Zenon DEF ControlCount
  <2>5. CASE cf.framing # "native"
    <3>1. ac = Number(cn, Admitted) + Number(cn, {"Excess"}) /\ ac < Limit(cf)
      BY <1>8, <2>5, Zenon DEF ControlCount
    <3>2. ac + 1 = Number(cn2, Admitted) + Number(cn2, {"Excess"})
      BY <1>4, <2>2, <2>3, <3>1
    <3>3. Number(cn2, Admitted) <= Limit(cf)
      BY <1>4, <1>5, <2>2, <3>1
    <3> QED BY <2>5, <3>2, <3>3, Zenon DEF ControlCount
  <2> QED BY <2>4, <2>5, Zenon
<1> QED BY <1>7, <1>8, Zenon
-----------------------------------------------------------------------------
(* A connection that is neither queued nor handed out moves on. *)
LEMMA MoveFrame ==
    ASSUME Structure, NEW c \in Conns, IsConns(conn'), Moved(conn, conn', c),
           conn[c].server \notin {"Queued", "Taken", "Relay"}, conn'[c].server # "Queued",
           UNCHANGED <<config, channel, ext>>, IsLoop(loop')
    PROVE  Structure'
<1>1. QueueOf(conn, channel) /\ OwnersOf(conn, ext)
  BY Zenon DEF Structure
<1>2. \A b \in Conns : \A s \in {"Queued", "Taken", "Relay"} :
         conn[b].server = s => conn'[b].server = s
  BY Zenon DEF Moved
<1>3. channel \in Seq(Conns)
  BY <1>1, Zenon DEF QueueOf
<1>4. \A i \in 1..Len(channel) : channel[i] \in Conns
  BY <1>3
<1>5. \A i \in 1..Len(channel) : conn'[channel[i]].server = "Queued"
  BY <1>1, <1>2, <1>4, Zenon DEF QueueOf
<1>6. Number(conn', {"Queued"}) = Number(conn, {"Queued"})
  <2>1. \A X : Counts(conn, conn', c, X)
    BY MoveCounts, Zenon
  <2>2. conn[c].server \notin {"Queued"} /\ conn'[c].server \notin {"Queued"}
    BY Zenon
  <2> QED BY <2>1, <2>2, Zenon DEF Counts
<1>7. QueueOf(conn', channel')
  BY <1>1, <1>5, <1>6, Zenon DEF QueueOf
<1>8. OwnersOf(conn', ext')
  BY <1>1, <1>2, Zenon DEF OwnersOf, Has
<1> QED BY <1>7, <1>8, Zenon DEF Structure

(* The control loop and the handler, up to where the connection is queued. *)
LEMMA ControlSteps ==
    ASSUME ReverseInv, NEW c \in Conns,
           \/ AcceptControl(c) \/ RejectControl(c) \/ Authenticate(c) \/ ReleaseFailed(c)
           \/ HandshakeFails(c)
    PROVE  ReverseInv'
<1>0. /\ Structure /\ IsConns(conn) /\ IsLoop(loop) /\ config \in Configs
      /\ ~loop.cancelled => /\ ControlCount(conn, config, active_control)
                            /\ GaugeCount(conn, config, gauge)
                            /\ StreamCount(ext, config, active_streams)
  BY Zenon DEF ReverseInv, Structure, Serving
<1>1. UNCHANGED <<config, channel, ext, active_streams>>
  BY Zenon DEF AcceptControl, RejectControl, Authenticate, ReleaseFailed, HandshakeFails, counters,
     serverVars
<1>2. IsLoop(loop') /\ loop'.cancelled = loop.cancelled
  <2>1. loop' = loop \/ \E s : loop' = [loop EXCEPT !.control = s]
    BY Zenon DEF AcceptControl, RejectControl, Authenticate, ReleaseFailed, HandshakeFails,
       serverVars
  <2>2. loop = [control |-> loop.control, external |-> loop.external, cancelled |-> loop.cancelled]
    BY <1>0, Zenon DEF IsLoop
  <2>3. ASSUME NEW s, loop' = [loop EXCEPT !.control = s]
        PROVE  IsLoop(loop') /\ loop'.cancelled = loop.cancelled
    BY <2>2, <2>3, Zenon DEF IsLoop
  <2> QED BY <1>0, <2>1, <2>3, Zenon
<1>3. ASSUME IsConns(conn'), Moved(conn, conn', c),
             conn[c].server \notin {"Queued", "Taken", "Relay"}, conn'[c].server # "Queued",
             ~loop.cancelled => /\ ControlCount(conn', config, active_control')
                                /\ GaugeCount(conn', config, gauge')
      PROVE  ReverseInv'
  <2>1. Structure'
    BY <1>0, <1>1, <1>2, <1>3, MoveFrame, Zenon
  <2> QED BY <1>0, <1>1, <1>2, <1>3, <2>1, Zenon DEF ReverseInv, Serving
<1>4. CASE AcceptControl(c)
  <2>1. /\ conn[c].server = "Backlog" /\ active_control' = active_control + 1 /\ gauge' = gauge
        /\ \/ Admits(active_control) /\ conn' = Server(c, "Handshake")
           \/ conn' = Server(c, "Excess")
    BY <1>4, Zenon DEF AcceptControl
  <2>2. PICK s \in {"Handshake", "Excess"} :
           /\ conn' = Server(c, s) /\ (s = "Handshake" => Admits(active_control))
    <3>1. "Handshake" \in {"Handshake", "Excess"} /\ "Excess" \in {"Handshake", "Excess"}
          /\ "Excess" # "Handshake"
      OBVIOUS
    <3> QED BY <2>1, <3>1, Zenon
  <2>3. IsConns(conn') /\ Moved(conn, conn', c) /\ conn'[c].server = s
    BY <1>0, <2>2, ServerMoves, Zenon
  <2>4. /\ "Backlog" \notin {"Queued", "Taken", "Relay"} /\ s # "Queued"
        /\ "Backlog" \notin Authentic /\ s \notin Authentic
    BY DEF Authentic
  <2>5. s = "Handshake" =>
          active_control < IF config.framing = "native" THEN config.controls ELSE Limit(config)
    BY <2>2, Zenon DEF Admits, Native, Limit
  <2>6. ControlCount(conn, config, active_control) => ControlCount(conn', config, active_control')
    BY <1>0, <2>1, <2>2, <2>3, <2>5, ControlMore, Zenon
  <2>7. Number(conn', Authentic) = Number(conn, Authentic)
    <3>1. \A X : Counts(conn, conn', c, X)
      BY <2>3, MoveCounts, Zenon
    <3> QED BY <2>1, <2>3, <2>4, <3>1, Zenon DEF Counts
  <2>8. GaugeCount(conn, config, gauge) => GaugeCount(conn', config, gauge')
    BY <2>1, <2>7, Zenon DEF GaugeCount
  <2> QED BY <1>0, <1>3, <2>1, <2>3, <2>4, <2>6, <2>8, Zenon
<1>5. CASE RejectControl(c) \/ ReleaseFailed(c)
  <2>1. /\ conn[c].server \in {"Excess", "Failed"} /\ active_control' = active_control - 1
        /\ gauge' = gauge /\ conn' = [conn EXCEPT ![c] = ServerLeaves(c)]
    BY <1>5, Zenon DEF RejectControl, ReleaseFailed
  <2>2. IsConns(conn') /\ Moved(conn, conn', c) /\ conn'[c].server \in {"Closed", "Free"}
    BY <1>0, <2>1, LeaveMoves, Zenon
  <2>3. /\ conn[c].server \notin {"Queued", "Taken", "Relay"} /\ conn'[c].server # "Queued"
        /\ conn[c].server \notin Authentic /\ conn'[c].server \notin Authentic
        /\ conn[c].server = "Excess" \/ conn[c].server \in Admitted
    BY <2>1, <2>2 DEF Authentic, Admitted
  <2>4. ControlCount(conn, config, active_control) => ControlCount(conn', config, active_control')
    <3>1. CASE conn[c].server = "Excess"
      BY <2>1, <2>2, <3>1, ExcessLess, Zenon
    <3>2. CASE conn[c].server \in Admitted
      BY <1>0, <2>1, <2>2, <3>2, ControlLess, Zenon
    <3> QED BY <2>3, <3>1, <3>2, Zenon
  <2>5. Number(conn', Authentic) = Number(conn, Authentic)
    <3>1. \A X : Counts(conn, conn', c, X)
      BY <2>2, MoveCounts, Zenon
    <3> QED BY <2>3, <3>1, Zenon DEF Counts
  <2>6. GaugeCount(conn, config, gauge) => GaugeCount(conn', config, gauge')
    BY <2>1, <2>5, Zenon DEF GaugeCount
  <2> QED BY <1>0, <1>3, <2>2, <2>3, <2>4, <2>6, Zenon
<1>6. CASE Authenticate(c) \/ HandshakeFails(c)
  <2>1. /\ conn[c].server = "Handshake" /\ active_control' = active_control
        /\ \/ /\ \E t : conn' = [conn EXCEPT ![c].server = "Accepted", ![c].told = t]
              /\ config.framing = "native" => gauge' = gauge + 1
           \/ conn' = Server(c, "Failed") /\ gauge' = gauge
    BY <1>6, Zenon DEF Authenticate, HandshakeFails, Native, counters
  <2>2. PICK s \in {"Accepted", "Failed"} :
           /\ IsConns(conn') /\ Moved(conn, conn', c) /\ conn'[c].server = s
           /\ s = "Accepted" => (config.framing = "native" => gauge' = gauge + 1)
           /\ s = "Failed" => gauge' = gauge
    <3>1. /\ "Accepted" \in {"Accepted", "Failed"} /\ "Failed" \in {"Accepted", "Failed"}
          /\ "Accepted" # "Failed"
      OBVIOUS
    <3> QED BY <1>0, <2>1, <3>1, ServerMoves, Zenon
  <2>3. /\ "Handshake" \notin {"Queued", "Taken", "Relay"} /\ s # "Queued"
        /\ "Handshake" \in Admitted /\ s \in Admitted /\ "Handshake" \in Pooled /\ s \in Pooled
        /\ "Handshake" \notin {"Excess"} /\ s \notin {"Excess"}
        /\ "Handshake" \notin Authentic /\ (s = "Accepted" => s \in Authentic)
        /\ s = "Accepted" \/ (s = "Failed" /\ s \notin Authentic)
    BY DEF Authentic, Admitted, Pooled
  <2>4. ControlCount(conn, config, active_control) => ControlCount(conn', config, active_control')
    BY <2>1, <2>2, <2>3, ControlSame, Zenon
  <2>5. \A X : Counts(conn, conn', c, X)
    BY <2>2, MoveCounts, Zenon
  <2>6. /\ s = "Accepted" => Number(conn', Authentic) = Number(conn, Authentic) + 1
        /\ s = "Failed" => Number(conn', Authentic) = Number(conn, Authentic)
    BY <2>1, <2>2, <2>3, <2>5, Zenon DEF Counts
  <2>7. GaugeCount(conn, config, gauge) => GaugeCount(conn', config, gauge')
    BY <2>2, <2>3, <2>6, Zenon DEF GaugeCount
  <2> QED BY <1>0, <1>3, <2>1, <2>2, <2>3, <2>4, <2>7, Zenon
<1> QED BY <1>4, <1>5, <1>6, Zenon

(* The handler gives a connection to the queue, or gives it up. *)
LEMMA EnqueueStep ==
    ASSUME ReverseInv, NEW c \in Conns, Enqueue(c)
    PROVE  ReverseInv'
<1>0. /\ Structure /\ IsConns(conn) /\ IsLoop(loop) /\ config \in Configs
      /\ QueueOf(conn, channel) /\ OwnersOf(conn, ext) /\ IsExts(ext)
      /\ ~loop.cancelled => /\ ControlCount(conn, config, active_control)
                            /\ GaugeCount(conn, config, gauge)
                            /\ StreamCount(ext, config, active_streams)
  BY Zenon DEF ReverseInv, Structure, Serving
<1>1. UNCHANGED <<config, ext, active_streams, loop>> /\ conn[c].server = "Accepted"
  BY Zenon DEF Enqueue
<1>2. CASE /\ conn' = [conn EXCEPT ![c] = ServerLeaves(c)] /\ channel' = channel
           /\ active_control' = active_control - 1
           /\ config.framing = "native" => gauge' = gauge - 1
  <2>1. IsConns(conn') /\ Moved(conn, conn', c) /\ conn'[c].server \in {"Closed", "Free"}
    BY <1>0, <1>2, LeaveMoves, Zenon
  <2>2. /\ conn[c].server \notin {"Queued", "Taken", "Relay"} /\ conn'[c].server # "Queued"
        /\ conn[c].server \in Authentic /\ conn'[c].server \notin Authentic
        /\ conn[c].server \in Admitted
    BY <1>1, <2>1 DEF Authentic, Admitted
  <2>3. ControlCount(conn, config, active_control) => ControlCount(conn', config, active_control')
    BY <1>0, <1>2, <2>1, <2>2, ControlLess, Zenon
  <2>4. \A X : Counts(conn, conn', c, X)
    BY <2>1, MoveCounts, Zenon
  <2>5. Number(conn', Authentic) = Number(conn, Authentic) - 1
    BY <2>2, <2>4, Zenon DEF Counts
  <2>6. GaugeCount(conn, config, gauge) => GaugeCount(conn', config, gauge')
    BY <1>1, <1>2, <2>5, Zenon DEF GaugeCount
  <2>7. Structure'
    BY <1>0, <1>1, <1>2, <2>1, <2>2, MoveFrame, Zenon
  <2> QED BY <1>0, <1>1, <2>3, <2>6, <2>7, Zenon DEF ReverseInv, Serving
<1>3. CASE /\ conn' = Server(c, "Queued") /\ channel' = Append(channel, c) /\ gauge' = gauge
           /\ active_control' = IF config.framing = "native" THEN active_control
                                ELSE active_control - 1
  <2>1. IsConns(conn') /\ Moved(conn, conn', c) /\ conn'[c].server = "Queued"
    BY <1>0, <1>3, ServerMoves, Zenon
  <2>2. /\ "Accepted" \in Authentic /\ "Queued" \in Authentic
        /\ "Accepted" \in Pooled /\ "Queued" \in Pooled
        /\ "Accepted" \in Admitted /\ "Queued" \notin Admitted
        /\ "Accepted" \notin {"Excess"} /\ "Queued" \notin {"Excess"}
        /\ "Accepted" \notin {"Queued"} /\ "Queued" \in {"Queued"}
        /\ "Accepted" # "Queued" /\ "Accepted" # "Taken" /\ "Accepted" # "Relay"
    BY DEF Authentic, Admitted, Pooled
  <2>3. \A X : Counts(conn, conn', c, X)
    BY <2>1, MoveCounts, Zenon
  <2>4. /\ Number(conn', Authentic) = Number(conn, Authentic)
        /\ Number(conn', Pooled) = Number(conn, Pooled)
        /\ Number(conn', {"Excess"}) = Number(conn, {"Excess"})
    BY <1>1, <2>1, <2>2, <2>3, Zenon DEF Counts
  <2>5. /\ Number(conn', Admitted) = Number(conn, Admitted) - 1
        /\ Number(conn', {"Queued"}) = Number(conn, {"Queued"}) + 1
    BY <1>1, <2>1, <2>2, <2>3, Zenon DEF Counts
  <2>6. GaugeCount(conn, config, gauge) => GaugeCount(conn', config, gauge')
    BY <1>1, <1>3, <2>4, Zenon DEF GaugeCount
  <2>7. ControlCount(conn, config, active_control) => ControlCount(conn', config, active_control')
    <3>1. CASE config.framing = "native"
      BY <1>1, <1>3, <2>4, <3>1, Zenon DEF ControlCount
    <3>2. CASE config.framing # "native"
      <4> SUFFICES ASSUME ControlCount(conn, config, active_control)
                   PROVE  ControlCount(conn', config, active_control - 1)
        BY <1>1, <1>3, <3>2, Zenon
      <4>1. /\ active_control = Number(conn, Admitted) + Number(conn, {"Excess"})
            /\ Number(conn, Admitted) <= Limit(config)
        BY <3>2, Zenon DEF ControlCount
      <4>2. Number(conn, Admitted) \in Nat /\ Number(conn, {"Excess"}) \in Nat
        BY NumberNat, Zenon
      <4>3. Limit(config) \in Nat
        <5>1. config.controls \in Nat
          BY <1>0, ReverseAssumption, Zenon
        <5> QED BY <5>1 DEF Limit
      <4>4. /\ active_control - 1 = Number(conn', Admitted) + Number(conn', {"Excess"})
            /\ Number(conn', Admitted) <= Limit(config)
        BY <2>4, <2>5, <4>1, <4>2, <4>3
      <4> QED BY <3>2, <4>4, Zenon DEF ControlCount
    <3> QED BY <3>1, <3>2, Zenon
  <2>8. PICK L \in Nat : L = Len(channel)
    <3>1. channel \in Seq(Conns)
      BY <1>0, Zenon DEF QueueOf
    <3>2. Len(channel) \in Nat
      BY <3>1
    <3> QED BY <3>2, Zenon
  <2>9. /\ channel' \in Seq(Conns) /\ Len(channel') = L + 1 /\ channel'[L + 1] = c
        /\ \A i \in 1..L : channel'[i] = channel[i] /\ channel[i] \in Conns
    <3>1. channel \in Seq(Conns)
      BY <1>0, Zenon DEF QueueOf
    <3> QED BY <1>3, <2>8, <3>1
  <2>10. /\ Number(conn, {"Queued"}) = L
         /\ \A i \in 1..L : conn[channel[i]].server = "Queued"
         /\ \A i, j \in 1..L : channel[i] = channel[j] => i = j
    BY <1>0, <2>8, Zenon DEF QueueOf
  <2>11. \A i \in 1..L : channel[i] # c
    BY <1>1, <2>2, <2>10, Zenon
  <2>12. \A i \in 1..L : conn'[channel'[i]].server = "Queued"
    <3> SUFFICES ASSUME NEW i \in 1..L PROVE conn'[channel'[i]].server = "Queued"
      BY Zenon
    <3>1. PICK b \in Conns : b = channel[i] /\ channel'[i] = b
      BY <2>9, Zenon
    <3>2. b # c /\ conn[b].server = "Queued"
      BY <2>10, <2>11, <3>1, Zenon
    <3> QED BY <2>1, <3>1, <3>2, Zenon DEF Moved
  <2>13. \A i \in 1..(L + 1) : i \in 1..L \/ i = L + 1
    OBVIOUS
  <2>14. QueueOf(conn', channel')
    <3>1. \A i \in 1..(L + 1) : conn'[channel'[i]].server = "Queued"
      BY <2>1, <2>9, <2>12, <2>13, Zenon
    <3>2. \A i, j \in 1..(L + 1) : channel'[i] = channel'[j] => i = j
      <4> SUFFICES ASSUME NEW i \in 1..(L + 1), NEW j \in 1..(L + 1), channel'[i] = channel'[j]
                   PROVE  i = j
        BY Zenon
      <4>1. CASE i \in 1..L /\ j \in 1..L
        BY <2>9, <2>10, <4>1, Zenon
      <4>2. CASE i \in 1..L /\ j = L + 1
        BY <2>9, <2>11, <4>2, Zenon
      <4>3. CASE i = L + 1 /\ j \in 1..L
        BY <2>9, <2>11, <4>3, Zenon
      <4> QED BY <2>13, <4>1, <4>2, <4>3, Zenon
    <3> QED BY <2>5, <2>9, <2>10, <3>1, <3>2, Zenon DEF QueueOf
  <2>15. \A b \in Conns : \A s \in {"Taken", "Relay"} : conn[b].server = s => conn'[b].server = s
    BY <1>1, <2>1, <2>2, Zenon DEF Moved
  <2>16. OwnersOf(conn', ext')
    BY <1>0, <1>1, <2>15, Zenon DEF OwnersOf, Has
  <2>17. Structure'
    BY <1>0, <1>1, <2>1, <2>14, <2>16, Zenon DEF Structure
  <2> QED BY <1>0, <1>1, <2>6, <2>7, <2>17, Zenon DEF ReverseInv, Serving
<1> QED BY <1>2, <1>3, Zenon DEF Enqueue, Native
-----------------------------------------------------------------------------
(* Only the external client e changes. *)
Only(ex, ex2, e) == \A f \in Externals : f # e => ex2[f] = ex[f]

Attended == {"Waiting", "Taking", "Paired", "Left"}

(* The three things one external client can do to the count of them. *)
LEMMA ServedCounts ==
    ASSUME NEW ex, NEW ex2, NEW e \in Externals, Only(ex, ex2, e)
    PROVE  /\ (ex[e].phase \notin Attended /\ ex2[e].phase \in Attended) =>
                 Cardinality(Served(ex2)) = Cardinality(Served(ex)) + 1
           /\ (ex[e].phase \in Attended /\ ex2[e].phase \notin Attended) =>
                 Cardinality(Served(ex2)) = Cardinality(Served(ex)) - 1
           /\ (ex[e].phase \in Attended <=> ex2[e].phase \in Attended) =>
                 Cardinality(Served(ex2)) = Cardinality(Served(ex))
<1>0. IsFiniteSet(Served(ex))
  BY ServedNat, Zenon
<1>1. ASSUME ex[e].phase \notin Attended, ex2[e].phase \in Attended
      PROVE  Cardinality(Served(ex2)) = Cardinality(Served(ex)) + 1
  <2>1. Served(ex2) = Served(ex) \cup {e} /\ e \notin Served(ex)
    BY <1>1, Zenon DEF Served, Only, Attended
  <2>2. Cardinality(Served(ex) \cup {e}) = Cardinality(Served(ex)) + 1
    BY <1>0, <2>1, FS_AddElement, Zenon
  <2> QED BY <2>1, <2>2, Zenon
<1>2. ASSUME ex[e].phase \in Attended, ex2[e].phase \notin Attended
      PROVE  Cardinality(Served(ex2)) = Cardinality(Served(ex)) - 1
  <2>1. Served(ex2) = Served(ex) \ {e} /\ e \in Served(ex)
    BY <1>2, Zenon DEF Served, Only, Attended
  <2>2. Cardinality(Served(ex) \ {e}) = Cardinality(Served(ex)) - 1
    BY <1>0, <2>1, FS_RemoveElement, Zenon
  <2> QED BY <2>1, <2>2, Zenon
<1>3. ASSUME ex[e].phase \in Attended <=> ex2[e].phase \in Attended
      PROVE  Cardinality(Served(ex2)) = Cardinality(Served(ex))
  <2>1. Served(ex2) = Served(ex)
    BY <1>3, Zenon DEF Served, Only, Attended
  <2> QED BY <2>1, Zenon
<1> QED BY <1>1, <1>2, <1>3, Zenon

(* The other external clients keep what they have. *)
LEMMA OwnersKept ==
    ASSUME NEW cn, NEW cn2, NEW ex, NEW ex2, NEW e \in Externals, OwnersOf(cn, ex), Only(ex, ex2, e),
           \A f \in Externals : f # e => Has(cn2, ex[f]), Has(cn2, ex2[e]),
           ex2[e].phase \in Holding =>
              \A f \in Externals :
                 (f # e /\ ex[f].phase \in Holding) => ex[f].conn # ex2[e].conn
    PROVE  OwnersOf(cn2, ex2)
<1>1. \A f \in Externals : Has(cn2, ex2[f])
  <2> SUFFICES ASSUME NEW f \in Externals PROVE Has(cn2, ex2[f])
    BY Zenon
  <2>1. CASE f = e
    BY <2>1, Zenon
  <2>2. CASE f # e
    <3>1. ex2[f] = ex[f] /\ Has(cn2, ex[f])
      BY <2>2, Zenon DEF Only
    <3> QED BY <3>1, Zenon
  <2> QED BY <2>1, <2>2, Zenon
<1>2. ASSUME NEW f \in Externals, NEW g \in Externals, ex2[f].phase \in Holding,
             ex2[g].phase \in Holding, ex2[f].conn = ex2[g].conn
      PROVE  f = g
  <2>1. CASE f = e /\ g = e
    BY <2>1, Zenon
  <2>2. CASE f = e /\ g # e
    BY <1>2, <2>2, Zenon DEF Only
  <2>3. CASE f # e /\ g = e
    BY <1>2, <2>3, Zenon DEF Only
  <2>4. CASE f # e /\ g # e
    <3>1. ex2[f] = ex[f] /\ ex2[g] = ex[g]
      BY <2>4, Zenon DEF Only
    <3> QED BY <1>2, <3>1, Zenon DEF OwnersOf
  <2> QED BY <2>1, <2>2, <2>3, <2>4, Zenon
<1> QED BY <1>1, <1>2, Zenon DEF OwnersOf

\* External client e takes the phase ph with the connections cs, or keeps its
\* connections cs.
ExtBecomes(e, ph, cs) ==
    \/ ext' = [ext EXCEPT ![e] = [phase |-> ph, conn |-> cs]]
    \/ ext' = [ext EXCEPT ![e].phase = ph] /\ cs = ext[e].conn

(* What one external client becomes. *)
LEMMA ExtMoves ==
    ASSUME IsExts(ext), NEW e \in Externals, NEW ph, NEW cs, ExtBecomes(e, ph, cs)
    PROVE  IsExts(ext') /\ Only(ext, ext', e) /\ ext'[e].phase = ph /\ ext'[e].conn = cs
<1>1. /\ ext = [f \in Externals |-> ext[f]]
      /\ \A f \in Externals : ext[f] = [phase |-> ext[f].phase, conn |-> ext[f].conn]
  BY Zenon DEF IsExts
<1>2. PICK r : r = [phase |-> ph, conn |-> cs]
  BY Zenon
<1>3. r.phase = ph /\ r.conn = cs
  BY <1>2, Zenon
<1>4. ext' = [f \in Externals |-> IF f = e THEN r ELSE ext[f]]
  <2>1. CASE ext' = [ext EXCEPT ![e] = [phase |-> ph, conn |-> cs]]
    BY <1>1, <1>2, <2>1, Zenon
  <2>2. CASE ext' = [ext EXCEPT ![e].phase = ph] /\ cs = ext[e].conn
    <3>1. PICK x : x = ext[e]
      BY Zenon
    <3>2. x = [phase |-> x.phase, conn |-> x.conn] /\ x.conn = cs
      BY <1>1, <2>2, <3>1, Zenon
    <3>a. PICK q : q = [x EXCEPT !.phase = ph]
      BY Zenon
    <3>b. q.phase = ph /\ q.conn = x.conn /\ q = [phase |-> q.phase, conn |-> q.conn]
      BY <3>2, <3>a, Zenon
    <3>3. q = r
      BY <1>2, <3>2, <3>b, Zenon
    <3>4. [ext[e] EXCEPT !.phase = ph] = r
      BY <3>1, <3>3, <3>a, Zenon
    <3> QED BY <1>1, <2>2, <3>4, Zenon
  <2> QED BY <2>1, <2>2, Zenon DEF ExtBecomes
<1>5. ext'[e] = r /\ \A f \in Externals : f # e => ext'[f] = ext[f]
  BY <1>4, Zenon
<1>6. ext' = [f \in Externals |-> ext'[f]]
  BY <1>4, Zenon
<1>7. \A f \in Externals : ext'[f] = [phase |-> ext'[f].phase, conn |-> ext'[f].conn]
  <2> SUFFICES ASSUME NEW f \in Externals
               PROVE  ext'[f] = [phase |-> ext'[f].phase, conn |-> ext'[f].conn]
    BY Zenon
  <2>1. CASE f = e
    BY <1>2, <1>3, <1>5, <2>1, Zenon
  <2>2. CASE f # e
    BY <1>1, <1>5, <2>2, Zenon
  <2> QED BY <2>1, <2>2, Zenon
<1> QED BY <1>3, <1>5, <1>6, <1>7, Zenon DEF IsExts, Only

(* An external client goes on with the connection it has. *)
LEMMA ExtPhase ==
    ASSUME IsExts(ext), NEW e \in Externals, NEW ph, ext' = [ext EXCEPT ![e].phase = ph]
    PROVE  IsExts(ext') /\ Only(ext, ext', e) /\ ext'[e].phase = ph /\ ext'[e].conn = ext[e].conn
<1>1. PICK cs : cs = ext[e].conn
  BY Zenon
<1>2. ExtBecomes(e, ph, cs)
  BY <1>1, Zenon DEF ExtBecomes
<1>3. IsExts(ext') /\ Only(ext, ext', e) /\ ext'[e].phase = ph /\ ext'[e].conn = cs
  BY <1>2, ExtMoves, Zenon
<1> QED BY <1>1, <1>3, Zenon

(* An external client is taken in or turned away, or leaves its relay. *)
LEMMA ArrivalSteps ==
    ASSUME ReverseInv, NEW e \in Externals, AcceptExternal(e) \/ ExternalLeaves(e)
    PROVE  ReverseInv'
<1>0. /\ Structure /\ IsConns(conn) /\ IsLoop(loop) /\ config \in Configs
      /\ QueueOf(conn, channel) /\ OwnersOf(conn, ext) /\ IsExts(ext)
      /\ ~loop.cancelled => /\ ControlCount(conn, config, active_control)
                            /\ GaugeCount(conn, config, gauge)
                            /\ StreamCount(ext, config, active_streams)
  BY Zenon DEF ReverseInv, Structure, Serving
<1>1. UNCHANGED <<config, conn, channel, active_control, gauge>>
  BY Zenon DEF AcceptExternal, ExternalLeaves, counters, serverVars
<1>2. IsLoop(loop') /\ loop'.cancelled = loop.cancelled
  <2>1. loop' = loop \/ \E s : loop' = [loop EXCEPT !.external = s]
    BY Zenon DEF AcceptExternal, ExternalLeaves, serverVars
  <2>2. loop = [control |-> loop.control, external |-> loop.external, cancelled |-> loop.cancelled]
    BY <1>0, Zenon DEF IsLoop
  <2>3. ASSUME NEW s, loop' = [loop EXCEPT !.external = s]
        PROVE  IsLoop(loop') /\ loop'.cancelled = loop.cancelled
    BY <2>2, <2>3, Zenon DEF IsLoop
  <2> QED BY <1>0, <2>1, <2>3, Zenon
<1>3. PICK ph \in {"Waiting", "Done", "Left"} :
        /\ ext' = [ext EXCEPT ![e].phase = ph]
        /\ \/ ph = "Left" /\ ext[e].phase = "Paired" /\ active_streams' = active_streams
           \/ ph = "Done" /\ ext[e].phase = "Away" /\ active_streams' = active_streams
           \/ /\ ph = "Waiting" /\ ext[e].phase = "Away"
              /\ config.framing = "native" =>
                    active_streams < config.streams /\ active_streams' = active_streams + 1
  <2>1. CASE AcceptExternal(e)
    BY <2>1, Zenon DEF AcceptExternal, Native, counters
  <2>2. CASE ExternalLeaves(e)
    BY <2>2, Zenon DEF ExternalLeaves, Native, counters
  <2> QED BY <2>1, <2>2, Zenon
<1>4. IsExts(ext') /\ Only(ext, ext', e) /\ ext'[e].phase = ph /\ ext'[e].conn = ext[e].conn
  BY <1>0, <1>3, ExtPhase, Zenon
<1>5. /\ "Away" \notin Attended /\ "Waiting" \in Attended /\ "Done" \notin Attended
      /\ "Paired" \in Attended /\ "Left" \in Attended
      /\ "Waiting" \notin Holding /\ "Done" \notin Holding
      /\ "Waiting" # "Taking" /\ "Waiting" \notin {"Paired", "Left"}
      /\ "Done" # "Taking" /\ "Done" \notin {"Paired", "Left"}
      /\ "Left" # "Taking" /\ "Paired" \in {"Paired", "Left"} /\ "Paired" \in Holding
  BY DEF Attended, Holding
<1>6. OwnersOf(conn', ext')
  <2>1. \A f \in Externals : Has(conn, ext[f])
    BY <1>0, Zenon DEF OwnersOf
  <2>2. Has(conn, ext'[e])
    BY <1>3, <1>4, <1>5, <2>1, Zenon DEF Has
  <2>3. ext'[e].phase \in Holding =>
           \A f \in Externals : (f # e /\ ext[f].phase \in Holding) => ext[f].conn # ext'[e].conn
    BY <1>0, <1>3, <1>4, <1>5, Zenon DEF OwnersOf
  <2> QED BY <1>0, <1>1, <1>4, <2>1, <2>2, <2>3, OwnersKept, Zenon
<1>7. StreamCount(ext, config, active_streams) => StreamCount(ext', config', active_streams')
  <2> SUFFICES ASSUME config.framing = "native", StreamCount(ext, config, active_streams)
               PROVE  active_streams' = Cardinality(Served(ext')) /\ active_streams' <= config.streams
    BY <1>1, Zenon DEF StreamCount
  <2>1. active_streams = Cardinality(Served(ext)) /\ active_streams <= config.streams
    BY Zenon DEF StreamCount
  <2>2. CASE ph \in {"Left", "Done"}
    <3>1. active_streams' = active_streams /\ (ext[e].phase \in Attended <=> ext'[e].phase \in Attended)
      <4>1. ph # "Waiting"
        BY <2>2
      <4> QED BY <1>3, <1>4, <1>5, <4>1, Zenon
    <3>2. Cardinality(Served(ext')) = Cardinality(Served(ext))
      BY <1>4, <3>1, ServedCounts, Zenon
    <3> QED BY <2>1, <3>1, <3>2, Zenon
  <2>3. CASE ph = "Waiting"
    <3>0. "Waiting" # "Left" /\ "Waiting" # "Done"
      OBVIOUS
    <3>1. /\ active_streams < config.streams /\ active_streams' = active_streams + 1
          /\ ext[e].phase \notin Attended /\ ext'[e].phase \in Attended
      BY <1>3, <1>4, <1>5, <2>3, <3>0, Zenon
    <3>2. Cardinality(Served(ext')) = Cardinality(Served(ext)) + 1
      BY <1>4, <3>1, ServedCounts, Zenon
    <3>3. active_streams \in Nat /\ config.streams \in Nat
      BY <1>0, <2>1, ServedNat, ReverseAssumption, Zenon
    <3>4. active_streams + 1 <= config.streams
      BY <3>1, <3>3
    <3> QED BY <2>1, <3>1, <3>2, <3>4, Zenon
  <2> QED BY <2>2, <2>3, Zenon
<1>8. Structure'
  BY <1>0, <1>1, <1>2, <1>4, <1>6, Zenon DEF Structure
<1> QED BY <1>0, <1>1, <1>2, <1>7, <1>8, Zenon DEF ReverseInv, Serving
-----------------------------------------------------------------------------
(* An external client receives the oldest connection of the queue. *)
LEMMA ReceiveStep ==
    ASSUME ReverseInv, NEW e \in Externals, ReceiveControl(e)
    PROVE  ReverseInv'
<1>0. /\ Structure /\ IsConns(conn) /\ IsLoop(loop) /\ config \in Configs
      /\ QueueOf(conn, channel) /\ OwnersOf(conn, ext) /\ IsExts(ext)
      /\ ~loop.cancelled => /\ ControlCount(conn, config, active_control)
                            /\ GaugeCount(conn, config, gauge)
                            /\ StreamCount(ext, config, active_streams)
  BY Zenon DEF ReverseInv, Structure, Serving
<1>1. /\ UNCHANGED <<config, loop, active_control, active_streams, gauge>>
      /\ channel # <<>> /\ channel' = Tail(channel) /\ ext[e].phase = "Waiting"
  BY Zenon DEF ReceiveControl, counters
<1>2. channel \in Seq(Conns) /\ Number(conn, {"Queued"}) = Len(channel)
  BY <1>0, Zenon DEF QueueOf
<1>3. PICK h \in Conns : h = Head(channel) /\ h = channel[1] /\ 1 \in 1..Len(channel)
  BY <1>1, <1>2
<1>4. conn[h].server = "Queued" /\ \A i \in 1..Len(channel) : channel[i] = h => i = 1
  BY <1>0, <1>3, Zenon DEF QueueOf
<1>5. PICK L \in Nat : Len(channel) = L + 1
  <2>1. Len(channel) \in Nat /\ Len(channel) >= 1
    BY <1>2, <1>3
  <2> QED BY <2>1
<1>6. /\ channel' \in Seq(Conns) /\ Len(channel') = L
      /\ \A i \in 1..L : channel'[i] = channel[i + 1] /\ i + 1 \in 1..Len(channel) /\ i + 1 # 1
                         /\ channel[i + 1] \in Conns
  BY <1>1, <1>2, <1>5
<1>7. IsConns(conn') /\ Moved(conn, conn', h) /\ conn'[h].server = "Taken"
  <2>1. conn' = Server(h, "Taken")
    BY <1>3, Zenon DEF ReceiveControl
  <2> QED BY <1>0, <2>1, ServerMoves, Zenon
<1>8. IsExts(ext') /\ Only(ext, ext', e) /\ ext'[e].phase = "Taking" /\ ext'[e].conn = {h}
  <2>1. ExtBecomes(e, "Taking", {h})
    BY <1>3, Zenon DEF ReceiveControl, ExtBecomes
  <2> QED BY <1>0, <2>1, ExtMoves, Zenon
<1>9. /\ "Queued" \in Authentic /\ "Taken" \in Authentic
      /\ "Queued" \in Pooled /\ "Taken" \in Pooled
      /\ "Queued" \notin Admitted /\ "Taken" \notin Admitted
      /\ "Queued" \notin {"Excess"} /\ "Taken" \notin {"Excess"}
      /\ "Taken" \notin {"Queued"} /\ "Queued" \in {"Queued"}
      /\ "Queued" # "Taken" /\ "Queued" # "Relay"
      /\ "Waiting" \in Attended /\ "Taking" \in Attended
      /\ "Taking" \notin {"Paired", "Left"}
  BY DEF Authentic, Admitted, Pooled, Attended
<1>10. \A X : Counts(conn, conn', h, X)
  BY <1>7, MoveCounts, Zenon
<1>11. /\ Number(conn', Authentic) = Number(conn, Authentic)
       /\ Number(conn', {"Queued"}) = Number(conn, {"Queued"}) - 1
  BY <1>4, <1>7, <1>9, <1>10, Zenon DEF Counts
<1>12. ControlCount(conn, config, active_control) => ControlCount(conn', config', active_control')
  <2>1. /\ conn[h].server \in Pooled <=> conn'[h].server \in Pooled
        /\ conn[h].server \in Admitted <=> conn'[h].server \in Admitted
        /\ conn[h].server \in {"Excess"} <=> conn'[h].server \in {"Excess"}
    BY <1>4, <1>7, <1>9, Zenon
  <2> QED BY <1>1, <1>7, <2>1, ControlSame, Zenon
<1>13. GaugeCount(conn, config, gauge) => GaugeCount(conn', config', gauge')
  BY <1>1, <1>11, Zenon DEF GaugeCount
<1>14. StreamCount(ext, config, active_streams) => StreamCount(ext', config', active_streams')
  <2>1. ext[e].phase \in Attended <=> ext'[e].phase \in Attended
    BY <1>1, <1>8, <1>9, Zenon
  <2>2. Cardinality(Served(ext')) = Cardinality(Served(ext))
    BY <1>8, <2>1, ServedCounts, Zenon
  <2> QED BY <1>1, <2>2, Zenon DEF StreamCount
<1>15. QueueOf(conn', channel')
  <2>1. Number(conn', {"Queued"}) = L
    BY <1>2, <1>5, <1>11
  <2>2. \A i \in 1..L : conn'[channel'[i]].server = "Queued"
    <3> SUFFICES ASSUME NEW i \in 1..L PROVE conn'[channel'[i]].server = "Queued"
      BY Zenon
    <3>1. PICK j \in 1..Len(channel) : channel'[i] = channel[j] /\ j # 1 /\ channel[j] \in Conns
      BY <1>6, Zenon
    <3>2. PICK b \in Conns : b = channel[j]
      BY <3>1, Zenon
    <3>3. b # h /\ conn[b].server = "Queued"
      BY <1>0, <1>4, <3>1, <3>2, Zenon DEF QueueOf
    <3> QED BY <1>7, <3>1, <3>2, <3>3, Zenon DEF Moved
  <2>3. \A i, j \in 1..L : channel'[i] = channel'[j] => i = j
    <3> SUFFICES ASSUME NEW i \in 1..L, NEW j \in 1..L, channel'[i] = channel'[j] PROVE i = j
      BY Zenon
    <3>a. PICK m \in 1..Len(channel) : m = i + 1 /\ channel'[i] = channel[m]
      BY <1>6, Zenon
    <3>b. PICK n \in 1..Len(channel) : n = j + 1 /\ channel'[j] = channel[n]
      BY <1>6, Zenon
    <3>c. m = n
      BY <1>0, <3>a, <3>b, Zenon DEF QueueOf
    <3>1. i + 1 = j + 1
      BY <3>a, <3>b, <3>c, Zenon
    <3> QED BY <3>1
  <2> QED BY <1>6, <2>1, <2>2, <2>3, Zenon DEF QueueOf
<1>16. ASSUME NEW b \in Conns, NEW s \in {"Taken", "Relay"}, conn[b].server = s
       PROVE  conn'[b].server = s /\ b # h
  BY <1>4, <1>7, <1>9, <1>16, Zenon DEF Moved
<1>17. OwnersOf(conn', ext')
  <2>1. \A f \in Externals : Has(conn, ext[f])
    BY <1>0, Zenon DEF OwnersOf
  <2>2. \A f \in Externals : f # e => Has(conn', ext[f])
    BY <1>16, <2>1, Zenon DEF Has
  <2>3. Has(conn', ext'[e])
    BY <1>7, <1>8, <1>9, Zenon DEF Has
  <2>4. \A f \in Externals : (f # e /\ ext[f].phase \in Holding) => ext[f].conn # ext'[e].conn
    <3> SUFFICES ASSUME NEW f \in Externals, ext[f].phase \in Holding PROVE ext[f].conn # {h}
      BY <1>8, Zenon
    <3>1. PICK b \in Conns : ext[f].conn = {b} /\ conn[b].server \in {"Taken", "Relay"}
      BY <2>1, Zenon DEF Has, Holding
    <3>2. b # h
      BY <1>16, <3>1, Zenon
    <3> QED BY <3>1, <3>2, Zenon
  <2> QED BY <1>0, <1>8, <2>2, <2>3, <2>4, OwnersKept, Zenon
<1>18. Structure'
  BY <1>0, <1>1, <1>7, <1>8, <1>15, <1>17, Zenon DEF Structure
<1> QED BY <1>0, <1>1, <1>12, <1>13, <1>14, <1>18, Zenon DEF ReverseInv, Serving

(* A connection an external client has moves on: the others keep theirs, *)
(* and the queue is as it was.                                           *)
LEMMA HeldFrame ==
    ASSUME Structure, NEW e \in Externals, ext[e].phase \in Holding, NEW c \in Conns,
           ext[e].conn = {c}, conn[c].server # "Queued", conn'[c].server # "Queued",
           IsConns(conn'), Moved(conn, conn', c), IsExts(ext'), Only(ext, ext', e),
           Has(conn', ext'[e]), ext'[e].phase \in Holding => ext'[e].conn = {c},
           UNCHANGED <<config, channel>>, IsLoop(loop')
    PROVE  Structure'
<1>1. QueueOf(conn, channel) /\ OwnersOf(conn, ext) /\ config \in Configs
  BY Zenon DEF Structure
<1>2. QueueOf(conn', channel')
  <2>1. \A X : Counts(conn, conn', c, X)
    BY MoveCounts, Zenon
  <2>2. Number(conn', {"Queued"}) = Number(conn, {"Queued"})
    BY <2>1, Zenon DEF Counts
  <2>3. channel \in Seq(Conns)
    BY <1>1, Zenon DEF QueueOf
  <2>4. \A i \in 1..Len(channel) : channel[i] \in Conns
    BY <2>3
  <2>5. \A i \in 1..Len(channel) : conn'[channel[i]].server = "Queued"
    <3> SUFFICES ASSUME NEW i \in 1..Len(channel) PROVE conn'[channel[i]].server = "Queued"
      BY Zenon
    <3>1. PICK b \in Conns : b = channel[i]
      BY <2>4, Zenon
    <3>2. conn[b].server = "Queued"
      BY <1>1, <3>1, Zenon DEF QueueOf
    <3> QED BY <3>1, <3>2, Zenon DEF Moved
  <2> QED BY <1>1, <2>2, <2>5, Zenon DEF QueueOf
<1>3. \A f \in Externals : (f # e /\ ext[f].phase \in Holding) => ext[f].conn # {c}
  BY <1>1, Zenon DEF OwnersOf
<1>4. \A f \in Externals : f # e => Has(conn', ext[f])
  <2> SUFFICES ASSUME NEW f \in Externals, f # e PROVE Has(conn', ext[f])
    BY Zenon
  <2>1. Has(conn, ext[f])
    BY <1>1, Zenon DEF OwnersOf
  <2>2. ext[f].phase \in Holding => ext[f].conn # {c}
    BY <1>3, Zenon
  <2>3. "Taking" \in Holding /\ {"Paired", "Left"} \subseteq Holding
    BY DEF Holding
  <2>4. \A b \in Conns : {b} # {c} => conn'[b].server = conn[b].server
    BY Zenon DEF Moved
  <2> QED BY <2>1, <2>2, <2>3, <2>4, Zenon DEF Has
<1>5. OwnersOf(conn', ext')
  BY <1>1, <1>3, <1>4, OwnersKept, Zenon
<1> QED BY <1>1, <1>2, <1>5, Zenon DEF Structure
-----------------------------------------------------------------------------
(* The relay of an external client starts. *)
LEMMA SpawnStep ==
    ASSUME ReverseInv, NEW e \in Externals, SpawnRelay(e)
    PROVE  ReverseInv'
<1>0. /\ Structure /\ IsConns(conn) /\ IsLoop(loop) /\ config \in Configs
      /\ OwnersOf(conn, ext) /\ IsExts(ext)
      /\ ~loop.cancelled => /\ ControlCount(conn, config, active_control)
                            /\ GaugeCount(conn, config, gauge)
                            /\ StreamCount(ext, config, active_streams)
  BY Zenon DEF ReverseInv, Structure, Serving
<1>1. /\ UNCHANGED <<config, channel, active_streams, gauge>> /\ ext[e].phase = "Taking"
      /\ loop' = [loop EXCEPT !.external = "Accept"]
      /\ ext' = [ext EXCEPT ![e].phase = "Paired"]
      /\ active_control' = IF config.framing = "native" THEN active_control - 1 ELSE active_control
      /\ conn' = [b \in Conns |-> IF b \in ext[e].conn
                                  THEN [conn[b] EXCEPT !.server = "Relay"] ELSE conn[b]]
  BY Zenon DEF SpawnRelay, Native
<1>2. IsLoop(loop') /\ loop'.cancelled = loop.cancelled
  <2>1. loop = [control |-> loop.control, external |-> loop.external, cancelled |-> loop.cancelled]
    BY <1>0, Zenon DEF IsLoop
  <2> QED BY <1>1, <2>1, Zenon DEF IsLoop
<1>3. PICK c \in Conns : ext[e].conn = {c} /\ conn[c].server = "Taken"
  BY <1>0, <1>1, Zenon DEF OwnersOf, Has
<1>4. IsConns(conn') /\ Moved(conn, conn', c) /\ conn'[c].server = "Relay"
  <2>1. conn = [b \in Conns |-> conn[b]]
    BY <1>0, Zenon DEF IsConns
  <2>2. conn' = [b \in Conns |-> IF b = c THEN [conn[b] EXCEPT !.server = "Relay"] ELSE conn[b]]
    BY <1>1, <1>3, Zenon
  <2>3. conn' = [conn EXCEPT ![c].server = "Relay"]
    BY <2>1, <2>2, Zenon
  <2>4. conn' = Server(c, "Relay")
    BY <2>3, Zenon DEF Server
  <2> QED BY <1>0, <2>4, ServerMoves, Zenon
<1>5. IsExts(ext') /\ Only(ext, ext', e) /\ ext'[e].phase = "Paired" /\ ext'[e].conn = {c}
  <2>1. PICK ph : ph = "Paired"
    BY Zenon
  <2>2. IsExts(ext) /\ ext' = [ext EXCEPT ![e].phase = ph]
    BY <1>0, <1>1, <2>1, Zenon
  <2>3. IsExts(ext') /\ Only(ext, ext', e) /\ ext'[e].phase = ph /\ ext'[e].conn = ext[e].conn
    BY <2>2, ExtPhase, Zenon
  <2> QED BY <1>3, <2>1, <2>3, Zenon
<1>6. /\ "Taken" \in Authentic /\ "Relay" \in Authentic
      /\ "Taken" \in Pooled /\ "Relay" \notin Pooled
      /\ "Taken" \notin Admitted /\ "Relay" \notin Admitted
      /\ "Taken" \notin {"Excess"} /\ "Relay" \notin {"Excess"}
      /\ "Taken" # "Queued" /\ "Relay" # "Queued"
      /\ "Taking" \in Attended /\ "Paired" \in Attended /\ "Taking" \in Holding
      /\ "Paired" # "Taking" /\ "Paired" \in {"Paired", "Left"}
  BY DEF Authentic, Admitted, Pooled, Attended, Holding
<1>7. \A X : Counts(conn, conn', c, X)
  BY <1>4, MoveCounts, Zenon
<1>8. /\ Number(conn', Authentic) = Number(conn, Authentic)
      /\ Number(conn', Admitted) = Number(conn, Admitted)
      /\ Number(conn', {"Excess"}) = Number(conn, {"Excess"})
  BY <1>3, <1>4, <1>6, <1>7, Zenon DEF Counts
<1>9. Number(conn', Pooled) = Number(conn, Pooled) - 1
  BY <1>3, <1>4, <1>6, <1>7, Zenon DEF Counts
<1>10. ControlCount(conn, config, active_control) => ControlCount(conn', config', active_control')
  <2>1. CASE config.framing # "native"
    BY <1>1, <1>8, <2>1, Zenon DEF ControlCount
  <2>2. CASE config.framing = "native"
    <3> SUFFICES ASSUME ControlCount(conn, config, active_control)
                 PROVE  ControlCount(conn', config, active_control - 1)
      BY <1>1, <2>2, Zenon
    <3>1. /\ active_control = Number(conn, Pooled) + Number(conn, {"Excess"})
          /\ Number(conn, Pooled) <= config.controls
      BY <2>2, Zenon DEF ControlCount
    <3>2. Number(conn, Pooled) \in Nat /\ Number(conn, {"Excess"}) \in Nat
      BY NumberNat, Zenon
    <3>3. config.controls \in Nat
      BY <1>0, ReverseAssumption, Zenon
    <3>4. /\ active_control - 1 = Number(conn', Pooled) + Number(conn', {"Excess"})
          /\ Number(conn', Pooled) <= config.controls
      BY <1>8, <1>9, <3>1, <3>2, <3>3
    <3> QED BY <2>2, <3>4, Zenon DEF ControlCount
  <2> QED BY <2>1, <2>2, Zenon
<1>11. GaugeCount(conn, config, gauge) => GaugeCount(conn', config', gauge')
  BY <1>1, <1>8, Zenon DEF GaugeCount
<1>12. StreamCount(ext, config, active_streams) => StreamCount(ext', config', active_streams')
  <2>1. ext[e].phase \in Attended <=> ext'[e].phase \in Attended
    BY <1>1, <1>5, <1>6, Zenon
  <2>2. Cardinality(Served(ext')) = Cardinality(Served(ext))
    BY <1>5, <2>1, ServedCounts, Zenon
  <2> QED BY <1>1, <2>2, Zenon DEF StreamCount
<1>13. Has(conn', ext'[e])
  BY <1>4, <1>5, <1>6, Zenon DEF Has
<1>14. Structure'
  BY <1>0, <1>1, <1>2, <1>3, <1>4, <1>5, <1>6, <1>13, HeldFrame, Zenon
<1> QED BY <1>0, <1>1, <1>2, <1>10, <1>11, <1>12, <1>14, Zenon DEF ReverseInv, Serving

(* The relay of an external client is over. *)
LEMMA ReturnStep ==
    ASSUME ReverseInv, NEW e \in Externals, RelayReturns(e)
    PROVE  ReverseInv'
<1>0. /\ Structure /\ IsConns(conn) /\ IsLoop(loop) /\ config \in Configs
      /\ OwnersOf(conn, ext) /\ IsExts(ext)
      /\ ~loop.cancelled => /\ ControlCount(conn, config, active_control)
                            /\ GaugeCount(conn, config, gauge)
                            /\ StreamCount(ext, config, active_streams)
  BY Zenon DEF ReverseInv, Structure, Serving
<1>1. /\ UNCHANGED <<config, channel, loop, active_control>> /\ ext[e].phase \in {"Paired", "Left"}
      /\ ext' = [ext EXCEPT ![e] = [phase |-> "Done", conn |-> {}]]
      /\ config.framing = "native" => active_streams' = active_streams - 1 /\ gauge' = gauge - 1
  BY Zenon DEF RelayReturns, serverVars, Native
<1>2. PICK c \in Conns : ext[e].conn = {c} /\ conn[c].server = "Relay"
  BY <1>0, <1>1, Zenon DEF OwnersOf, Has
<1>3. conn' = [conn EXCEPT ![c] = ServerLeaves(c)]
  BY <1>2, Zenon DEF RelayReturns
<1>4. IsConns(conn') /\ Moved(conn, conn', c) /\ conn'[c].server \in {"Closed", "Free"}
  BY <1>0, <1>3, LeaveMoves, Zenon
<1>5. IsExts(ext') /\ Only(ext, ext', e) /\ ext'[e].phase = "Done" /\ ext'[e].conn = {}
  <2>1. ExtBecomes(e, "Done", {})
    BY <1>1, Zenon DEF ExtBecomes
  <2> QED BY <1>0, <2>1, ExtMoves, Zenon
<1>6. /\ conn[c].server \in Authentic /\ conn'[c].server \notin Authentic
      /\ conn[c].server \in Pooled <=> conn'[c].server \in Pooled
      /\ conn[c].server \in Admitted <=> conn'[c].server \in Admitted
      /\ conn[c].server \in {"Excess"} <=> conn'[c].server \in {"Excess"}
      /\ conn[c].server # "Queued" /\ conn'[c].server # "Queued"
  BY <1>2, <1>4 DEF Authentic, Admitted, Pooled
<1>7. /\ ext[e].phase \in Attended /\ ext'[e].phase \notin Attended /\ ext[e].phase \in Holding
      /\ ext'[e].phase \notin Holding /\ Has(conn', ext'[e])
  BY <1>1, <1>5 DEF Attended, Holding, Has
<1>8. \A X : Counts(conn, conn', c, X)
  BY <1>4, MoveCounts, Zenon
<1>9. Number(conn', Authentic) = Number(conn, Authentic) - 1
  BY <1>6, <1>8, Zenon DEF Counts
<1>10. ControlCount(conn, config, active_control) => ControlCount(conn', config', active_control')
  BY <1>1, <1>4, <1>6, ControlSame, Zenon
<1>11. GaugeCount(conn, config, gauge) => GaugeCount(conn', config', gauge')
  BY <1>1, <1>9, Zenon DEF GaugeCount
<1>12. StreamCount(ext, config, active_streams) => StreamCount(ext', config', active_streams')
  <2> SUFFICES ASSUME config.framing = "native", StreamCount(ext, config, active_streams)
               PROVE  active_streams' = Cardinality(Served(ext')) /\ active_streams' <= config.streams
    BY <1>1, Zenon DEF StreamCount
  <2>1. active_streams = Cardinality(Served(ext)) /\ active_streams <= config.streams
    BY Zenon DEF StreamCount
  <2>2. Cardinality(Served(ext')) = Cardinality(Served(ext)) - 1
    BY <1>5, <1>7, ServedCounts, Zenon
  <2>3. Cardinality(Served(ext)) \in Nat /\ config.streams \in Nat
    BY <1>0, ServedNat, ReverseAssumption, Zenon
  <2>4. active_streams' = active_streams - 1
    BY <1>1, Zenon
  <2> QED BY <2>1, <2>2, <2>3, <2>4
<1>13. Structure'
  BY <1>0, <1>1, <1>2, <1>4, <1>5, <1>6, <1>7, HeldFrame, Zenon
<1> QED BY <1>0, <1>1, <1>10, <1>11, <1>12, <1>13, Zenon DEF ReverseInv, Serving

(* The task of the external listener stops: the queue goes with it. *)
LEMMA StopExternalStep ==
    ASSUME ReverseInv, StopExternal
    PROVE  ReverseInv'
<1>0. IsConns(conn) /\ IsLoop(loop) /\ config \in Configs /\ IsExts(ext)
  BY Zenon DEF ReverseInv, Structure
<1>1. IsLoop(loop') /\ loop'.cancelled /\ config' = config /\ channel' = <<>>
  <2>1. loop = [control |-> loop.control, external |-> loop.external, cancelled |-> loop.cancelled]
    BY <1>0, Zenon DEF IsLoop
  <2>2. /\ loop' = [loop EXCEPT !.external = "Stopped"] /\ loop.cancelled
        /\ config' = config /\ channel' = <<>>
    BY Zenon DEF StopExternal
  <2>3. loop'.cancelled = loop.cancelled /\ IsLoop(loop')
    BY <2>1, <2>2, Zenon DEF IsLoop
  <2> QED BY <2>2, <2>3, Zenon
<1>2. IsConns(conn') /\ \A c \in Conns : conn'[c].server # "Queued"
  <2>1. conn' = [c \in Conns |-> IF conn[c].server \in {"Queued", "Relay"}
                                 THEN ServerLeaves(c) ELSE conn[c]]
    BY Zenon DEF StopExternal
  <2>2. ASSUME NEW c \in Conns PROVE IsConn(conn'[c]) /\ conn'[c].server # "Queued"
    <3>1. conn'[c] = IF conn[c].server \in {"Queued", "Relay"} THEN ServerLeaves(c) ELSE conn[c]
      BY <2>1, Zenon
    <3>2. CASE conn[c].server \in {"Queued", "Relay"}
      <4>1. IsConn(ServerLeaves(c)) /\ ServerLeaves(c).server \in {"Closed", "Free"}
        BY <1>0, Leaving, Zenon
      <4>2. conn'[c] = ServerLeaves(c)
        BY <3>1, <3>2, Zenon
      <4>3. conn'[c].server \in {"Closed", "Free"}
        BY <4>1, <4>2, Zenon
      <4>4. conn'[c].server # "Queued"
        BY <4>3
      <4> QED BY <4>1, <4>2, <4>4, Zenon
    <3>3. CASE conn[c].server \notin {"Queued", "Relay"}
      BY <1>0, <3>1, <3>3, Zenon DEF IsConns
    <3> QED BY <3>2, <3>3, Zenon
  <2>3. conn' = [c \in Conns |-> conn'[c]]
    BY <2>1, Zenon
  <2> QED BY <2>2, <2>3, Zenon DEF IsConns
<1>3. QueueOf(conn', channel')
  <2>1. Where(conn', {"Queued"}) = {}
    BY <1>2, Zenon DEF Where
  <2>2. Number(conn', {"Queued"}) = 0
    BY <2>1, FS_EmptySet, Zenon DEF Number
  <2>3. channel' \in Seq(Conns) /\ Len(channel') = 0 /\ \A i : i \notin 1..Len(channel')
    BY <1>1
  <2> QED BY <2>2, <2>3, Zenon DEF QueueOf
<1>4. IsExts(ext') /\ \A e \in Externals : ext'[e].phase \in {"Away", "Done"}
  <2>1. ext' = [e \in Externals |-> IF ext[e].phase = "Away" THEN ext[e]
                                    ELSE [phase |-> "Done", conn |-> {}]]
    BY Zenon DEF StopExternal
  <2>2. ASSUME NEW e \in Externals
        PROVE  /\ ext'[e] = [phase |-> ext'[e].phase, conn |-> ext'[e].conn]
               /\ ext'[e].phase \in {"Away", "Done"}
    <3>1. PICK d : d = [phase |-> "Done", conn |-> {}]
      BY Zenon
    <3>2. d.phase = "Done" /\ d = [phase |-> d.phase, conn |-> d.conn]
      BY <3>1, Zenon
    <3>3. ext'[e] = IF ext[e].phase = "Away" THEN ext[e] ELSE d
      BY <2>1, <3>1, Zenon
    <3> QED BY <1>0, <3>2, <3>3, Zenon DEF IsExts
  <2>3. ext' = [e \in Externals |-> ext'[e]]
    BY <2>1, Zenon
  <2> QED BY <2>2, <2>3, Zenon DEF IsExts
<1>5. OwnersOf(conn', ext')
  <2>1. \A p \in {"Away", "Done"} : p \notin Holding /\ p # "Taking" /\ p \notin {"Paired", "Left"}
    BY DEF Holding
  <2> QED BY <1>4, <2>1, Zenon DEF OwnersOf, Has
<1>6. Structure'
  BY <1>0, <1>1, <1>2, <1>3, <1>4, <1>5, Zenon DEF Structure
<1> QED BY <1>1, <1>6, Zenon DEF ReverseInv, Serving
-----------------------------------------------------------------------------
(* Every step keeps the invariant. *)
LEMMA ReverseNext ==
    ASSUME ReverseInv, [Next]_vars
    PROVE  ReverseInv'
<1>1. ASSUME NEW c \in Conns, ConnStep(c) \/ HandshakeFails(c) PROVE ReverseInv'
  BY <1>1, ControlSteps, EnqueueStep, Zenon DEF ConnStep
<1>2. ASSUME NEW e \in Externals, ExternalStep(e) \/ AcceptExternal(e) \/ ExternalLeaves(e)
      PROVE  ReverseInv'
  BY <1>2, ReceiveStep, SpawnStep, ReturnStep, ArrivalSteps, Zenon DEF ExternalStep
<1> QED BY <1>1, <1>2, ClientSteps, CancelSteps, StopExternalStep, Zenon DEF Next

(* The sets CountersExact speaks of are the ones counted here. *)
LEMMA Sets ==
    LET admitted == At("Handshake") \cup At("Failed") \cup At("Accepted")
        pooled == admitted \cup At("Queued") \cup At("Taken")
    IN  /\ admitted = Where(conn, Admitted) /\ pooled = Where(conn, Pooled)
        /\ At("Excess") = Where(conn, {"Excess"}) /\ At("Queued") = Where(conn, {"Queued"})
        /\ At("Accepted") \cup At("Queued") \cup At("Taken") \cup At("Relay") = Where(conn, Authentic)
<1>1. At("Handshake") \cup At("Failed") \cup At("Accepted") = Where(conn, Admitted)
  BY Zenon DEF At, Where, Admitted
<1>2. Where(conn, Admitted) \cup At("Queued") \cup At("Taken") = Where(conn, Pooled)
  BY Zenon DEF At, Where, Admitted, Pooled
<1>3. At("Excess") = Where(conn, {"Excess"}) /\ At("Queued") = Where(conn, {"Queued"})
  BY Zenon DEF At, Where
<1>4. At("Accepted") \cup At("Queued") \cup At("Taken") \cup At("Relay") = Where(conn, Authentic)
  BY Zenon DEF At, Where, Authentic
<1> QED BY <1>1, <1>2, <1>3, <1>4, Zenon

(* The invariant says of the counters what CountersExact says. *)
LEMMA ReverseCounts == ReverseInv => CountersExact
<1> SUFFICES ASSUME ReverseInv PROVE CountersExact
  BY Zenon
<1>1. /\ Number(conn, {"Queued"}) = Len(channel)
      /\ Serving => /\ ControlCount(conn, config, active_control)
                    /\ GaugeCount(conn, config, gauge)
                    /\ StreamCount(ext, config, active_streams)
  BY Zenon DEF ReverseInv, Structure, QueueOf
<1>2. Cardinality(At("Queued")) = Len(channel)
  BY <1>1, Sets, Zenon DEF Number
<1>3. ASSUME Serving, Native
      PROVE  /\ active_control = Number(conn, Pooled) + Number(conn, {"Excess"})
             /\ Number(conn, Pooled) <= config.controls
             /\ active_streams = Cardinality(Served(ext)) /\ active_streams <= config.streams
             /\ gauge = Number(conn, Authentic)
  BY <1>1, <1>3, Zenon DEF Native, ControlCount, GaugeCount, StreamCount
<1>4. ASSUME Serving, ~Native
      PROVE  /\ active_control = Number(conn, Admitted) + Number(conn, {"Excess"})
             /\ Number(conn, Admitted) <= Limit(config)
  BY <1>1, <1>4, Zenon DEF Native, ControlCount
<1> QED BY <1>2, <1>3, <1>4, Sets, Zenon DEF CountersExact, Number, Limit, Served

(* While the reverse server runs, each of its counters is exact after      *)
(* every step of any task: no path of accept_control_connections,          *)
(* handle_control_connection, accept_external_clients or the relay task    *)
(* adds one without the matching subtraction, and the limits on control    *)
(* connections and on streams are never passed; the queue of authenticated *)
(* connections holds each exactly once.                                    *)
THEOREM ReverseCountersExact == Spec => []CountersExact
<1>1. Init => ReverseInv
  BY ReverseInit
<1>2. ReverseInv /\ [Next]_vars => ReverseInv'
  BY ReverseNext
<1>3. ReverseInv => CountersExact
  BY ReverseCounts
<1> QED BY <1>1, <1>2, <1>3, PTL DEF Spec
=============================================================================
