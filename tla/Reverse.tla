------------------------------- MODULE Reverse -------------------------------
(***************************************************************************)
(* Backward connections, eggress-protocol-reverse: a server that is dialled *)
(* by its clients over control connections, queues those, and hands each   *)
(* to one external client; and the clients, which dial again when their    *)
(* connection is used up.  Both framings are here: the native one          *)
(* (server.rs, client.rs) and the one that talks to pproxy                 *)
(* (compat_pproxy.rs).  The supervisor runs them (services.rs) and drops   *)
(* their run futures when it shuts down.                                   *)
(***************************************************************************)
EXTENDS Integers, Sequences, FiniteSets

CONSTANTS
    Clients,    \* the clients' parallel connections, one loop each
    Externals,  \* external clients
    Conns,      \* bound: control connections alive at once
    Capacity,   \* of the channel of control connections
    Configs     \* the configurations considered; with each the clients' loops, the
                \* external clients, and as bounds how many handshakes the network
                \* or a wrong password ends, which processes may be shut down and
                \* which directions may have more to write than is read

Directions == {"e2c", "c2e", "c2t", "t2c"}

ASSUME ReverseAssumption ==
    /\ IsFiniteSet(Conns) /\ IsFiniteSet(Externals)
    /\ Capacity \in Nat \ {0}
    /\ \A cf \in Configs :
          /\ cf.framing \in {"native", "pproxy"} /\ cf.idle \in BOOLEAN
          /\ {cf.controls, cf.streams, cf.pending, cf.resets} \subseteq Nat
          /\ cf.clients \subseteq Clients /\ cf.externals \subseteq Externals
          /\ cf.slow \subseteq Directions

VARIABLES
    config,   \* the limits, the framing, and whether read_timeout_ms is set
    conn,     \* control connections: what either end does, what was told
    channel,  \* control_tx / control_rx
    client,   \* the clients' loops
    ext,      \* external clients and their relays
    loop,     \* the two accept loops of the server
    active_control, active_streams, pending_external,  \* ReverseServerState
    gauge,    \* control_connections_active
    resets    \* handshakes that failed so far

serverVars == <<channel, loop>>
counters == <<active_control, active_streams, pending_external, gauge>>
vars == <<config, conn, client, ext, resets, serverVars, counters>>

Native == config.framing = "native"

(* A connection: where the server has it, whether its client still holds   *)
(* it, whether an accept byte is under way, and which of the four          *)
(* directions of the two relays around it have ended or wait in write_all. *)
Free == [server |-> "Free", client |-> "Gone", told |-> FALSE, ended |-> {}, blocked |-> {}]

Init ==
    /\ config \in Configs
    /\ conn = [c \in Conns |-> Free]
    /\ channel = <<>>
    /\ client = [k \in Clients |-> [phase |-> IF k \in config.clients THEN "Dial" ELSE "Stopped",
                                    conn |-> {}]]
    /\ ext = [e \in Externals |-> [phase |-> IF e \in config.externals THEN "Away" ELSE "Done",
                                   conn |-> {}]]
    /\ loop = [control |-> "Accept", external |-> "Accept", cancelled |-> FALSE]
    /\ active_control = 0 /\ active_streams = 0 /\ pending_external = 0 /\ gauge = 0
    /\ resets = 0
-----------------------------------------------------------------------------
(* Either end drops a connection; with both gone nothing is left of it. *)
Settled(r) == IF r.server = "Closed" /\ r.client = "Gone" THEN Free ELSE r

ServerLeaves(c) == Settled([conn[c] EXCEPT !.server = "Closed",
                                           !.ended = @ \ {"e2c", "c2e"},
                                           !.blocked = @ \ {"e2c", "c2e"}])
ClientLeaves(c) == Settled([conn[c] EXCEPT !.client = "Gone", !.told = FALSE,
                                           !.ended = @ \ {"c2t", "t2c"},
                                           !.blocked = @ \ {"c2t", "t2c"}])

At(server) == {c \in Conns : conn[c].server = server}
Held(k) == CHOOSE c \in Conns : client[k].conn = {c}

ClientGoes(k, phase) ==
    client' = [client EXCEPT ![k] = [@ EXCEPT !.phase = phase]]

(* run_session returns: the client's end of the connection is dropped.     *)
SessionOver(k, phase) ==
    /\ client' = [client EXCEPT ![k] = [phase |-> phase, conn |-> {}]]
    /\ conn' = [c \in Conns |-> IF c \in client[k].conn THEN ClientLeaves(c) ELSE conn[c]]
-----------------------------------------------------------------------------
(* The client's loop.  A failed session waits before the next one, one     *)
(* that was relayed does not, however it ended.                            *)
Dial(k) ==
    /\ client[k].phase = "Dial"
    /\ UNCHANGED <<config, ext, resets, serverVars, counters>>
    /\ IF loop.control = "Stopped"
       THEN ClientGoes(k, "Backoff") /\ UNCHANGED conn
       ELSE /\ At("Free") # {}
            /\ LET c == CHOOSE c \in At("Free") : TRUE IN
               /\ conn' = [conn EXCEPT ![c] = [Free EXCEPT !.server = "Backlog", !.client = "Open"]]
               /\ client' = [client EXCEPT ![k] = [phase |-> IF Native THEN "Hello" ELSE "Target",
                                                   conn |-> {c}]]

(* The accept byte, or the end of the stream in its place. *)
ReadHandshake(k) ==
    /\ client[k].phase = "Hello"
    /\ \/ /\ conn[Held(k)].told /\ ClientGoes(k, "Target")
          /\ conn' = [conn EXCEPT ![Held(k)].told = FALSE]
       \/ conn[Held(k)].server = "Closed" /\ ~conn[Held(k)].told /\ SessionOver(k, "Backoff")
    /\ UNCHANGED <<config, ext, resets, serverVars, counters>>

(* The route is asked for, and the target connected, as soon as the        *)
(* connection stands: nobody may have been handed to it yet.               *)
ConnectTarget(k) ==
    /\ client[k].phase = "Target"
    /\ \/ ClientGoes(k, "Relay") /\ UNCHANGED conn
       \/ SessionOver(k, "Backoff")   \* rejected, refused, timed out
    /\ UNCHANGED <<config, ext, resets, serverVars, counters>>

ClientRelayReturns(k) ==
    /\ client[k].phase = "Relay" /\ {"c2t", "t2c"} \subseteq conn[Held(k)].ended
    /\ SessionOver(k, "Dial")
    /\ UNCHANGED <<config, ext, resets, serverVars, counters>>

BackoffEnds(k) ==
    /\ client[k].phase = "Backoff"
    /\ ClientGoes(k, "Dial")
    /\ UNCHANGED <<config, conn, ext, resets, serverVars, counters>>

(* The supervisor drops the client's run future, wherever it waits. *)
CancelClient(k) ==
    /\ "clients" \in config.stops /\ client[k].phase # "Stopped"
    /\ SessionOver(k, "Stopped")
    /\ UNCHANGED <<config, ext, resets, serverVars, counters>>
-----------------------------------------------------------------------------
Server(c, server) == [conn EXCEPT ![c].server = server]

Admits(n) == n < IF Native THEN config.controls
                 ELSE IF config.controls = 0 THEN 1 ELSE config.controls

(* The counter is raised first and then looked at. *)
AcceptControl(c) ==
    /\ loop.control = "Accept" /\ conn[c].server = "Backlog"
    /\ active_control' = active_control + 1
    /\ IF Admits(active_control)
       THEN conn' = Server(c, "Handshake") /\ UNCHANGED loop
       ELSE conn' = Server(c, "Excess") /\ loop' = [loop EXCEPT !.control = "Reject"]
    /\ UNCHANGED <<config, client, ext, resets, channel, active_streams, pending_external, gauge>>

RejectControl(c) ==
    /\ conn[c].server = "Excess"
    /\ active_control' = active_control - 1
    /\ conn' = [conn EXCEPT ![c] = ServerLeaves(c)]
    /\ loop' = [loop EXCEPT !.control = "Accept"]
    /\ UNCHANGED <<config, client, ext, resets, channel, active_streams, pending_external, gauge>>

(* TLS and authentication: the native server tells the client, and counts  *)
(* the connection, before it is queued.                                    *)
Authenticate(c) ==
    /\ conn[c].server = "Handshake"
    /\ conn' = [conn EXCEPT ![c].server = "Accepted", ![c].told = Native /\ conn[c].client = "Open"]
    /\ gauge' = IF Native THEN gauge + 1 ELSE gauge
    /\ UNCHANGED <<config, client, ext, resets, serverVars, active_control, active_streams,
                   pending_external>>

(* The handler fails: a native client was stopped before its credentials   *)
(* were out (pproxy's are sent before anything can stop it), the token     *)
(* interrupts a TLS handshake, or the network or a wrong password ends it. *)
HandshakeFails(c) ==
    /\ conn[c].server = "Handshake"
    /\ \/ Native /\ (conn[c].client = "Gone" \/ loop.cancelled) /\ UNCHANGED resets
       \/ conn[c].client = "Open" /\ resets < config.resets /\ resets' = resets + 1
    /\ conn' = Server(c, "Failed")
    /\ UNCHANGED <<config, client, ext, serverVars, counters>>

(* The failure as it would be if it did not lower the counter. *)
ReleaseFailedLeaks(c) ==
    /\ conn[c].server = "Failed"
    /\ conn' = [conn EXCEPT ![c] = ServerLeaves(c)]
    /\ UNCHANGED <<config, client, ext, resets, serverVars, counters>>

ReleaseFailed(c) ==
    /\ conn[c].server = "Failed"
    /\ active_control' = active_control - 1
    /\ conn' = [conn EXCEPT ![c] = ServerLeaves(c)]
    /\ UNCHANGED <<config, client, ext, resets, serverVars, active_streams, pending_external, gauge>>

Receiving == loop.external # "Stopped"

(* The native handler gives a connection up that the channel has no room   *)
(* for; pproxy's waits for room, and is done with counting once it queued  *)
(* the connection or the channel is closed.                                *)
Enqueue(c) ==
    /\ conn[c].server = "Accepted"
    /\ IF Receiving /\ Len(channel) < Capacity
       THEN /\ conn' = Server(c, "Queued")
            /\ channel' = Append(channel, c)
            /\ active_control' = IF Native THEN active_control ELSE active_control - 1
            /\ UNCHANGED gauge
       ELSE /\ Native \/ ~Receiving
            /\ conn' = [conn EXCEPT ![c] = ServerLeaves(c)]
            /\ active_control' = active_control - 1
            /\ gauge' = IF Native THEN gauge - 1 ELSE gauge
            /\ UNCHANGED channel
    /\ UNCHANGED <<config, client, ext, resets, loop, active_streams, pending_external>>
-----------------------------------------------------------------------------
(* The external accept loop takes one client at a time, and waits with it  *)
(* for a control connection.  Only the native one has limits.              *)
AcceptExternal(e) ==
    /\ loop.external = "Accept" /\ ext[e].phase = "Away"
    /\ IF ~Native \/ (active_streams < config.streams /\ pending_external < config.pending)
       THEN /\ ext' = [ext EXCEPT ![e].phase = "Waiting"]
            /\ loop' = [loop EXCEPT !.external = "Wait"]
            /\ active_streams' = IF Native THEN active_streams + 1 ELSE active_streams
            /\ pending_external' = IF Native THEN pending_external + 1 ELSE pending_external
       ELSE /\ ext' = [ext EXCEPT ![e].phase = "Done"]
            /\ UNCHANGED <<loop, active_streams, pending_external>>
    /\ UNCHANGED <<config, conn, client, resets, channel, active_control, gauge>>

(* The oldest control connection, alive or not. *)
ReceiveControl(e) ==
    /\ ext[e].phase = "Waiting" /\ channel # <<>>
    /\ channel' = Tail(channel)
    /\ conn' = Server(Head(channel), "Taken")
    /\ ext' = [ext EXCEPT ![e] = [phase |-> "Taking", conn |-> {Head(channel)}]]
    /\ UNCHANGED <<config, client, resets, loop, counters>>

SpawnRelay(e) ==
    /\ ext[e].phase = "Taking"
    /\ ext' = [ext EXCEPT ![e].phase = "Paired"]
    /\ conn' = [c \in Conns |-> IF c \in ext[e].conn
                                THEN [conn[c] EXCEPT !.server = "Relay"] ELSE conn[c]]
    /\ loop' = [loop EXCEPT !.external = "Accept"]
    /\ pending_external' = IF Native THEN pending_external - 1 ELSE pending_external
    /\ active_control' = IF Native THEN active_control - 1 ELSE active_control
    /\ UNCHANGED <<config, client, resets, channel, active_streams, gauge>>

(* The client at the far end of a relay closes its socket. *)
ExternalLeaves(e) ==
    /\ ext[e].phase = "Paired"
    /\ ext' = [ext EXCEPT ![e].phase = "Left"]
    /\ UNCHANGED <<config, conn, client, resets, serverVars, counters>>

(* The end of a relay as it would be if its slot were kept. *)
RelayReturnsKeepsSlot(e) ==
    /\ ext[e].phase \in {"Paired", "Left"}
    /\ \E c \in ext[e].conn :
          /\ {"e2c", "c2e"} \subseteq conn[c].ended
          /\ conn' = [conn EXCEPT ![c] = ServerLeaves(c)]
    /\ ext' = [ext EXCEPT ![e] = [phase |-> "Done", conn |-> {}]]
    /\ gauge' = IF Native THEN gauge - 1 ELSE gauge
    /\ UNCHANGED <<config, client, resets, serverVars, active_control, active_streams,
                   pending_external>>

RelayReturns(e) ==
    /\ ext[e].phase \in {"Paired", "Left"}
    /\ \E c \in ext[e].conn :
          /\ {"e2c", "c2e"} \subseteq conn[c].ended
          /\ conn' = [conn EXCEPT ![c] = ServerLeaves(c)]
    /\ ext' = [ext EXCEPT ![e] = [phase |-> "Done", conn |-> {}]]
    /\ active_streams' = IF Native THEN active_streams - 1 ELSE active_streams
    /\ gauge' = IF Native THEN gauge - 1 ELSE gauge
    /\ UNCHANGED <<config, client, resets, serverVars, active_control, pending_external>>
-----------------------------------------------------------------------------
(* relay_bidirectional_boxed, at both ends: a direction that ends shuts its *)
(* writing side down, and that is the end of the stream for the direction  *)
(* of the other relay that reads it.                                       *)
Relaying(c, d) ==
    IF d \in {"e2c", "c2e"} THEN conn[c].server = "Relay"
    ELSE \E k \in Clients : client[k].phase = "Relay" /\ client[k].conn = {c}

ExternalGone(c) == \E e \in Externals : ext[e].conn = {c} /\ ext[e].phase = "Left"

(* What a direction reads is at its end. *)
AtEnd(c, d) ==
    CASE d = "e2c" -> ExternalGone(c)
      [] d = "c2e" -> conn[c].client = "Gone" \/ "t2c" \in conn[c].ended
      [] d = "c2t" -> conn[c].server = "Closed" \/ "e2c" \in conn[c].ended
      [] d = "t2c" -> FALSE

(* What it writes to has gone.  It notices by its next write, or there is  *)
(* nothing to write and it runs into the idle timeout.                     *)
Futile(c, d) ==
    CASE d = "e2c" -> conn[c].client = "Gone"
      [] d = "c2e" -> ExternalGone(c)
      [] d = "c2t" -> FALSE
      [] d = "t2c" -> conn[c].server = "Closed"

(* Nobody takes what it writes: the other relay is not there yet, has      *)
(* stopped reading or waits itself, and an external client or a target may *)
(* stop reading at any time.                                               *)
Unread(c, d) ==
    LET waits(reader) == ~Relaying(c, reader) \/ reader \in conn[c].ended \cup conn[c].blocked IN
    CASE d = "e2c" -> waits("c2t")
      [] d = "t2c" -> waits("c2e")
      [] OTHER -> TRUE

Running(c, d) == Relaying(c, d) /\ d \notin conn[c].ended

(* The buffers before a reader that has stopped are full, and write_all,   *)
(* which the idle timeout does not cover, waits.  What is left to write    *)
(* after the last read makes no difference to when it waits.               *)
WriteBlocks(c, d) ==
    /\ d \in config.slow /\ Running(c, d) /\ d \notin conn[c].blocked
    /\ Unread(c, d) /\ ~AtEnd(c, d) /\ ~Futile(c, d)
    /\ conn' = [conn EXCEPT ![c].blocked = @ \cup {d}]
    /\ UNCHANGED <<config, client, ext, resets, serverVars, counters>>

(* The reader takes some of it.  A direction that goes on makes room for   *)
(* the one whose bytes it carries further.                                 *)
WriteGoesOn(c, d) ==
    /\ d \in conn[c].blocked
    /\ d \in {"c2t", "c2e"} \/ ~Unread(c, d)
    /\ conn' = [conn EXCEPT ![c].blocked = @ \ CASE d = "c2t" -> {"c2t", "e2c"}
                                                 [] d = "c2e" -> {"c2e", "t2c"}
                                                 [] OTHER -> {d}]
    /\ UNCHANGED <<config, client, ext, resets, serverVars, counters>>

(* The directions that are bound to end, as they would be if there were no *)
(* idle timeout: a write may never come.                                   *)
MustEndByReading(c, d) ==
    Running(c, d) /\ IF d \in conn[c].blocked THEN Futile(c, d) ELSE AtEnd(c, d)

(* One that waits in a write ends only with what it writes to. *)
MustEnd(c, d) ==
    /\ Running(c, d)
    /\ IF d \in conn[c].blocked THEN Futile(c, d)
       ELSE AtEnd(c, d) \/ (config.idle /\ Futile(c, d))

Ends(c, d) ==
    /\ conn' = [conn EXCEPT ![c].ended = @ \cup {d}, ![c].blocked = @ \ {d}]
    /\ UNCHANGED <<config, client, ext, resets, serverVars, counters>>

DirectionEnds(c, d) == MustEnd(c, d) /\ Ends(c, d)

(* The idle timeout of a direction whose peers are just silent, a write    *)
(* that fails, a target that closes or resets.                             *)
DirectionBreaks(c, d) ==
    /\ Running(c, d)
    /\ IF d \in conn[c].blocked THEN Futile(c, d) \/ d = "c2t"
       ELSE config.idle \/ Futile(c, d) \/ d \in {"t2c", "c2t"}
    /\ Ends(c, d)
-----------------------------------------------------------------------------
(* The supervisor drops the server's run future and cancels its token; the *)
(* loops it spawned notice by themselves.                                  *)
CancelServer ==
    /\ "server" \in config.stops /\ ~loop.cancelled
    /\ loop' = [loop EXCEPT !.cancelled = TRUE]
    /\ UNCHANGED <<config, conn, client, ext, resets, channel, counters>>

StopControl ==
    /\ loop.cancelled /\ loop.control = "Accept"
    /\ loop' = [loop EXCEPT !.control = "Stopped"]
    /\ conn' = [c \in Conns |-> IF conn[c].server = "Backlog" THEN ServerLeaves(c) ELSE conn[c]]
    /\ UNCHANGED <<config, client, ext, resets, channel, counters>>

(* The client that waits is let go, the relays are aborted and joined, and *)
(* the queue goes with its receiver.  Neither the aborted relays nor the   *)
(* queued connections give back what they were counted for.                *)
StopExternal ==
    /\ loop.cancelled /\ loop.external \in {"Accept", "Wait"}
    /\ \A e \in Externals : ext[e].phase # "Taking"
    /\ LET waiting == {e \in Externals : ext[e].phase = "Waiting"} IN
       /\ pending_external' = IF waiting # {} /\ Native THEN pending_external - 1 ELSE pending_external
       /\ active_streams' = IF waiting # {} /\ Native THEN active_streams - 1 ELSE active_streams
    /\ ext' = [e \in Externals |-> IF ext[e].phase = "Away" THEN ext[e]
                                   ELSE [phase |-> "Done", conn |-> {}]]
    /\ conn' = [c \in Conns |-> IF conn[c].server \in {"Queued", "Relay"}
                                THEN ServerLeaves(c) ELSE conn[c]]
    /\ channel' = <<>>
    /\ loop' = [loop EXCEPT !.external = "Stopped"]
    /\ UNCHANGED <<config, client, resets, active_control, gauge>>
-----------------------------------------------------------------------------
ClientStep(k) ==
    Dial(k) \/ ReadHandshake(k) \/ ConnectTarget(k) \/ ClientRelayReturns(k) \/ BackoffEnds(k)

ConnStep(c) ==
    AcceptControl(c) \/ RejectControl(c) \/ Authenticate(c) \/ ReleaseFailed(c) \/ Enqueue(c)

ExternalStep(e) == ReceiveControl(e) \/ SpawnRelay(e) \/ RelayReturns(e)

Next ==
    \/ \E k \in Clients : ClientStep(k) \/ CancelClient(k)
    \/ \E c \in Conns : ConnStep(c) \/ HandshakeFails(c)
    \/ \E e \in Externals : ExternalStep(e) \/ AcceptExternal(e) \/ ExternalLeaves(e)
    \/ \E c \in Conns, d \in Directions :
          DirectionEnds(c, d) \/ DirectionBreaks(c, d) \/ WriteBlocks(c, d) \/ WriteGoesOn(c, d)
    \/ CancelServer \/ StopControl \/ StopExternal

(* Every task runs on; external clients, targets and faults need not do    *)
(* anything.  The clients are this program's: they send their credentials  *)
(* as soon as they have dialled, and so a handshake, which has no timer in *)
(* the native server, is over.  A relay that reads takes what is written   *)
(* to it.  What else happens to one connection is finite, so it is enough  *)
(* that some step of it is not put off for ever.                           *)
Fairness ==
    /\ \A k \in Clients : WF_vars(ClientStep(k))
    /\ \A c \in Conns : WF_vars(ConnStep(c) \/ \E d \in Directions : DirectionEnds(c, d))
    /\ \A c \in Conns, d \in {"e2c", "t2c"} : WF_vars(WriteGoesOn(c, d))
    /\ \A e \in Externals : WF_vars(ExternalStep(e))
    /\ WF_vars(StopControl \/ StopExternal)

Spec == Init /\ [][Next]_vars /\ Fairness
-----------------------------------------------------------------------------
Serving == ~loop.cancelled

(* While the server runs, its counters are what they count (fetch_add and  *)
(* fetch_sub on the paths of accept_control_connections,                   *)
(* handle_control_connection and accept_external_clients): active_control  *)
(* the connections in a handshake or in the queue, never more of them than *)
(* max_control_connections; active_streams the external clients waiting or *)
(* relayed, never more than max_streams_per_listener; and the metrics'     *)
(* gauge the authenticated connections.  The queue holds each once.        *)
CountersExact ==
    LET admitted == At("Handshake") \cup At("Failed") \cup At("Accepted")
        pooled == admitted \cup At("Queued") \cup At("Taken")
        served == {e \in Externals : ext[e].phase \in {"Waiting", "Taking", "Paired", "Left"}}
        excess == Cardinality(At("Excess"))
    IN
    /\ Cardinality(At("Queued")) = Len(channel)
    /\ Serving =>
       IF Native
       THEN /\ active_control = Cardinality(pooled) + excess
            /\ Cardinality(pooled) <= config.controls
            /\ active_streams = Cardinality(served) /\ active_streams <= config.streams
            /\ gauge = Cardinality(At("Accepted") \cup At("Queued") \cup At("Taken") \cup At("Relay"))
       ELSE /\ active_control = Cardinality(admitted) + excess
            /\ Cardinality(admitted) <= IF config.controls = 0 THEN 1 ELSE config.controls

(* A client's loop relays for an external client, or its target does not   *)
(* let go of it: it does not read, or, with no idle timeout, does not end. *)
Busy(k) ==
    /\ client[k].phase = "Relay"
    /\ \/ conn[Held(k)].server = "Relay"
       \/ "c2t" \in conn[Held(k)].blocked
       \/ ~config.idle /\ "t2c" \notin conn[Held(k)].ended

(* An external client that waits (accept_external_clients) is given a      *)
(* control connection, unless the server is shut down or every client      *)
(* is stopped or busy: no sequence of failed handshakes, dead connections  *)
(* in the queue or rejected ones uses max_control_connections up for good. *)
ExternalServed ==
    (loop.external = "Wait") ~>
        \/ loop.external # "Wait"
        \/ \A k \in Clients : Busy(k) \/ client[k].phase = "Stopped"

(* When an external client leaves, or the client behind a control          *)
(* connection does, both relays around that connection end and both ends   *)
(* of it are dropped (relay_bidirectional_boxed with its idle timeout).    *)
(* The one exception is a write that waits for ever: the timeout covers    *)
(* only the reads, so an outsider that has stopped reading, or two         *)
(* directions that each write to a relay of which the reading half has     *)
(* ended, keep the session.                                                *)
SessionEnds ==
    \A c \in Conns :
        (config.idle /\ conn[c].server = "Relay" /\ (ExternalGone(c) \/ conn[c].client = "Gone"))
            ~> \/ conn[c].server # "Relay" /\ (conn[c].client = "Gone" \/ conn[c].server # "Closed")
               \/ [](\E d \in conn[c].blocked : Unread(c, d))

(* Once the token is cancelled no relay, no queued connection and no       *)
(* waiting client is left (accept_external_clients aborts and joins what   *)
(* it spawned), and nothing is queued again by a handshake that ends late. *)
ShutdownEnds ==
    loop.cancelled ~>
        [](/\ channel = <<>> /\ At("Queued") \cup At("Taken") \cup At("Relay") = {}
           /\ \A e \in Externals : ext[e].phase \in {"Away", "Done"})

(* A session ends at both of its ends, and all of them at shutdown. *)
ReverseEnds == SessionEnds /\ ShutdownEnds
=============================================================================
