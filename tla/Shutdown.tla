------------------------------ MODULE Shutdown ------------------------------
(***************************************************************************)
(* The life of the service supervisor: the accept loops that hand          *)
(* connections to a task tracker, the tasks those connections run, the     *)
(* auxiliary services that watch the root token, the admin server, and the *)
(* ordered shutdown that stops them under one deadline                     *)
(* (eggress-runtime/src/supervisor.rs and supervisor/shutdown.rs).         *)
(*                                                                         *)
(* A TCP listener bounds its connections with a semaphore it waits for; a  *)
(* transparent or Unix listener ("slot") with a counter that refuses; H3   *)
(* connections are tracked but not counted, and raw QUIC connections are   *)
(* neither.                                                                *)
(*                                                                         *)
(* The supervisor's position is `stage'.  Every other task of the process  *)
(* runs concurrently with it, so each action below may happen between any  *)
(* two steps of shutdown_ordered.                                          *)
(***************************************************************************)
EXTENDS Integers, FiniteSets

CONSTANTS
    Conns,       \* connections that clients may open
    Mixes,       \* how each connection is served, in each case considered
    Limit,       \* connection_limit of the TCP listener
    SlotLimit,   \* connection_limit of the transparent or Unix listener
    Services,    \* reverse and standalone UDP tasks, which watch `cancel'
    MaxStreams   \* bound on the streams a connection runs at a time

ASSUME ConnsAssumption == IsFiniteSet(Conns)
ASSUME LimitAssumption == Limit \in Nat \ {0} /\ SlotLimit \in Nat
ASSUME StreamsAssumption == MaxStreams \in Nat

TcpKinds == {"plain", "h2", "websocket", "udp"}
OtherKinds == {"slot", "h3", "quic"}

\* A connection of kind "none" is never opened.
ASSUME MixesAssumption ==
    Mixes \subseteq [Conns -> TcpKinds \cup OtherKinds \cup {"none"}]

VARIABLES
    kind,           \* kind[k]: how the connection is served
    stage,          \* where run() is
    ready,          \* the readiness flag
    cancel,         \* the root token: set by the embedding, not by signals
    listenerCancel, connCancel, adminCancel,
    expired,        \* the deadline of shutdown_ordered has passed
    late,           \* the waits that ended by the deadline
    loop,           \* the TCP accept loop
    permits,        \* its semaphore
    others,         \* the accept loops of the other listeners
    slots,          \* listener_active of the slot listener
    socket,         \* the socket file of a Unix listener
    conn,           \* the state of each connection
    cut,            \* connections that were ended from our side
    active,         \* active_connections
    streams,        \* stream tasks of each H2 or H3 connection
    assoc,          \* the UDP association a connection opened
    service,        \* the auxiliary services
    admin           \* the admin server

tokens == <<cancel, listenerCancel, connCancel, adminCancel>>
sup == <<stage, ready, tokens, expired, late>>
loops == <<loop, permits, others, slots, socket>>
conns == <<loops, conn, cut, active, streams, assoc>>
rest == <<service, admin, kind>>
vars == <<sup, conns, rest>>

Stages == {"starting", "running", "stopListeners", "closeUdp", "waitUdp",
           "waitTasks", "drain", "checkDeadline", "waitConns", "stopAdmin",
           "waitAdmin", "returned", "dropped"}

\* The stages of shutdown_ordered after the accept loops were waited for.
Draining == {"drain", "checkDeadline", "waitConns", "stopAdmin", "waitAdmin"}

ShuttingDown == {"stopListeners", "closeUdp", "waitUdp", "waitTasks"} \cup Draining

\* In connection_tasks; an H3 connection is "multiplexed" there.
Tracked == {"spawned", "wrapping", "serving", "closing", "multiplexed"}
Guarded == {"wrapping", "serving", "closing"}             \* ActiveConnectionGuard
Permitted == {"accepted", "spawned", "wrapping", "serving"}  \* PermitStream, slot

In(S) == {k \in Conns : conn[k] \in S}
Of(K) == {k \in Conns : kind[k] \in K}

\* The streams of an H3 connection are spawned past the tracker.
ConnectionTasks == In(Tracked) \cup {k \in Of({"h2"}) : streams[k] > 0}
Untracked == In({"detached"}) \cup {k \in Of({"h3"}) : streams[k] > 0}
RelayTasks == {k \in Conns : assoc[k] \in {"open", "closing"}}

Init ==
    /\ kind \in Mixes
    /\ stage = "starting"
    /\ ready = FALSE
    /\ cancel = FALSE
    /\ listenerCancel = FALSE
    /\ connCancel = FALSE
    /\ adminCancel = FALSE
    /\ expired = FALSE
    /\ late = {}
    /\ loop = "permit"
    /\ permits = Limit
    /\ others = [l \in OtherKinds |-> IF Of({l}) = {} THEN "ended" ELSE "accept"]
    /\ slots = 0
    /\ socket = IF Of({"slot"}) = {} THEN "removed" ELSE "bound"
    /\ conn = [k \in Conns |-> "new"]
    /\ cut = {}
    /\ active = 0
    /\ streams = [k \in Conns |-> 0]
    /\ assoc = [k \in Conns |-> "none"]
    /\ service = [s \in Services |-> "running"]
    /\ admin = "running"

-----------------------------------------------------------------------------
(* The TCP accept loop.                                                    *)

AcquirePermit ==
    /\ loop = "permit"
    /\ permits > 0
    /\ permits' = permits - 1
    /\ loop' = "accept"
    /\ UNCHANGED <<sup, others, slots, socket, conn, cut,
                   active, streams, assoc, rest>>

Accept(k) ==
    /\ loop = "accept"
    /\ kind[k] \in TcpKinds
    /\ conn[k] = "new"
    /\ conn' = [conn EXCEPT ![k] = "accepted"]
    /\ loop' = "spawn"
    /\ UNCHANGED <<sup, others, slots, socket, permits, cut,
                   active, streams, assoc, rest>>

\* Mutant: the permit is lost with the failed accept.
AcceptFailsLeak ==
    /\ loop = "accept"
    /\ loop' = "backoff"
    /\ UNCHANGED <<sup, others, slots, socket, permits, conn,
                   cut, active, streams, assoc, rest>>

\* The permit is a local of accept() and is dropped with it.
AcceptFails ==
    /\ loop = "accept"
    /\ loop' = "backoff"
    /\ permits' = permits + 1
    /\ UNCHANGED <<sup, others, slots, socket, conn, cut,
                   active, streams, assoc, rest>>

Retry ==
    /\ loop = "backoff"
    /\ loop' = "permit"
    /\ UNCHANGED <<sup, others, slots, socket, permits, conn,
                   cut, active, streams, assoc, rest>>

\* Both selects of accept() watch the listener's token; neither is biased.
LoopCancelled ==
    /\ loop \in {"permit", "accept"}
    /\ listenerCancel
    /\ loop' = "ended"
    /\ permits' = permits + (IF loop = "accept" THEN 1 ELSE 0)
    /\ UNCHANGED <<sup, others, slots, socket, conn, cut,
                   active, streams, assoc, rest>>

Spawn(k) ==
    /\ loop = "spawn"
    /\ kind[k] \in TcpKinds
    /\ conn[k] = "accepted"
    /\ conn' = [conn EXCEPT ![k] = "spawned"]
    /\ loop' = "permit"
    /\ UNCHANGED <<sup, others, slots, socket, permits, cut,
                   active, streams, assoc, rest>>

-----------------------------------------------------------------------------
(* The other accept loops.                                                 *)

\* accept() returned a connection of a transparent or Unix listener: it is
\* dropped at the limit and, on a transparent listener, when its original
\* destination is unknown, which gives the slot back.
Refuse(k) ==
    /\ others["slot"] = "accept"
    /\ kind[k] = "slot"
    /\ conn[k] = "new"
    /\ conn' = [conn EXCEPT ![k] = "done"]
    /\ UNCHANGED <<sup, loops, cut, active, streams, assoc, rest>>

Admit(k) ==
    /\ others["slot"] = "accept"
    /\ kind[k] = "slot"
    /\ conn[k] = "new"
    /\ slots < SlotLimit
    /\ slots' = slots + 1
    /\ conn' = [conn EXCEPT ![k] = "spawned"]
    /\ UNCHANGED <<sup, loop, permits, others, socket, cut, active, streams,
                   assoc, rest>>

\* The pause after a failed accept does not watch the token.
OtherAcceptFails ==
    /\ others["slot"] = "accept"
    /\ others' = [others EXCEPT !["slot"] = "backoff"]
    /\ UNCHANGED <<sup, loop, permits, slots, socket, conn, cut, active,
                   streams, assoc, rest>>

OtherRetry ==
    /\ others["slot"] = "backoff"
    /\ others' = [others EXCEPT !["slot"] = "accept"]
    /\ UNCHANGED <<sup, loop, permits, slots, socket, conn, cut, active,
                   streams, assoc, rest>>

\* The QUIC handshake is awaited in the loop, without the token.
Incoming(k) ==
    /\ kind[k] \in {"h3", "quic"}
    /\ others[kind[k]] = "accept"
    /\ conn[k] = "new"
    /\ conn' = [conn EXCEPT ![k] = "accepted"]
    /\ others' = [others EXCEPT ![kind[k]] = "handshake"]
    /\ UNCHANGED <<sup, loop, permits, slots, socket, cut, active, streams,
                   assoc, rest>>

Handshake(k) ==
    /\ kind[k] \in {"h3", "quic"}
    /\ others[kind[k]] = "handshake"
    /\ conn[k] = "accepted"
    /\ \E to \in {IF kind[k] = "h3" THEN "multiplexed" ELSE "detached", "done"} :
          conn' = [conn EXCEPT ![k] = to]
    /\ others' = [others EXCEPT ![kind[k]] = "accept"]
    /\ UNCHANGED <<sup, loop, permits, slots, socket, cut, active, streams,
                   assoc, rest>>

\* A Unix listener removes its file; a raw QUIC listener closes its endpoint,
\* and with it every connection on it.
OtherLoopEnds(l) ==
    /\ others[l] = "accept"
    /\ listenerCancel
    /\ others' = [others EXCEPT ![l] = "ended"]
    /\ socket' = IF l = "slot" THEN "removed" ELSE socket
    /\ LET closed == IF l = "quic" THEN In({"detached"}) ELSE {}
       IN  /\ conn' = [k \in Conns |-> IF k \in closed THEN "done" ELSE conn[k]]
           /\ cut' = cut \cup closed
    /\ UNCHANGED <<sup, loop, permits, slots, active, streams, assoc, rest>>

\* An H3 connection ends with its client or by the token, a raw QUIC
\* connection only with its client.
MultiplexEnds(k) ==
    /\ conn[k] \in {"multiplexed", "detached"}
    /\ conn' = [conn EXCEPT ![k] = "done"]
    /\ UNCHANGED <<sup, loops, cut, active, streams, assoc, rest>>

MultiplexCancelled(k) ==
    /\ conn[k] = "multiplexed"
    /\ connCancel
    /\ conn' = [conn EXCEPT ![k] = "done"]
    /\ cut' = cut \cup {k}
    /\ UNCHANGED <<sup, loops, active, streams, assoc, rest>>

-----------------------------------------------------------------------------
(* A connection's task.                                                    *)

\* The guard that counts the connection is made by the task itself.
Start(k) ==
    /\ conn[k] = "spawned"
    /\ conn' = [conn EXCEPT ![k] = "wrapping"]
    /\ active' = active + 1
    /\ UNCHANGED <<sup, loops, cut, streams, assoc, rest>>

\* wrap_tls_server, which observes no token and has no timeout.
Wrap(k) ==
    /\ conn[k] = "wrapping"
    /\ conn' = [conn EXCEPT ![k] = "serving"]
    /\ UNCHANGED <<sup, loops, cut, active, streams, assoc, rest>>

\* The stream, and the permit or the slot with it, is dropped before the guard.
EndStream(k) ==
    /\ conn' = [conn EXCEPT ![k] = "closing"]
    /\ permits' = permits + (IF kind[k] = "slot" THEN 0 ELSE 1)
    /\ slots' = slots - (IF kind[k] = "slot" THEN 1 ELSE 0)
    /\ UNCHANGED <<loop, others, socket>>

WrapFails(k) ==
    /\ conn[k] = "wrapping"
    /\ EndStream(k)
    /\ UNCHANGED <<sup, cut, active, streams, assoc, rest>>

\* The session is over; a control connection takes its association along.
Finish(k) ==
    /\ conn[k] = "serving"
    /\ EndStream(k)
    /\ assoc' = [assoc EXCEPT ![k] = IF @ = "open" THEN "closing" ELSE @]
    /\ UNCHANGED <<sup, cut, active, streams, rest>>

\* The select of the plain path.  Dropping execute_udp_associate cancels
\* nothing: its association lives on until it is idle.  An H2 connection and
\* a WebSocket session do not watch the token.
Cancelled(k) ==
    /\ conn[k] = "serving"
    /\ kind[k] \in {"plain", "udp", "slot"}
    /\ connCancel
    /\ EndStream(k)
    /\ cut' = cut \cup {k}
    /\ UNCHANGED <<sup, active, streams, assoc, rest>>

Close(k) ==
    /\ conn[k] = "closing"
    /\ conn' = [conn EXCEPT ![k] = "done"]
    /\ active' = active - 1
    /\ UNCHANGED <<sup, loops, cut, streams, assoc, rest>>

\* serve_h2_connection spawns every CONNECT stream onto connection_tasks, the
\* serve_connection of H3 onto the runtime.
OpenStream(k) ==
    /\ \/ conn[k] = "serving" /\ kind[k] = "h2"
       \/ conn[k] = "multiplexed"
    /\ streams[k] < MaxStreams
    /\ streams' = [streams EXCEPT ![k] = @ + 1]
    /\ UNCHANGED <<sup, loops, conn, cut, active, assoc, rest>>

\* A stream ends by itself, also after its connection, or by the token that
\* only those of H2 watch.
StreamEnds(k) ==
    /\ streams[k] > 0
    /\ streams' = [streams EXCEPT ![k] = @ - 1]
    /\ UNCHANGED <<sup, loops, conn, cut, active, assoc, rest>>

StreamCancelled(k) ==
    /\ streams[k] > 0
    /\ kind[k] = "h2"
    /\ connCancel
    /\ streams' = [streams EXCEPT ![k] = @ - 1]
    /\ cut' = cut \cup {k}
    /\ UNCHANGED <<sup, loops, conn, active, assoc, rest>>

OpenAssociation(k) ==
    /\ conn[k] = "serving"
    /\ kind[k] = "udp"
    /\ assoc[k] = "none"
    /\ assoc' = [assoc EXCEPT ![k] = "open"]
    /\ UNCHANGED <<sup, loops, conn, cut, active, streams, rest>>

AssociationIdle(k) ==
    /\ assoc[k] = "open"
    /\ assoc' = [assoc EXCEPT ![k] = "closing"]
    /\ UNCHANGED <<sup, loops, conn, cut, active, streams, rest>>

RelayEnds(k) ==
    /\ assoc[k] = "closing"
    /\ assoc' = [assoc EXCEPT ![k] = "gone"]
    /\ UNCHANGED <<sup, loops, conn, cut, active, streams, rest>>

ServiceEnds(s) ==
    /\ service[s] = "running"
    /\ cancel
    /\ service' = [service EXCEPT ![s] = "ended"]
    /\ UNCHANGED <<sup, conns, admin, kind>>

\* A service that fails ends by itself.
ServiceFails(s) ==
    /\ service[s] = "running"
    /\ service' = [service EXCEPT ![s] = "ended"]
    /\ UNCHANGED <<sup, conns, admin, kind>>

AdminEnds ==
    /\ admin = "running"
    /\ adminCancel
    /\ admin' = "ended"
    /\ UNCHANGED <<sup, conns, service, kind>>

-----------------------------------------------------------------------------
(* The supervisor.                                                         *)

\* shutdown() or drop of an embedding's handle.
Cancel ==
    /\ ~cancel
    /\ cancel' = TRUE
    /\ UNCHANGED <<stage, ready, listenerCancel, connCancel, adminCancel,
                   expired, late, conns, rest>>

\* The admin bind fails: run() returns the error without any shutdown.
StartFails ==
    /\ stage = "starting"
    /\ stage' = "returned"
    /\ late' = late \cup {"start"}
    /\ UNCHANGED <<ready, tokens, expired, conns, rest>>

EnterSignalLoop ==
    /\ stage = "starting"
    /\ stage' = "running"
    /\ ready' = TRUE
    /\ UNCHANGED <<tokens, expired, late, conns, rest>>

\* Step 1: the signal loop ends and readiness is withdrawn.
Unready ==
    /\ stage = "running"
    /\ stage' = "stopListeners"
    /\ ready' = FALSE
    /\ UNCHANGED <<tokens, expired, late, conns, rest>>

CancelObserved == cancel /\ Unready
Signal == Unready

\* Time passes the deadline that step 1 computed.
Expire ==
    /\ stage \in ShuttingDown
    /\ ~expired
    /\ expired' = TRUE
    /\ UNCHANGED <<stage, ready, tokens, late, conns, rest>>

\* Steps 2 and 3; the health probes are the subject of module Health.
StopListeners ==
    /\ stage = "stopListeners"
    /\ stage' = "closeUdp"
    /\ listenerCancel' = TRUE
    /\ UNCHANGED <<ready, cancel, connCancel, adminCancel, expired, late,
                   conns, rest>>

\* Step 4: the registry's associations are cancelled.
CloseUdp ==
    /\ stage = "closeUdp"
    /\ stage' = "waitUdp"
    /\ assoc' = [k \in Conns |-> IF assoc[k] = "open" THEN "closing" ELSE assoc[k]]
    /\ UNCHANGED <<ready, tokens, expired, late, loops, conn, cut, active,
                   streams, rest>>

\* A tracker is waited for until it is empty or the deadline has passed.
Await(here, over, name, next) ==
    /\ stage = here
    /\ over \/ expired
    /\ late' = IF over THEN late ELSE late \cup {name}
    /\ stage' = next

\* Step 5.
WaitUdp ==
    /\ Await("waitUdp", RelayTasks = {}, "udp", "waitTasks")
    /\ UNCHANGED <<ready, tokens, expired, conns, rest>>

\* Step 6.
WaitTasks ==
    /\ Await("waitTasks",
             /\ loop = "ended"
             /\ \A l \in OtherKinds : others[l] = "ended"
             /\ \A s \in Services : service[s] = "ended",
             "tasks", "drain")
    /\ UNCHANGED <<ready, tokens, expired, conns, rest>>

\* Step 7: the counter is read, and then the clock.
DrainRead ==
    /\ stage = "drain"
    /\ stage' = IF active = 0 THEN "waitConns" ELSE "checkDeadline"
    /\ UNCHANGED <<ready, tokens, expired, late, conns, rest>>

\* Mutant: the forced connections are not waited for.
DrainUnwaited ==
    /\ stage = "checkDeadline"
    /\ IF expired
       THEN stage' = "stopAdmin" /\ connCancel' = TRUE
       ELSE stage' = "drain" /\ UNCHANGED connCancel
    /\ UNCHANGED <<ready, cancel, listenerCancel, adminCancel, expired, late,
                   conns, rest>>

\* Mutant: the drain loop has no deadline.
DrainForever ==
    /\ stage = "checkDeadline"
    /\ stage' = "drain"
    /\ UNCHANGED <<ready, tokens, expired, late, conns, rest>>

DrainCheck ==
    /\ stage = "checkDeadline"
    /\ IF expired
       THEN stage' = "waitConns" /\ connCancel' = TRUE
       ELSE stage' = "drain" /\ UNCHANGED connCancel
    /\ UNCHANGED <<ready, cancel, listenerCancel, adminCancel, expired, late,
                   conns, rest>>

\* Mutant: the wait for the connection tasks is skipped.
SkipConns ==
    /\ stage = "waitConns"
    /\ stage' = "stopAdmin"
    /\ UNCHANGED <<ready, tokens, expired, late, conns, rest>>

\* Step 8.
WaitConns ==
    /\ Await("waitConns", ConnectionTasks = {}, "conns", "stopAdmin")
    /\ UNCHANGED <<ready, tokens, expired, conns, rest>>

\* Step 9.
StopAdmin ==
    /\ stage = "stopAdmin"
    /\ stage' = "waitAdmin"
    /\ adminCancel' = TRUE
    /\ UNCHANGED <<ready, cancel, listenerCancel, connCancel, expired, late,
                   conns, rest>>

WaitAdmin ==
    /\ Await("waitAdmin", admin = "ended", "admin", "returned")
    /\ UNCHANGED <<ready, tokens, expired, conns, rest>>

\* Every task ends where it is; the socket file stays.
Gone ==
    /\ stage' = "dropped"
    /\ cut' = cut \cup ConnectionTasks \cup Untracked
    /\ loop' = "ended"
    /\ permits' = Limit
    /\ others' = [l \in OtherKinds |-> "ended"]
    /\ slots' = 0
    /\ conn' = [k \in Conns |-> IF conn[k] = "new" THEN "new" ELSE "done"]
    /\ active' = 0
    /\ streams' = [k \in Conns |-> 0]
    /\ assoc' = [k \in Conns |-> IF assoc[k] = "none" THEN "none" ELSE "gone"]
    /\ service' = [s \in Services |-> "ended"]
    /\ admin' = "ended"
    /\ UNCHANGED <<tokens, expired, socket, kind>>

\* The runtime that run() made is dropped, and every task left with it.
DropRuntime == stage = "returned" /\ Gone /\ UNCHANGED <<ready, late>>

\* The process dies.
Crash ==
    /\ stage # "dropped"
    /\ Gone
    /\ ready' = FALSE
    /\ late' = late \cup {"crash"}

\* Nothing is left to run.
Finished == stage = "dropped" /\ UNCHANGED vars

-----------------------------------------------------------------------------
\* What the supervisor does once it was asked to stop.
Supervisor ==
    \/ EnterSignalLoop
    \/ CancelObserved
    \/ StopListeners \/ CloseUdp \/ WaitUdp \/ WaitTasks
    \/ DrainRead \/ DrainCheck \/ WaitConns
    \/ StopAdmin \/ WaitAdmin \/ DropRuntime

AcceptLoop ==
    \/ AcquirePermit \/ AcceptFails \/ Retry \/ LoopCancelled
    \/ \E k \in Conns : Accept(k) \/ Spawn(k)

OtherLoops ==
    \/ OtherAcceptFails \/ OtherRetry
    \/ \E l \in OtherKinds : OtherLoopEnds(l)
    \/ \E k \in Conns : Admit(k) \/ Refuse(k) \/ Incoming(k) \/ Handshake(k)

\* What a connection's task does without waiting for a peer.
Unwinds(k) ==
    \/ Start(k) \/ Cancelled(k) \/ Close(k)
    \/ StreamCancelled(k) \/ MultiplexCancelled(k)

\* What a connection's task does when its peers let it.
Session(k) ==
    \/ Wrap(k) \/ WrapFails(k) \/ Finish(k)
    \/ OpenStream(k) \/ StreamEnds(k) \/ MultiplexEnds(k)
    \/ OpenAssociation(k) \/ AssociationIdle(k) \/ RelayEnds(k)

Next ==
    \/ Supervisor
    \/ StartFails \/ Signal \/ Cancel \/ Expire \/ Crash
    \/ AcceptLoop \/ OtherLoops
    \/ \E k \in Conns : Unwinds(k) \/ Session(k)
    \/ \E s \in Services : ServiceEnds(s) \/ ServiceFails(s)
    \/ AdminEnds
    \/ Finished

Spec == Init /\ [][Next]_vars

\* The runtime polls the supervisor's future whenever it is ready, and time
\* passes; nothing is assumed of connections, services or the admin server.
FairSpec == Spec /\ WF_vars(Supervisor) /\ WF_vars(Expire)

-----------------------------------------------------------------------------
(* Properties.                                                             *)

TypeOK ==
    /\ kind \in Mixes
    /\ stage \in Stages
    /\ ready \in BOOLEAN
    /\ cancel \in BOOLEAN
    /\ listenerCancel \in BOOLEAN
    /\ connCancel \in BOOLEAN
    /\ adminCancel \in BOOLEAN
    /\ expired \in BOOLEAN
    /\ late \subseteq {"start", "udp", "tasks", "conns", "admin", "crash"}
    /\ loop \in {"permit", "accept", "backoff", "spawn", "ended"}
    /\ permits \in 0..Limit
    /\ others \in [OtherKinds -> {"accept", "backoff", "handshake", "ended"}]
    /\ slots \in 0..SlotLimit
    /\ socket \in {"bound", "removed"}
    /\ conn \in [Conns -> {"new", "accepted", "detached", "done"} \cup Tracked]
    /\ cut \subseteq Conns
    /\ active \in Nat
    /\ streams \in [Conns -> 0..MaxStreams]
    /\ assoc \in [Conns -> {"none", "open", "closing", "gone"}]
    /\ service \in [Services -> {"running", "ended"}]
    /\ admin \in {"running", "ended"}

(* A permit of the TCP listener is held exactly by each of its connections *)
(* whose stream lives and by an accept under way, and the other counter is *)
(* the number of live connections of the slot listener: no error path,     *)
(* cancellation or abort loses a place or gives one back twice.            *)
PermitsConserved ==
    /\ permits + Cardinality(In(Permitted) \cap Of(TcpKinds))
           + (IF loop = "accept" THEN 1 ELSE 0) = Limit
    /\ slots = Cardinality(In(Permitted) \cap Of({"slot"}))

(* active_connections, which the drain loop and the metrics read, is the   *)
(* number of connection tasks that have made their guard.                  *)
ActiveExact == active = Cardinality(In(Guarded))

(* Readiness is reported only while the listeners accept.                  *)
ReadyMeansAccepting == ready => stage = "running" /\ ~listenerCancel

(* Once the accept loops were waited for with success, no connection can   *)
(* reach the tracker any more.                                             *)
NoHandoverWhileDraining ==
    stage \in Draining /\ "tasks" \notin late =>
        /\ loop = "ended"
        /\ \A l \in OtherKinds : others[l] = "ended"
        /\ In({"accepted"}) = {}

(* The admin server is told to stop only after every connection task has   *)
(* ended, unless one of the two waits ran into the deadline.               *)
AdminLast ==
    adminCancel /\ late \cap {"tasks", "conns"} = {} => ConnectionTasks = {}

(* Connections are cancelled only once the grace period is over.           *)
ForcedOnlyAfterGrace == connCancel => expired

(* A connection is ended from our side only if the drain was forced, a     *)
(* wait that reports it timed out, the start-up failed or the process      *)
(* died: a shutdown that reports nothing has let every connection finish.  *)
(* The exceptions are the streams of H3 and raw QUIC connections, which no *)
(* tracker holds: the latter are closed with their endpoint as soon as the *)
(* listeners stop.                                                         *)
NothingCutSilently ==
    /\ cut \cap Of(TcpKinds \cup {"slot"}) # {} =>
           connCancel \/ late \cap {"start", "tasks", "conns", "crash"} # {}
    /\ cut # {} => listenerCancel \/ late \cap {"start", "crash"} # {}

(* A stop that was requested by the token, or a shutdown that has begun,   *)
(* ends, whatever the connections, the services and the clients do: every  *)
(* wait is bounded by the one deadline.                                    *)
StopEnds == (cancel \/ stage \in ShuttingDown) ~> stage = "dropped"
=============================================================================
