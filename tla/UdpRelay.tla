------------------------------ MODULE UdpRelay ------------------------------
(***************************************************************************)
(* A UDP relay at work, in its three settings: the loop of one SOCKS5      *)
(* association, the loop of a standalone socket that serves every client   *)
(* that sends to it, and the same with Shadowsocks packets.  Each opens    *)
(* target flows for the datagrams it receives; a flow has a receive task   *)
(* and, through a SOCKS5 hop, a control connection; the receive tasks hand *)
(* responses back on one bounded channel.                                  *)
(*                                                                         *)
(* The loop is one task: while it opens a flow it serves nothing else, and *)
(* does not see its token.  An association answers from its loop; the      *)
(* standalone relays have a task of their own for that.  Time is the       *)
(* passing of the idle limits: an association, a client or a flow is fresh *)
(* until its limit has passed since it was touched.  A datagram that       *)
(* changes nothing (of a client that is not the pinned one, or refused     *)
(* before a standalone relay looks up the client) is not a step.           *)
(***************************************************************************)
EXTENDS Naturals, FiniteSets, Sequences

CONSTANTS
    Clients,     \* the addresses datagrams come from
    Keys,        \* the flow keys: a target, and how it is reached
    Kind,        \* "direct", "socks5", "shadowsocks" or "composed"
    Configs,     \* configurations: mode, limits.client_pin, and whether
                 \* idle_timeout is shorter than target_idle_timeout and the
                 \* time it takes to open a flow together
    MaxTargets,  \* limits.max_targets_per_association
    MaxFlows,    \* max_standalone_flows
    Capacity,    \* RESPONSE_CHANNEL_CAPACITY
    MaxGauge,    \* bound: no flow is opened beyond this value of the gauge
    NoClient, NoFlow

VARIABLES
    config,      \* the configuration the relay started with
    loop,        \* "running", "opening" a flow, "ended", "failed" or "panicked"
    opening,     \* the flow being opened
    cancelled,   \* the token
    pinned,      \* client_udp_addr of an association
    clients,     \* the clients of a standalone relay
    fresh,       \* the owners touched within idle_timeout
    flows,       \* the flow tables: pairs of an owner and a key
    touched,     \* the flows touched within target_idle_timeout
    receiving,   \* the flows whose receive task runs
    controls,    \* the flows whose control connection is up
    leases,      \* the flows, or flow to be, that hold an active lease
    channel,     \* the responses waiting to be sent
    responder,   \* the response task of a standalone relay
    total,       \* total_target_flows of a standalone relay
    gauge        \* target_flows_active or standalone_flows_active

tables == <<flows, touched, receiving, controls, leases>>
vars == <<config, loop, opening, cancelled, pinned, clients, fresh, flows, touched,
          receiving, controls, leases, channel, responder, total, gauge>>

ASSUME RelayAssumption ==
    /\ IsFiniteSet(Keys) /\ IsFiniteSet(Clients)
    /\ Kind \in [Keys -> {"direct", "socks5", "shadowsocks", "composed"}]
    /\ Configs \subseteq [mode : {"association", "standalone", "shadowsocks"},
                          clientPin : BOOLEAN, shorter : BOOLEAN]
    /\ MaxTargets \in Nat \ {0} /\ MaxFlows \in Nat \ {0} /\ Capacity \in Nat \ {0}
    /\ NoClient \notin Clients
    /\ NoFlow \notin (Clients \union {NoClient}) \X Keys

Owners == Clients \union {NoClient}
AllFlows == Owners \X Keys

Standalone == config.mode # "association"

(* The flows of an association are one table, whoever sends.               *)
Owner(c) == IF Standalone THEN c ELSE NoClient

FlowsOf(o, S) == {f \in S : f[1] = o}

Opening == {opening} \ {NoFlow}

Leased(S) == {f \in S : Kind[f[2]] # "direct"}
WithControl(S) == {f \in S : Kind[f[2]] \in {"socks5", "composed"}}
LeasedEarly(S) == {f \in S : Kind[f[2]] = "composed"}

Init ==
    /\ config \in Configs
    /\ loop = "running" /\ opening = NoFlow
    /\ cancelled = FALSE
    /\ pinned = NoClient
    /\ clients = {}
    /\ fresh = IF Standalone THEN {} ELSE {NoClient}
    /\ flows = {} /\ touched = {} /\ receiving = {} /\ controls = {} /\ leases = {}
    /\ channel = <<>>
    /\ responder = IF Standalone THEN "running" ELSE "none"
    /\ total = 0 /\ gauge = 0

-----------------------------------------------------------------------------
(* Datagrams.                                                              *)

(* pin_client_addr; without client_pin no address is ever stored. *)
Pin(c) ==
    /\ pinned \in {NoClient, c} \/ ~config.clientPin
    /\ pinned' = IF config.clientPin THEN c ELSE pinned
    /\ UNCHANGED clients

(* A standalone relay bounds its clients before it looks at their flows. *)
Enter(c) ==
    /\ c \in clients \/ Cardinality(clients) < MaxFlows
    /\ clients' = clients \union {c}
    /\ UNCHANGED pinned

Admit(c) == IF Standalone THEN Enter(c) ELSE Pin(c)

(* An accepted datagram that is dropped: in an association it does not     *)
(* decode, its target or route is refused; in any, its chain carries no    *)
(* UDP, or the table is full.  The owner is touched all the same.          *)
Discarded(c) ==
    /\ loop = "running"
    /\ Admit(c)
    /\ fresh' = fresh \union {Owner(c)}
    /\ UNCHANGED <<config, loop, opening, cancelled, tables, channel, responder, total, gauge>>

(* A datagram for a flow of the table; whether its send succeeds does not  *)
(* matter.  The lease the route came with is dropped unused.               *)
Reuse(c, k) ==
    /\ loop = "running"
    /\ Admit(c)
    /\ <<Owner(c), k>> \in flows
    /\ touched' = touched \union {<<Owner(c), k>>}
    /\ fresh' = fresh \union {Owner(c)}
    /\ UNCHANGED <<config, loop, opening, cancelled, flows, receiving, controls, leases,
                   channel, responder, total, gauge>>

(* can_use_flow. *)
CanUse(o) ==
    /\ Cardinality(FlowsOf(o, flows)) < MaxTargets
    /\ Standalone => total < MaxFlows

(* A composed flow takes its active lease before it opens its hops.  A     *)
(* standalone relay has touched the client by now.                         *)
BeginOpen(c, k) ==
    /\ loop = "running"
    /\ Admit(c)
    /\ <<Owner(c), k>> \notin flows /\ CanUse(Owner(c)) /\ gauge < MaxGauge
    /\ loop' = "opening" /\ opening' = <<Owner(c), k>>
    /\ leases' = leases \union LeasedEarly({<<Owner(c), k>>})
    /\ fresh' = IF Standalone THEN fresh \union {c} ELSE fresh
    /\ UNCHANGED <<config, cancelled, flows, touched, receiving, controls, channel,
                   responder, total, gauge>>

OpenSucceeds ==
    /\ loop = "opening"
    /\ loop' = "running" /\ opening' = NoFlow
    /\ flows' = flows \union {opening}
    /\ touched' = touched \union {opening}
    /\ receiving' = receiving \union {opening}
    /\ controls' = controls \union WithControl({opening})
    /\ leases' = leases \union Leased({opening})
    /\ gauge' = gauge + 1
    /\ total' = IF Standalone THEN total + 1 ELSE total
    /\ fresh' = IF Standalone THEN fresh ELSE {NoClient}
    /\ UNCHANGED <<config, cancelled, pinned, clients, channel, responder>>

(* As OpenFails, keeping the lease. *)
OpenFailsKeeping ==
    /\ loop = "opening"
    /\ loop' = "running" /\ opening' = NoFlow
    /\ UNCHANGED <<config, cancelled, pinned, clients, fresh, tables, channel, responder,
                   total, gauge>>

(* In an association a direct or Shadowsocks flow that cannot be opened is *)
(* an error of the handler, and does not touch; the others are dropped     *)
(* datagrams and do.                                                       *)
OpenFails ==
    /\ loop = "opening"
    /\ loop' = "running" /\ opening' = NoFlow
    /\ leases' = leases \ {opening}
    /\ fresh' = IF ~Standalone /\ WithControl({opening}) # {} THEN {NoClient} ELSE fresh
    /\ UNCHANGED <<config, cancelled, pinned, clients, flows, touched, receiving, controls,
                   channel, responder, total, gauge>>

-----------------------------------------------------------------------------
(* The tasks of a flow, and the responses.                                 *)

(* The receive task of a flow offers what its target sent; a full or       *)
(* closed channel drops it.                                                *)
Respond(f) ==
    /\ f \in receiving
    /\ responder # "ended" /\ Len(channel) < Capacity
    /\ channel' = Append(channel, f)
    /\ UNCHANGED <<config, loop, opening, cancelled, pinned, clients, fresh, tables,
                   responder, total, gauge>>

(* It ends when its target is silent for target_idle_timeout, when its     *)
(* socket fails, and when the token is cancelled.  Nobody watches it.      *)
RecvEnds(f) ==
    /\ f \in receiving
    /\ receiving' = receiving \ {f}
    /\ UNCHANGED <<config, loop, opening, cancelled, pinned, clients, fresh, flows, touched,
                   controls, leases, channel, responder, total, gauge>>

(* The control task reads one byte, for as long as its own time-out lets   *)
(* it, and drops the connection.  Nobody waits for the token it cancels.   *)
ControlEnds(f) ==
    /\ f \in controls
    /\ controls' = controls \ {f}
    /\ UNCHANGED <<config, loop, opening, cancelled, pinned, clients, fresh, flows, touched,
                   receiving, leases, channel, responder, total, gauge>>

TakeResponse ==
    /\ channel # <<>>
    /\ channel' = Tail(channel)
    /\ UNCHANGED <<config, loop, opening, cancelled, pinned, clients, fresh, tables,
                   responder, total, gauge>>

(* To the pinned client; with none pinned the response is lost.  No touch. *)
LoopDelivers == loop = "running" /\ TakeResponse

(* To the client of the flow, whether or not the client is still known. *)
ResponderDelivers == responder = "running" /\ TakeResponse

Over == loop \in {"ended", "failed", "panicked"}

(* The response task ends with the token or, in the Shadowsocks relay,     *)
(* when every sender is gone and the channel is empty.                     *)
ResponderEnds ==
    /\ responder = "running"
    /\ \/ config.mode = "standalone" /\ cancelled
       \/ Over /\ receiving = {} /\ channel = <<>>
    /\ responder' = "ended" /\ channel' = <<>>
    /\ UNCHANGED <<config, loop, opening, cancelled, pinned, clients, fresh, tables,
                   total, gauge>>

-----------------------------------------------------------------------------
(* Idle limits.                                                            *)

Minus(a, b) == IF a >= b THEN a - b ELSE 0

(* The flows and clients a clean-up tick finds past their limits. *)
IdleFlows == flows \ touched
IdleClients == IF Standalone THEN clients \ fresh ELSE {}

(* Aborting its tasks is part of dropping a flow. *)
DropFlows(S) ==
    /\ flows' = flows \ S
    /\ touched' = touched \ S
    /\ receiving' = receiving \ S
    /\ controls' = controls \ S
    /\ leases' = leases \ S

(* As Reap, leaving the flows of idle clients in the total. *)
ReapMiscounted ==
    /\ loop = "running"
    /\ IdleFlows # {} \/ IdleClients # {}
    /\ DropFlows(IdleFlows \union {f \in flows : f[1] \in IdleClients})
    /\ total' = IF Standalone THEN Minus(total, Cardinality(IdleFlows)) ELSE total
    /\ clients' = clients \ IdleClients
    /\ gauge' = Minus(gauge, Cardinality(IdleFlows))
    /\ UNCHANGED <<config, loop, opening, cancelled, pinned, fresh, channel, responder>>

(* reap_idle_flows.  A standalone relay first drops the idle flows, each   *)
(* counted down in the gauge, then the idle clients with the flows they    *)
(* have left, which are not; the total counts both.                        *)
Reap ==
    /\ loop = "running"
    /\ IdleFlows # {} \/ IdleClients # {}
    /\ LET dropped == IdleFlows \union {f \in flows : f[1] \in IdleClients}
       IN  /\ DropFlows(dropped)
           /\ total' = IF Standalone THEN Minus(total, Cardinality(dropped)) ELSE total
    /\ clients' = clients \ IdleClients
    /\ gauge' = Minus(gauge, Cardinality(IdleFlows))
    /\ UNCHANGED <<config, loop, opening, cancelled, pinned, fresh, channel, responder>>

OwnerAges(o) ==
    /\ o \in fresh
    /\ Standalone /\ ~config.shorter => \A f \in touched \union Opening : f[1] # o
    /\ fresh' = fresh \ {o}
    /\ UNCHANGED <<config, loop, opening, cancelled, pinned, clients, tables, channel,
                   responder, total, gauge>>

FlowAges(f) ==
    /\ f \in touched
    /\ touched' = touched \ {f}
    /\ UNCHANGED <<config, loop, opening, cancelled, pinned, clients, fresh, flows, receiving,
                   controls, leases, channel, responder, total, gauge>>

-----------------------------------------------------------------------------
(* The end of the relay.                                                   *)

(* The control connection ends, or the service shuts down. *)
Cancel ==
    /\ ~cancelled /\ ~Over
    /\ cancelled' = TRUE
    /\ UNCHANGED <<config, loop, opening, pinned, clients, fresh, tables, channel, responder,
                   total, gauge>>

(* Dropping the tables aborts the receive and control tasks and releases   *)
(* the leases; a flow being opened is dropped with the loop.  An           *)
(* association closes its token; its channel goes with the loop.           *)
Teardown(how) ==
    /\ loop' = how /\ opening' = NoFlow
    /\ cancelled' = (cancelled \/ ~Standalone)
    /\ clients' = {} /\ fresh' = {}
    /\ flows' = {} /\ touched' = {} /\ receiving' = {} /\ controls' = {} /\ leases' = {}
    /\ channel' = IF Standalone THEN channel ELSE <<>>
    /\ total' = 0
    /\ UNCHANGED <<config, pinned, responder>>

(* The flows that are left are counted down one by one. *)
CloseAll == Teardown("ended") /\ gauge' = Minus(gauge, Cardinality(flows))

(* As SeesCancel, looking at the token only when idle. *)
SeesCancelLate == loop = "running" /\ cancelled /\ fresh = {} /\ CloseAll

SeesCancel == loop = "running" /\ cancelled /\ CloseAll

(* A step of associations only. *)
Idle == loop = "running" /\ fresh = {} /\ CloseAll

(* An error of the socket: a standalone relay returns at once. *)
SocketFails ==
    /\ loop = "running"
    /\ IF Standalone THEN Teardown("failed") /\ UNCHANGED gauge ELSE CloseAll

(* The guard of an association closes it but does not know its flows. *)
Panic ==
    /\ loop \in {"running", "opening"}
    /\ Teardown("panicked")
    /\ UNCHANGED gauge

-----------------------------------------------------------------------------
Datagram ==
    \E c \in Clients :
        \/ Discarded(c)
        \/ \E k \in Keys : Reuse(c, k) \/ BeginOpen(c, k)

(* The receive task and the control task of a flow. *)
DirectTask(f) == Kind[f[2]] = "direct" /\ (Respond(f) \/ RecvEnds(f))
HopTask(f) == Kind[f[2]] # "direct" /\ (Respond(f) \/ RecvEnds(f) \/ ControlEnds(f))

Loop ==
    \/ Datagram \/ OpenSucceeds \/ OpenFails \/ Reap
    \/ SeesCancel \/ SocketFails \/ Panic

AssociationLoop == config.mode = "association" /\ (Loop \/ Idle \/ LoopDelivers)
StandaloneLoop == config.mode = "standalone" /\ Loop
ShadowsocksLoop == config.mode = "shadowsocks" /\ Loop

Ages == (\E o \in Owners : OwnerAges(o)) \/ (\E f \in AllFlows : FlowAges(f))

Next ==
    \/ AssociationLoop \/ StandaloneLoop \/ ShadowsocksLoop
    \/ ResponderDelivers \/ ResponderEnds
    \/ \E f \in AllFlows : DirectTask(f) \/ HopTask(f)
    \/ Cancel \/ Ages

Spec == Init /\ [][Next]_vars

(* select! polls its branches in random order, so a cancelled token is     *)
(* seen although datagrams keep coming; opening a flow ends by its         *)
(* connect time-out, or that of the resolver; tasks are polled.            *)
FairSpec ==
    /\ Spec
    /\ SF_vars(SeesCancel)
    /\ WF_vars(OpenSucceeds \/ OpenFails)
    /\ WF_vars(ResponderDelivers) /\ WF_vars(ResponderEnds)

-----------------------------------------------------------------------------
(* Properties.                                                             *)

(* A flow owns what was opened for it and nothing outlives it: whichever   *)
(* way a flow, its client or the whole loop ends, no receive task and no   *)
(* control connection is left without its entry in a table, and every flow *)
(* through an upstream holds exactly one active lease, which a composed    *)
(* flow that is being opened holds already and a failed open gives back.   *)
FlowsOwnTheirs ==
    /\ receiving \union controls \subseteq flows
    /\ leases = Leased(flows) \union LeasedEarly(Opening)

(* The limits are checked before a flow is opened and the flow enters its  *)
(* table after an await: no table outgrows its limit, nor all of them      *)
(* together the standalone one, whose running total stays the number of    *)
(* flows although clients and flows are dropped by two different limits.   *)
(* The gauge shows that number too, but for the flows a panic or, in a     *)
(* standalone relay, an error of the socket leaves counted, and for those  *)
(* of clients dropped by too short an idle_timeout.                        *)
CountsExact ==
    /\ \A o \in Owners : Cardinality(FlowsOf(o, flows)) <= MaxTargets
    /\ Standalone =>
          /\ Cardinality(clients) <= MaxFlows /\ Cardinality(flows) <= MaxFlows
          /\ total = Cardinality(flows)
    /\ loop \notin {"failed", "panicked"} /\ ~(Standalone /\ config.shorter) =>
          gauge = Cardinality(flows)

(* A cancelled relay ends, with all its tasks, although datagrams keep     *)
(* coming and flows keep being opened.                                     *)
CancelledEnds ==
    cancelled ~> Over /\ receiving = {} /\ responder # "running"

(* Each flow has a dedicated receive task.  Not so: the task ends by its   *)
(* own idle limit while the client's datagrams keep the flow in the table. *)
FlowHasReceiver == loop = "running" /\ ~cancelled => touched \subseteq receiving
=============================================================================
