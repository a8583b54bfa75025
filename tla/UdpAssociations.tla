--------------------------- MODULE UdpAssociations ---------------------------
(***************************************************************************)
(* The life of SOCKS5 UDP associations: the registry that bounds them, the *)
(* control connection that asks for one, and the relay task that serves    *)
(* it.  An association has one registry slot, one cancellation token shared *)
(* by its control connection and its relay, and one unit of the gauge      *)
(* associations_active.  Four actors race for its end: the control         *)
(* connection, the relay's own idle timer or socket, a panic in the relay, *)
(* and close_all at shutdown, which drains the registry under its lock and *)
(* closes what it drained afterwards.                                      *)
(*                                                                         *)
(* Every association is asked for once: ids are never reused.  What the    *)
(* relay does with datagrams is in UdpRelay.                               *)
(***************************************************************************)
EXTENDS Naturals, FiniteSets, Sequences

CONSTANTS
    Assocs,              \* the UDP ASSOCIATE requests, each with the id it would get
    Listeners,           \* the listeners with a UDP section
    ListenerOf,          \* the listener a request arrives on
    UdpSections,         \* configurations: the max_associations_global of the
                         \* UDP sections, in the order of the listeners
    DefaultPerListener   \* UdpLimits::default().max_associations_per_listener

VARIABLES
    sections,    \* the configuration the process started with
    registry,    \* the associations in the registry's map
    control,     \* where the task of the control connection is
    relay,       \* where the relay task is
    closed,      \* the associations whose token is cancelled
    closing,     \* drained by close_all and not yet closed by it
    closeAll,    \* where shutdown is: before, in or after close_all
    afterDrain,  \* history: the associations created since close_all's drain
    associations_active   \* the gauge

assocVars ==
    <<sections, registry, control, relay, closed, closing, closeAll, afterDrain,
      associations_active>>

begun == <<closeAll, afterDrain>>

ASSUME UdpAssumption ==
    /\ IsFiniteSet(Assocs)
    /\ DefaultPerListener \in Nat \ {0}
    /\ ListenerOf \in [Assocs -> Listeners]
    /\ UdpSections \subseteq Seq(Nat \ {0}) \ {<<>>}

(* Listeners are expected to agree; the first value wins. *)
GlobalLimit == Head(sections)

(* Only the global limit is taken from the configuration: a listener's     *)
(* max_associations reaches the relays, which do not count associations.   *)
PerListenerLimit == DefaultPerListener

OnListener(S, l) == {a \in S : ListenerOf[a] = l}

-----------------------------------------------------------------------------
AssocInit ==
    /\ sections \in UdpSections
    /\ registry = {}
    /\ control = [a \in Assocs |-> "waiting"]
    /\ relay = [a \in Assocs |-> "none"]
    /\ closed = {}
    /\ closing = {}
    /\ closeAll = "before"
    /\ afterDrain = {}
    /\ associations_active = 0

Control(a, s) == control' = [control EXCEPT ![a] = s]
Relay(a, s) == relay' = [relay EXCEPT ![a] = s]

Room(a) ==
    /\ Cardinality(registry) < GlobalLimit
    /\ Cardinality(OnListener(registry, ListenerOf[a])) < PerListenerLimit

(* The slot is taken under the registry's write lock. *)
Create(a) ==
    /\ control[a] = "waiting"
    /\ Room(a)
    /\ registry' = registry \union {a}
    /\ Control(a, "created")
    /\ afterDrain' = IF closeAll = "before" THEN afterDrain ELSE afterDrain \union {a}
    /\ UNCHANGED <<sections, relay, closed, closing, closeAll, associations_active>>

(* No room, or the connect timeout elapsed while waiting for the lock. *)
Refused(a) ==
    /\ control[a] = "waiting"
    /\ Control(a, "done")
    /\ UNCHANGED <<sections, registry, relay, closed, closing, begun, associations_active>>

(* The socket cannot be bound, or there is no address to advertise: the    *)
(* error is returned with the slot taken and nothing left that returns it. *)
BindFails(a) ==
    /\ control[a] = "created"
    /\ Control(a, "done")
    /\ UNCHANGED <<sections, registry, relay, closed, closing, begun, associations_active>>

SpawnRelay(a) ==
    /\ control[a] = "created"
    /\ Control(a, "replying")
    /\ Relay(a, "spawned")
    /\ UNCHANGED <<sections, registry, closed, closing, begun, associations_active>>

-----------------------------------------------------------------------------
(* The control connection once the relay is there. *)
ReplySent(a) ==
    /\ control[a] = "replying"
    /\ Control(a, "open")
    /\ UNCHANGED <<sections, registry, relay, closed, closing, begun, associations_active>>

(* The reply cannot be sent, or the client closes or writes on the control *)
(* connection: the session cancels the association and ends.               *)
ControlCloses(a) ==
    /\ control[a] \in {"replying", "open"}
    /\ Control(a, "done")
    /\ closed' = closed \union {a}
    /\ UNCHANGED <<sections, registry, relay, closing, begun, associations_active>>

ControlSeesCancel(a) ==
    /\ control[a] = "open"
    /\ a \in closed
    /\ Control(a, "done")
    /\ UNCHANGED <<sections, registry, relay, closed, closing, begun, associations_active>>

(* The task of the connection is dropped by the connection token: nothing  *)
(* in it cancels the association, which lives on until it is idle.         *)
ControlDropped(a) ==
    /\ closeAll = "after"
    /\ control[a] \in {"waiting", "replying", "open"}
    /\ Control(a, "done")
    /\ UNCHANGED <<sections, registry, relay, closed, closing, begun, associations_active>>

-----------------------------------------------------------------------------
RelayStarts(a) ==
    /\ relay[a] = "spawned"
    /\ Relay(a, "running")
    /\ associations_active' = associations_active + 1
    /\ UNCHANGED <<sections, registry, control, closed, closing, begun>>

(* As Leave, where both the clean-up and the guard count down. *)
LeaveTwice(a) ==
    /\ relay[a] = "running"
    /\ Relay(a, "removing")
    /\ associations_active' = IF associations_active > 1 THEN associations_active - 2 ELSE 0
    /\ closed' = closed \union {a}
    /\ UNCHANGED <<sections, registry, control, closing, begun>>

(* The end of the relay up to its first await: the gauge, the close of the *)
(* association and the disarmed guard.  The guard's drop does the same.    *)
Leave(a) ==
    /\ relay[a] = "running"
    /\ Relay(a, "removing")
    /\ associations_active' = IF associations_active > 0 THEN associations_active - 1 ELSE 0
    /\ closed' = closed \union {a}
    /\ UNCHANGED <<sections, registry, control, closing, begun>>

(* The association is idle, its socket fails, or the relay panics. *)
RelayLeaves(a) == Leave(a)

RelayCancelled(a) == a \in closed /\ Leave(a)

(* As RelayRemoves, keeping the slot. *)
RelayForgets(a) ==
    /\ relay[a] = "removing"
    /\ Relay(a, "done")
    /\ UNCHANGED <<sections, registry, control, closed, closing, begun, associations_active>>

RelayRemoves(a) ==
    /\ relay[a] = "removing"
    /\ registry' = registry \ {a}
    /\ Relay(a, "done")
    /\ UNCHANGED <<sections, control, closed, closing, begun, associations_active>>

-----------------------------------------------------------------------------
(* As Drain, without remembering what was taken. *)
DrainForgetting ==
    /\ closeAll = "before"
    /\ registry' = {}
    /\ closing' = {}
    /\ closeAll' = "in"
    /\ UNCHANGED <<sections, control, relay, closed, afterDrain, associations_active>>

(* close_all empties the map under its lock ... *)
Drain ==
    /\ closeAll = "before"
    /\ registry' = {}
    /\ closing' = registry
    /\ closeAll' = "in"
    /\ UNCHANGED <<sections, control, relay, closed, afterDrain, associations_active>>

(* ... and closes what it took, one after the other. *)
CloseOne(a) ==
    /\ a \in closing
    /\ closing' = closing \ {a}
    /\ closed' = closed \union {a}
    /\ UNCHANGED <<sections, registry, control, relay, begun, associations_active>>

(* udp_tasks.close(): a closed TaskTracker still takes tasks. *)
TasksClose ==
    /\ closeAll = "in"
    /\ closing = {}
    /\ closeAll' = "after"
    /\ UNCHANGED <<sections, registry, control, relay, closed, closing, afterDrain,
                   associations_active>>

-----------------------------------------------------------------------------
Session(a) ==
    \/ Create(a) \/ Refused(a) \/ BindFails(a) \/ SpawnRelay(a)
    \/ ReplySent(a) \/ ControlCloses(a) \/ ControlSeesCancel(a)
    \/ ControlDropped(a)

RelayTask(a) ==
    RelayStarts(a) \/ RelayLeaves(a) \/ RelayCancelled(a) \/ RelayRemoves(a)

Shutdown == Drain \/ TasksClose \/ \E a \in Assocs : CloseOne(a)

AssocNext ==
    \/ \E a \in Assocs : Session(a) \/ RelayTask(a)
    \/ Shutdown

AssocSpec == AssocInit /\ [][AssocNext]_assocVars

(* A ready task is eventually polled: the relay starts, sees its token and *)
(* removes its slot; the session replies or fails, and sees the token;     *)
(* close_all goes on once begun.  Nothing makes a client close or a relay  *)
(* idle.                                                                   *)
AssocFairSpec ==
    /\ AssocSpec
    /\ \A a \in Assocs :
          /\ WF_assocVars(RelayStarts(a))
          /\ WF_assocVars(RelayCancelled(a))
          /\ WF_assocVars(RelayRemoves(a))
          /\ WF_assocVars(SpawnRelay(a) \/ BindFails(a))
          /\ WF_assocVars(control[a] = "replying" /\ (ReplySent(a) \/ ControlCloses(a)))
          /\ WF_assocVars(ControlSeesCancel(a))
          /\ WF_assocVars(CloseOne(a))

-----------------------------------------------------------------------------
(* create_association checks and inserts under one write lock: however     *)
(* requests, removals and close_all interleave, the registry holds no more *)
(* associations than its two limits allow; and associations_active counts  *)
(* the relays that run, whichever way they end: the inline clean-up and    *)
(* the drop guard never both count one down.                               *)
AssociationsCounted ==
    /\ Cardinality(registry) <= GlobalLimit
    /\ \A l \in Listeners : Cardinality(OnListener(registry, l)) <= PerListenerLimit
    /\ associations_active = Cardinality({a \in Assocs : relay[a] = "running"})

(* A relay that runs, or will, and whose association was created before    *)
(* close_all drained the map is stopped by shutdown, however its session   *)
(* interleaves with close_all: it is in the map that close_all will drain, *)
(* or was taken and is about to be cancelled, or its token is cancelled.   *)
(* Of one that a connection still draining creates later nothing of this   *)
(* holds: close_all runs once, and udp_tasks.close() refuses no task.  Only *)
(* its client or its idle timer ends it; it still has its slot.            *)
EveryRelayReachable ==
    \A a \in Assocs : relay[a] \in {"spawned", "running"} =>
        IF a \in afterDrain
        THEN a \in registry \union closed
        ELSE (closeAll = "before" /\ a \in registry) \/ a \in closing \union closed

(* Once the token of an association is cancelled, by whichever actor, both *)
(* tasks end and the slot is returned.                                     *)
ClosedEnds ==
    \A a \in Assocs : a \in closed ~>
        /\ a \notin registry
        /\ relay[a] \in {"none", "done"}
        /\ control[a] = "done"
==============================================================================
