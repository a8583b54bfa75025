--------------------------- MODULE ShutdownProofs ---------------------------
(***************************************************************************)
(* Proofs about modules Shutdown and Service: the accounting of permits    *)
(* and of active connections, and what the order of the shutdown steps     *)
(* guarantees, for every number of connections, services and permits; then *)
(* that what holds of one life of the supervisor holds of all of them, and *)
(* that a life leaves the system as it found it.  What the conversions of  *)
(* the proxy settings do comes first; it needs nothing of the rest.        *)
(*                                                                         *)
(* The steps are first sorted by what they touch: those of the supervisor, *)
(* of the accept loops, and of the tasks of a connection.  Each conjunct   *)
(* of the inductive invariant then only meets the steps that can disturb   *)
(* it.                                                                     *)
(***************************************************************************)
EXTENDS Service, FiniteSetTheorems, TLAPS

-----------------------------------------------------------------------------
(* What a revert of the system proxy settings brings back.                 *)

KnownHost(h) == h.platform \in {"linux", "macos", "windows"} /\ h.proxy \in {"http", "socks"}

OthersKept(h, m, s) == \A k \in Keys(h) \ Written(h) : m.server[k] = s.server[k]

BroughtBack(h, m, s) == Restorable(h, s) => Effect(h, m) = Effect(h, s)

(* On GNOME, what can be brought back is, whatever the addresses that      *)
(* apply writes and the mode are when the revert begins.                   *)
LEMMA GnomeBack ==
    ASSUME NEW h, KnownHost(h), h.platform = "linux",
           NEW s \in AllSettings(h), NEW m \in AllSettings(h),
           OthersKept(h, m, s), Restorable(h, s)
    PROVE  Effect(h, Reverted(h, m, s)) = Effect(h, s)
<1>1. Keys(h) = {"http", "https", "socks"} /\ Switches(h) = {"mode"}
  BY DEF Keys, Switches, Switch
<1>2. \A k \in Keys(h) : Switch(h, k) = "mode"
  BY DEF Switch
<1>3. CASE s.on["mode"] = "off"
  <2>1. Back(h, s) = {}
    BY <1>3 DEF Back, Inspect, InspectGnome
  <2>2. Reverted(h, m, s).on["mode"] = "off"
    BY <1>1, <2>1 DEF Reverted, Turned, Disabled
  <2> QED BY <1>2, <1>3, <2>2 DEF Effect
<1>4. CASE s.on["mode"] # "off"
  <2>1. /\ s.on["mode"] = "on"
        /\ \A k \in Keys(h) : s.server[k] # "odd"
        /\ Given(h, s) = {} \/ Written(h) \subseteq Given(h, s)
    BY <1>4 DEF Restorable
  <2>2. Back(h, s) = Given(h, s)
    BY <2>1 DEF Back, Inspect, InspectGnome, Given
  <2>3. CASE Given(h, s) = {}
    <3>1. Reverted(h, m, s).on["mode"] = "off"
      BY <1>1, <2>2, <2>3 DEF Reverted, Turned, Disabled
    <3>2. \A k \in Keys(h) : s.server[k] = "empty"
      BY <2>3 DEF Given
    <3> QED BY <1>2, <2>1, <3>1, <3>2 DEF Effect
  <2>4. CASE Given(h, s) # {}
    <3>1. Reverted(h, m, s).on["mode"] = "on"
      BY <1>1, <1>2, <2>2, <2>4 DEF Reverted, Turned, Disabled, Given
    <3>2. \A k \in Keys(h) : Reverted(h, m, s).server[k] = s.server[k]
      BY <2>1, <2>2, <2>4 DEF Reverted, OthersKept
    <3> QED BY <1>2, <2>1, <3>1, <3>2 DEF Effect
  <2> QED BY <2>3, <2>4
<1> QED BY <1>3, <1>4

(* On macOS the addresses that were given are written and switched on, the *)
(* others switched off.                                                    *)
LEMMA MacBack ==
    ASSUME NEW h, KnownHost(h), h.platform = "macos",
           NEW s \in AllSettings(h), NEW m \in AllSettings(h), Restorable(h, s)
    PROVE  Effect(h, Reverted(h, m, s)) = Effect(h, s)
<1>1. \A k \in Keys(h) : Switch(h, k) = k
  BY DEF Switch
<1>2. Switches(h) = Keys(h) /\ Back(h, s) = Given(h, s)
  BY <1>1 DEF Switches, Back, Inspect, InspectMacos
<1>3. \A k \in Given(h, s) : s.on[k] = "on"
  BY DEF Restorable
<1>4. ASSUME NEW k \in Given(h, s)
      PROVE  Reverted(h, m, s).on[k] = "on" /\ Reverted(h, m, s).server[k] = s.server[k]
  BY <1>1, <1>2 DEF Reverted, Turned, Given
<1>5. ASSUME NEW k \in Keys(h) \ Given(h, s)
      PROVE  /\ Reverted(h, m, s).on[k] = "off"
             /\ s.server[k] = "empty" /\ s.on[k] \in {"off", "on"}
  <2>1. Reverted(h, m, s).on[k] = "off"
    BY <1>1, <1>2, <1>5 DEF Reverted, Turned, Disabled, Given
  <2> QED BY <1>2, <1>5, <2>1 DEF Given, AllSettings, Positions
<1>6. ASSUME NEW k \in Keys(h)
      PROVE  Effect(h, Reverted(h, m, s))[k] = Effect(h, s)[k]
  <2>1. CASE k \in Given(h, s)
    BY <1>1, <1>3, <1>4, <2>1 DEF Effect
  <2>2. CASE k \notin Given(h, s)
    BY <1>1, <1>5, <2>2 DEF Effect
  <2> QED BY <2>1, <2>2
<1> QED BY <1>6, Zenon DEF Effect

(* On Windows the one switch is switched off.                              *)
LEMMA WindowsBack ==
    ASSUME NEW h, KnownHost(h), h.platform = "windows",
           NEW s \in AllSettings(h), NEW m \in AllSettings(h), Restorable(h, s)
    PROVE  Effect(h, Reverted(h, m, s)) = Effect(h, s)
<1>1. Keys(h) = {"server"} /\ Switches(h) = {"mode"} /\ Switch(h, "server") = "mode"
  BY DEF Keys, Switches, Switch
<1>2. Back(h, s) = {}
  BY DEF Back, Inspect, InspectWindows
<1>3. Reverted(h, m, s).on["mode"] = "off"
  BY <1>1, <1>2 DEF Reverted, Turned, Disabled
<1>4. s.on["mode"] \in {"off", "on"}
  BY <1>1 DEF AllSettings, Positions
<1>5. s.on["mode"] = "off" \/ s.server["server"] = "empty"
  BY <1>1 DEF Restorable, Given
<1> QED BY <1>1, <1>3, <1>4, <1>5 DEF Effect

(* A revert of settings that differ from those found only where apply      *)
(* writes gives programs again what they had.                              *)
LEMMA RevertBrings ==
    ASSUME NEW h, KnownHost(h), NEW s \in AllSettings(h), NEW m \in AllSettings(h),
           OthersKept(h, m, s)
    PROVE  BroughtBack(h, Reverted(h, m, s), s)
BY GnomeBack, MacBack, WindowsBack, Zenon DEF BroughtBack, KnownHost

(* The settings stay settings, and apply changes only what it writes, even *)
(* if some of its commands have no effect.                                 *)
LEMMA SettingsTyped ==
    ASSUME NEW h, KnownHost(h), NEW s \in AllSettings(h), NEW p \in AllSettings(h)
    PROVE  /\ Applied(h, s) \in AllSettings(h)
           /\ Reverted(h, s, p) \in AllSettings(h)
           /\ OthersKept(h, Applied(h, s), s)
<1>1. "on" \in Positions(h) /\ "off" \in Positions(h)
  BY DEF Positions
<1>2. \A K : Turned(h, K, s) \in [Switches(h) -> Positions(h)]
  BY <1>1 DEF Turned, AllSettings
<1>3. \A K : Turned(h, K, Disabled(h, s)) \in [Switches(h) -> Positions(h)]
  BY <1>1 DEF Turned, Disabled
<1>4. Applied(h, s) \in AllSettings(h)
  BY <1>2 DEF Applied, AllSettings
<1>5. Reverted(h, s, p) \in AllSettings(h)
  BY <1>3 DEF Reverted, AllSettings
<1>6. OthersKept(h, Applied(h, s), s)
  BY DEF OthersKept, Applied
<1> QED BY <1>4, <1>5, <1>6

-----------------------------------------------------------------------------
(* One life of the supervisor.                                             *)

ConnStates == {"new", "accepted", "detached", "done"} \cup Tracked

\* The types in four parts; the ranges of the counters follow from Counts.
Flags ==
    /\ ready \in BOOLEAN
    /\ cancel \in BOOLEAN
    /\ listenerCancel \in BOOLEAN
    /\ connCancel \in BOOLEAN
    /\ adminCancel \in BOOLEAN
    /\ expired \in BOOLEAN
    /\ stage \in Stages
    /\ late \subseteq {"start", "udp", "tasks", "conns", "admin", "crash"}

Places ==
    /\ loop \in {"permit", "accept", "backoff", "spawn", "ended"}
    /\ socket \in {"bound", "removed"}
    /\ admin \in {"running", "ended"}
    /\ others \in [OtherKinds -> {"accept", "backoff", "handshake", "ended"}]

Numbers == permits \in Nat /\ slots \in Int /\ active \in Int

Tasks ==
    /\ conn \in [Conns -> ConnStates]
    /\ cut \subseteq Conns
    /\ streams \in [Conns -> 0..MaxStreams]
    /\ assoc \in [Conns -> {"none", "open", "closing", "gone"}]
    /\ service \in [Services -> {"running", "ended"}]

\* The states that a connection of each kind can be in.
Fits ==
    /\ kind \in Mixes
    /\ \A k \in Conns :
          /\ conn[k] = "accepted" => kind[k] \in TcpKinds \cup {"h3", "quic"}
          /\ conn[k] \in {"spawned", "wrapping", "serving", "closing"} =>
                 kind[k] \in TcpKinds \cup {"slot"}
          /\ conn[k] = "multiplexed" => kind[k] = "h3"
          /\ conn[k] = "detached" => kind[k] = "quic"

Shape == Flags /\ Places /\ Numbers /\ Tasks

HeldPermits == Cardinality(In(Permitted) \cap Of(TcpKinds))
HeldSlots == Cardinality(In(Permitted) \cap Of({"slot"}))
LiveGuards == Cardinality(In(Guarded))
Accepting == IF loop = "accept" THEN 1 ELSE 0

Counts ==
    /\ permits + HeldPermits + Accepting = Limit
    /\ slots = HeldSlots
    /\ slots <= SlotLimit
    /\ active = LiveGuards

\* An accept loop holds at most one connection, and only until it spawns it.
OneHeld ==
    /\ \A k \in Conns : conn[k] = "accepted" =>
           \/ kind[k] \in TcpKinds /\ loop = "spawn"
           \/ kind[k] \in {"h3", "quic"} /\ others[kind[k]] = "handshake"
    /\ \A j, k \in Conns :
           /\ conn[j] = "accepted" /\ conn[k] = "accepted"
           /\ kind[j] = kind[k] \/ (kind[j] \in TcpKinds /\ kind[k] \in TcpKinds)
           => j = k

NoTasks ==
    \A k \in Conns : conn[k] \notin Tracked /\ (kind[k] = "h2" => streams[k] = 0)

LoopsEnded == loop = "ended" /\ \A l \in OtherKinds : others[l] = "ended"

Unreported(names) == \A n \in names : n \notin late

Gates ==
    /\ stage \in {"starting", "running", "stopListeners"} => ~listenerCancel
    /\ stage \in ShuttingDown \ {"stopListeners"} => listenerCancel
    /\ stage = "returned" => listenerCancel \/ "start" \in late
    /\ ready => stage = "running"
    /\ adminCancel => stage \in {"waitAdmin", "returned", "dropped"} /\ "start" \notin late
    /\ "start" \in late => stage \in {"returned", "dropped"}
    /\ "crash" \in late => stage = "dropped"
    /\ connCancel => expired /\ listenerCancel

Order ==
    /\ stage \in Draining \cup {"returned", "dropped"}
           /\ Unreported({"start", "tasks"}) => LoopsEnded
    /\ stage \in {"stopAdmin", "waitAdmin", "returned", "dropped"}
           /\ Unreported({"start", "tasks", "conns"}) => NoTasks

Cuts ==
    /\ (\E k \in Conns : k \in cut /\ kind[k] \in TcpKinds \cup {"slot"}) =>
           connCancel \/ ~Unreported({"start", "tasks", "conns", "crash"})
    /\ (\E k \in Conns : k \in cut) =>
           listenerCancel \/ ~Unreported({"start", "crash"})

\* The slot loop removes the socket file when it ends, unless it is dropped.
Sock ==
    /\ stage # "dropped" /\ others["slot"] = "ended" => socket = "removed"
    /\ stage = "dropped" /\ Unreported({"start", "tasks", "crash"}) => socket = "removed"

IInv == Shape /\ Fits /\ Counts /\ OneHeld /\ Gates /\ Order /\ Cuts /\ Sock

-----------------------------------------------------------------------------
(* What each kind of step touches.                                         *)

\* The supervisor goes on, without touching a task.
Steers ==
    \/ EnterSignalLoop \/ CancelObserved \/ StopListeners \/ WaitUdp \/ WaitTasks
    \/ DrainRead \/ DrainCheck \/ WaitConns \/ StopAdmin \/ WaitAdmin
    \/ StartFails \/ Signal \/ Cancel \/ Expire

\* The process or its runtime ends, and every task with it.
Ends == DropRuntime \/ Crash

\* The accept loops, without a connection.
LoopStep == AcquirePermit \/ AcceptFails \/ Retry \/ LoopCancelled
OtherStep == OtherAcceptFails \/ OtherRetry

\* The accept loops take a connection or hand it over.
TakeStep(k) ==
    Accept(k) \/ Spawn(k) \/ Admit(k) \/ Refuse(k) \/ Incoming(k) \/ Handshake(k)

\* A connection's task goes on, gives its place back, or stays where it is.
MoveStep(k) ==
    MultiplexEnds(k) \/ MultiplexCancelled(k) \/ Start(k) \/ Wrap(k) \/ Close(k)
EndStep(k) == WrapFails(k) \/ Finish(k) \/ Cancelled(k)
StreamStep(k) == OpenStream(k) \/ StreamEnds(k) \/ StreamCancelled(k)
AssocStep(k) == OpenAssociation(k) \/ AssociationIdle(k) \/ RelayEnds(k)

ServiceStep == AdminEnds \/ \E s \in Services : ServiceEnds(s) \/ ServiceFails(s)

ConnStep(k) ==
    TakeStep(k) \/ MoveStep(k) \/ EndStep(k) \/ StreamStep(k) \/ AssocStep(k)

Serves ==
    \/ LoopStep \/ OtherStep \/ ServiceStep
    \/ \E l \in OtherKinds : OtherLoopEnds(l)
    \/ \E k \in Conns : ConnStep(k)

\* A connection's way through its states, by its kind.
Moves(k, v) ==
    /\ conn' = [conn EXCEPT ![k] = v]
    /\ \/ kind[k] \in TcpKinds /\ conn[k] = "new" /\ v = "accepted"
       \/ kind[k] \in TcpKinds /\ conn[k] = "accepted" /\ v = "spawned"
       \/ kind[k] = "slot" /\ conn[k] = "new" /\ v \in {"spawned", "done"}
       \/ kind[k] \in {"h3", "quic"} /\ conn[k] = "new" /\ v = "accepted"
       \/ kind[k] \in {"h3", "quic"} /\ conn[k] = "accepted" /\ v = "done"
       \/ kind[k] = "h3" /\ conn[k] = "accepted" /\ v = "multiplexed"
       \/ kind[k] = "quic" /\ conn[k] = "accepted" /\ v = "detached"
       \/ conn[k] \in {"multiplexed", "detached", "closing"} /\ v = "done"
       \/ conn[k] = "spawned" /\ v = "wrapping"
       \/ conn[k] = "wrapping" /\ v = "serving"
       \/ conn[k] \in {"wrapping", "serving"} /\ v = "closing"

(* Every step is of one of these kinds.                                    *)
LEMMA StepKinds ==
    ASSUME [Next]_vars
    PROVE  Steers \/ CloseUdp \/ Ends \/ Serves \/ UNCHANGED vars
<1>1. ASSUME Supervisor PROVE Steers \/ CloseUdp \/ Ends
  BY <1>1, Zenon DEF Supervisor, Steers, Ends
<1>2. ASSUME AcceptLoop \/ OtherLoops PROVE Serves
  BY <1>2, Zenon DEF AcceptLoop, OtherLoops, Serves, LoopStep, OtherStep, ConnStep, TakeStep
<1>3. ASSUME NEW k \in Conns, Unwinds(k) \/ Session(k) PROVE Serves
  BY <1>3, Zenon DEF Unwinds, Session, Serves, ConnStep, MoveStep, EndStep, StreamStep, AssocStep
<1>4. ASSUME AdminEnds \/ \E s \in Services : ServiceEnds(s) \/ ServiceFails(s) PROVE Serves
  BY <1>4, Zenon DEF Serves, ServiceStep
<1> QED BY <1>1, <1>2, <1>3, <1>4, Zenon DEF Next, Finished, Steers, Ends

(* The supervisor's steps touch no task.                                   *)
LEMMA SteersFrame == ASSUME Steers PROVE UNCHANGED <<conns, rest>>
<1>1. ASSUME EnterSignalLoop \/ CancelObserved \/ StopListeners \/ WaitUdp \/ WaitTasks
      PROVE  UNCHANGED <<conns, rest>>
  BY <1>1, Zenon DEF EnterSignalLoop, CancelObserved, Unready, StopListeners, WaitUdp, WaitTasks
<1>2. ASSUME DrainRead \/ DrainCheck \/ WaitConns \/ StopAdmin \/ WaitAdmin
      PROVE  UNCHANGED <<conns, rest>>
  BY <1>2, Zenon DEF DrainRead, DrainCheck, WaitConns, StopAdmin, WaitAdmin
<1>3. ASSUME StartFails \/ Signal \/ Cancel \/ Expire PROVE UNCHANGED <<conns, rest>>
  BY <1>3, Zenon DEF StartFails, Signal, Unready, Cancel, Expire
<1> QED BY <1>1, <1>2, <1>3, Zenon DEF Steers

(* The variables that these steps leave, one by one.                       *)
LEMMA SteersKeeps ==
    ASSUME Steers
    PROVE  /\ UNCHANGED <<loop, permits, others, slots, socket>>
           /\ UNCHANGED <<conn, cut, active, streams, assoc>>
           /\ UNCHANGED <<service, admin, kind>>
<1>1. UNCHANGED <<conns, rest>>
  BY SteersFrame
<1>2. UNCHANGED <<loops, conn, cut, active, streams, assoc>>
  BY <1>1, Zenon DEF conns
<1> QED BY <1>1, <1>2, Zenon DEF loops, rest

(* A step of a task touches no variable of the supervisor.                 *)
LEMMA ServesFrame == ASSUME Serves PROVE UNCHANGED <<sup, kind>>
<1>1. ASSUME LoopStep \/ OtherStep PROVE UNCHANGED <<sup, rest>>
  BY <1>1, Zenon DEF LoopStep, AcquirePermit, AcceptFails, Retry, LoopCancelled,
     OtherStep, OtherAcceptFails, OtherRetry
<1>2. ASSUME NEW l \in OtherKinds, OtherLoopEnds(l) PROVE UNCHANGED <<sup, rest>>
  BY <1>2, Zenon DEF OtherLoopEnds
<1>3. ASSUME ServiceStep PROVE UNCHANGED <<sup, kind>>
  BY <1>3, Zenon DEF ServiceStep, AdminEnds, ServiceEnds, ServiceFails
<1>4. ASSUME NEW k \in Conns, TakeStep(k) PROVE UNCHANGED <<sup, rest>>
  BY <1>4, Zenon DEF TakeStep, Accept, Spawn, Admit, Refuse, Incoming, Handshake
<1>5. ASSUME NEW k \in Conns, MoveStep(k) \/ EndStep(k) PROVE UNCHANGED <<sup, rest>>
  BY <1>5, Zenon DEF MoveStep, MultiplexEnds, MultiplexCancelled, Start, Wrap, Close,
     EndStep, WrapFails, Finish, Cancelled
<1>6. ASSUME NEW k \in Conns, StreamStep(k) \/ AssocStep(k) PROVE UNCHANGED <<sup, rest>>
  BY <1>6, Zenon DEF StreamStep, OpenStream, StreamEnds, StreamCancelled,
     AssocStep, OpenAssociation, AssociationIdle, RelayEnds
<1>7. ASSUME UNCHANGED <<sup, rest>> PROVE UNCHANGED <<sup, kind>>
  BY <1>7, Zenon DEF rest
<1> QED BY <1>1, <1>2, <1>3, <1>4, <1>5, <1>6, <1>7, Zenon DEF Serves, ConnStep

(* The accept loops between connections.                                   *)
LEMMA LoopFrames ==
    /\ LoopStep => UNCHANGED <<others, slots, socket, conn, cut, active, streams, assoc, service, admin>>
    /\ OtherStep => UNCHANGED <<loop, permits, slots, socket, conn, cut, active, streams, assoc, service, admin>>
<1>1. ASSUME LoopStep
      PROVE  UNCHANGED <<others, slots, socket, conn, cut, active, streams, assoc, service, admin>>
  BY <1>1, Zenon DEF LoopStep, AcquirePermit, AcceptFails, Retry, LoopCancelled, rest
<1>2. ASSUME OtherStep
      PROVE  UNCHANGED <<loop, permits, slots, socket, conn, cut, active, streams, assoc, service, admin>>
  BY <1>2, Zenon DEF OtherStep, OtherAcceptFails, OtherRetry, rest
<1> QED BY <1>1, <1>2, Zenon

(* The steps that move no connection and touch no accept loop.             *)
LEMMA StillFrames ==
    /\ ServiceStep => UNCHANGED <<loops, conn, cut, active, streams, assoc>>
    /\ \A k \in Conns : StreamStep(k) => UNCHANGED <<loops, conn, active, assoc, service, admin>>
    /\ \A k \in Conns : AssocStep(k) => UNCHANGED <<loops, conn, cut, active, streams, service, admin>>
<1>1. ASSUME ServiceStep PROVE UNCHANGED <<loops, conn, cut, active, streams, assoc>>
  <2>1. UNCHANGED conns
    BY <1>1, Zenon DEF ServiceStep, AdminEnds, ServiceEnds, ServiceFails
  <2> QED BY <2>1, Zenon DEF conns
<1>2. ASSUME NEW k \in Conns, StreamStep(k)
      PROVE  UNCHANGED <<loops, conn, active, assoc, service, admin>>
  BY <1>2, Zenon DEF StreamStep, OpenStream, StreamEnds, StreamCancelled, rest
<1>3. ASSUME NEW k \in Conns, AssocStep(k)
      PROVE  UNCHANGED <<loops, conn, cut, active, streams, service, admin>>
  BY <1>3, Zenon DEF AssocStep, OpenAssociation, AssociationIdle, RelayEnds, rest
<1> QED BY <1>1, <1>2, <1>3, Zenon

(* The steps of a connection's task that move it.                          *)
LEMMA MoveFrames ==
    ASSUME NEW k \in Conns
    PROVE  /\ MoveStep(k) => UNCHANGED <<loops, streams, assoc, service, admin>>
           /\ EndStep(k) => UNCHANGED <<loop, others, socket, active, streams, service, admin>>
           /\ TakeStep(k) =>
                  /\ UNCHANGED <<permits, socket, cut, active>>
                  /\ UNCHANGED <<streams, assoc, service, admin>>
<1>1. ASSUME MoveStep(k) PROVE UNCHANGED <<loops, streams, assoc, service, admin>>
  BY <1>1, Zenon DEF MoveStep, MultiplexEnds, MultiplexCancelled, Start, Wrap, Close, rest
<1>2. ASSUME EndStep(k) PROVE UNCHANGED <<loop, others, socket, active, streams, service, admin>>
  BY <1>2, Zenon DEF EndStep, WrapFails, Finish, Cancelled, EndStream, rest
<1>3. ASSUME Accept(k) \/ Spawn(k) \/ Admit(k)
      PROVE  UNCHANGED <<permits, socket, cut, active, streams, assoc, service, admin>>
  BY <1>3, Zenon DEF Accept, Spawn, Admit, rest
<1>4. ASSUME Refuse(k) \/ Incoming(k) \/ Handshake(k)
      PROVE  UNCHANGED <<permits, socket, cut, active, streams, assoc, service, admin>>
  BY <1>4, Zenon DEF Refuse, Incoming, Handshake, loops, rest
<1> QED BY <1>1, <1>2, <1>3, <1>4, Zenon DEF TakeStep

(* A connection that a step moves goes the way of its kind.                *)
LEMMA MovesFrames ==
    ASSUME NEW k \in Conns, TakeStep(k) \/ MoveStep(k) \/ EndStep(k)
    PROVE  \E v \in ConnStates : Moves(k, v)
<1>1. CASE Accept(k) \/ Spawn(k) \/ Admit(k) \/ Refuse(k)
  BY <1>1 DEF Accept, Spawn, Admit, Refuse, Moves, ConnStates, Tracked
<1>2. CASE Incoming(k) \/ Handshake(k)
  BY <1>2 DEF Incoming, Handshake, Moves, ConnStates, Tracked
<1>3. CASE MoveStep(k)
  <2>1. \/ conn[k] \in {"multiplexed", "detached", "closing"} /\ conn' = [conn EXCEPT ![k] = "done"]
        \/ conn[k] = "spawned" /\ conn' = [conn EXCEPT ![k] = "wrapping"]
        \/ conn[k] = "wrapping" /\ conn' = [conn EXCEPT ![k] = "serving"]
    BY <1>3, Zenon DEF MoveStep, MultiplexEnds, MultiplexCancelled, Start, Wrap, Close
  <2> QED BY <2>1 DEF Moves, ConnStates, Tracked
<1>4. CASE EndStep(k)
  <2>1. conn[k] \in {"wrapping", "serving"} /\ conn' = [conn EXCEPT ![k] = "closing"]
    BY <1>4, Zenon DEF EndStep, WrapFails, Finish, Cancelled, EndStream
  <2> QED BY <2>1 DEF Moves, ConnStates, Tracked
<1> QED BY <1>1, <1>2, <1>3, <1>4, Zenon DEF TakeStep
-----------------------------------------------------------------------------
\* The connections of a group D that the states c put in S.
Among(c, S, D) == {j \in Conns : c[j] \in S} \cap D

\* Their number follows when connection k moves to state v.
Follows(c, k, v, S, D) ==
    Cardinality(Among([c EXCEPT ![k] = v], S, D)) = Cardinality(Among(c, S, D))
        + (IF v \in S /\ k \in D THEN 1 ELSE 0)
        - (IF c[k] \in S /\ k \in D THEN 1 ELSE 0)

(* Changing the state of one connection changes the number of connections  *)
(* of a group D in a set of states by what that connection contributes.    *)
LEMMA CountMove ==
    ASSUME NEW c, NEW S, NEW D, NEW k \in Conns, NEW v, DOMAIN c = Conns
    PROVE  Follows(c, k, v, S, D)
<1> DEFINE d == [c EXCEPT ![k] = v]
<1> DEFINE A == {j \in Conns : c[j] \in S} \cap D
<1> DEFINE B == {j \in Conns : d[j] \in S} \cap D
<1> DEFINE R == A \ {k}
<1>1. IsFiniteSet(A) /\ IsFiniteSet(B) /\ IsFiniteSet(R)
  BY FS_Subset, ConnsAssumption
<1>2. Cardinality(A) \in Nat /\ Cardinality(B) \in Nat /\ Cardinality(R) \in Nat
  BY <1>1, FS_CardinalityType
<1>3. k \notin R
  OBVIOUS
<1>4. Cardinality(R \cup {k}) = Cardinality(R) + 1
  BY <1>1, <1>3, FS_AddElement, Zenon
<1>5. A = IF c[k] \in S /\ k \in D THEN R \cup {k} ELSE R
  OBVIOUS
<1>6. B = IF v \in S /\ k \in D THEN R \cup {k} ELSE R
  OBVIOUS
<1>7. Cardinality(A) = Cardinality(R) + (IF c[k] \in S /\ k \in D THEN 1 ELSE 0)
  <2> HIDE DEF A, R
  <2> QED BY <1>2, <1>4, <1>5
<1>8. Cardinality(B) = Cardinality(R) + (IF v \in S /\ k \in D THEN 1 ELSE 0)
  <2> HIDE DEF B, R
  <2> QED BY <1>2, <1>4, <1>6
<1>9. Cardinality(B) = Cardinality(A)
          + (IF v \in S /\ k \in D THEN 1 ELSE 0)
          - (IF c[k] \in S /\ k \in D THEN 1 ELSE 0)
  <2> HIDE DEF A, B, R
  <2> QED BY <1>2, <1>7, <1>8
<1> QED BY <1>9 DEF Among, Follows

(* The counts of connections are natural numbers.                          *)
LEMMA CountType ==
    ASSUME NEW S, S \subseteq Conns
    PROVE  Cardinality(S) \in Nat
BY FS_Subset, FS_CardinalityType, ConnsAssumption

(* The initial states satisfy the inductive invariant.                     *)
LEMMA InitHolds == Init => IInv
<1> SUFFICES ASSUME Init PROVE IInv
  OBVIOUS
<1>1. Shape
  <2>1. Flags
    BY Zenon DEF Init, Flags, Stages
  <2>2. Places
    <3>1. others \in [OtherKinds -> {"accept", "backoff", "handshake", "ended"}]
      BY DEF Init
    <3> QED BY <3>1, Zenon DEF Init, Places
  <2>3. Numbers
    BY LimitAssumption DEF Init, Numbers
  <2>4. Tasks
    <3>1. 0 \in 0..MaxStreams
      BY StreamsAssumption
    <3> QED BY <3>1 DEF Init, Tasks, ConnStates
  <2> QED BY <2>1, <2>2, <2>3, <2>4, Zenon DEF Shape
<1>2. Fits
  BY DEF Init, Fits
<1>3. In(Permitted) = {} /\ In(Guarded) = {}
  BY DEF Init, In, Permitted, Guarded
<1>4. Counts
  <2>1. HeldPermits = 0 /\ HeldSlots = 0 /\ LiveGuards = 0
    <3>1. In(Permitted) \cap Of(TcpKinds) = {} /\ In(Permitted) \cap Of({"slot"}) = {}
      BY <1>3
    <3> QED BY <1>3, <3>1, FS_EmptySet, Zenon DEF HeldPermits, HeldSlots, LiveGuards
  <2> QED BY <2>1, LimitAssumption DEF Init, Counts, Accepting
<1>5. OneHeld
  BY DEF Init, OneHeld
<1>6. Gates
  BY DEF Init, Gates, ShuttingDown, Draining
<1>7. Order /\ Cuts
  BY DEF Init, Order, Cuts, Unreported, Draining
<1>8. Sock
  BY DEF Init, Sock, OtherKinds
<1> QED BY <1>1, <1>2, <1>4, <1>5, <1>6, <1>7, <1>8, Zenon DEF IInv

(* Every step keeps the supervisor's flags, tokens and stage in range.     *)
LEMMA FlagsStep == Flags /\ [Next]_vars => Flags'
<1> SUFFICES ASSUME Flags, [Next]_vars PROVE Flags'
  OBVIOUS
<1>1. ASSUME UNCHANGED sup PROVE Flags'
  BY <1>1, Zenon DEF Flags, sup, tokens
<1>2. CASE EnterSignalLoop \/ CancelObserved \/ Signal \/ StopListeners
  BY <1>2, Zenon DEF Flags, Stages, EnterSignalLoop, CancelObserved, Signal, Unready,
     StopListeners, tokens
<1>3. CASE WaitUdp \/ WaitTasks \/ WaitConns \/ WaitAdmin
  BY <1>3, Zenon DEF Flags, Stages, WaitUdp, WaitTasks, WaitConns, WaitAdmin, Await, tokens
<1>4. CASE DrainRead \/ DrainCheck \/ StopAdmin
  BY <1>4, Zenon DEF Flags, Stages, DrainRead, DrainCheck, StopAdmin, tokens
<1>5. CASE StartFails \/ CloseUdp
  <2>1. stage' \in {"returned", "waitUdp"} /\ late' \subseteq late \cup {"start"}
    BY <1>5, Zenon DEF StartFails, CloseUdp
  <2>2. UNCHANGED <<ready, tokens, expired>>
    BY <1>5, Zenon DEF StartFails, CloseUdp
  <2>3. late' \subseteq {"start", "udp", "tasks", "conns", "admin", "crash"}
    BY <2>1, Zenon DEF Flags
  <2> QED BY <2>1, <2>2, <2>3, Zenon DEF Flags, Stages, tokens
<1>6. CASE Cancel \/ Expire
  <2>1. UNCHANGED <<stage, ready, listenerCancel, connCancel, adminCancel, late>>
    BY <1>6, Zenon DEF Cancel, Expire, tokens
  <2>2. cancel' \in {TRUE, cancel} /\ expired' \in {TRUE, expired}
    BY <1>6, Zenon DEF Cancel, Expire, tokens
  <2> QED BY <2>1, <2>2, Zenon DEF Flags
<1>7. CASE Ends
  BY <1>7, Zenon DEF Flags, Stages, Ends, DropRuntime, Crash, Gone, tokens
<1>8. CASE Serves
  BY <1>1, <1>8, ServesFrame, Zenon
<1>9. CASE UNCHANGED vars
  BY <1>1, <1>9, Zenon DEF vars
<1> QED
  BY <1>2, <1>3, <1>4, <1>5, <1>6, <1>7, <1>8, <1>9, StepKinds, Zenon DEF Steers

(* Every step keeps the accept loops and the admin server in range.        *)
LEMMA PlacesStep == Places /\ [Next]_vars => Places'
<1> SUFFICES ASSUME Places, [Next]_vars PROVE Places'
  OBVIOUS
<1>1. ASSUME UNCHANGED <<loop, others, socket, admin>> PROVE Places'
  BY <1>1, Zenon DEF Places
<1>2. CASE Steers \/ CloseUdp \/ UNCHANGED vars
  <2>1. UNCHANGED loops /\ UNCHANGED admin
    BY <1>2, SteersFrame, Zenon DEF CloseUdp, vars, conns, rest
  <2> QED BY <1>1, <2>1, Zenon DEF loops
<1>3. CASE Ends
  BY <1>3, Zenon DEF Places, Ends, DropRuntime, Crash, Gone
<1>4. CASE LoopStep
  <2>1. loop' \in {"permit", "accept", "backoff", "ended"}
    BY <1>4, Zenon DEF LoopStep, AcquirePermit, AcceptFails, Retry, LoopCancelled
  <2> QED BY <1>4, <2>1, LoopFrames, Zenon DEF Places
<1>5. CASE OtherStep
  <2>1. others' \in [OtherKinds -> {"accept", "backoff", "handshake", "ended"}]
    BY <1>5 DEF Places, OtherStep, OtherAcceptFails, OtherRetry
  <2> QED BY <1>5, <2>1, LoopFrames, Zenon DEF Places
<1>6. ASSUME NEW l \in OtherKinds, OtherLoopEnds(l) PROVE Places'
  <2>1. others' = [others EXCEPT ![l] = "ended"] /\ socket' \in {"removed", socket}
        /\ UNCHANGED <<loop, admin>>
    BY <1>6, Zenon DEF OtherLoopEnds, rest
  <2> QED BY <2>1 DEF Places
<1>7. CASE ServiceStep
  <2>1. UNCHANGED <<loop, others, socket>>
    BY <1>7, StillFrames, Zenon DEF loops
  <2>2. admin' \in {admin, "ended"}
    BY <1>7, Zenon DEF ServiceStep, AdminEnds, ServiceEnds, ServiceFails
  <2> QED BY <2>1, <2>2, Zenon DEF Places
<1>8. ASSUME NEW k \in Conns, ConnStep(k) PROVE Places'
  <2>1. CASE MoveStep(k) \/ EndStep(k) \/ StreamStep(k) \/ AssocStep(k)
    BY <1>1, <2>1, MoveFrames, StillFrames, Zenon DEF loops
  <2>2. CASE Accept(k) \/ Spawn(k)
    <3>1. loop' \in {"permit", "spawn"} /\ others' = others
      BY <2>2, Zenon DEF Accept, Spawn
    <3> QED BY <2>2, <3>1, MoveFrames, Zenon DEF Places, TakeStep
  <2>3. CASE Admit(k) \/ Refuse(k)
    <3>1. UNCHANGED <<loop, others>>
      BY <2>3, Zenon DEF Admit, Refuse, loops
    <3> QED BY <1>1, <2>3, <3>1, MoveFrames, Zenon DEF TakeStep
  <2>4. CASE Incoming(k) \/ Handshake(k)
    <3>1. loop' = loop /\ \E s \in {"accept", "handshake"} : others' = [others EXCEPT ![kind[k]] = s]
      BY <2>4, Zenon DEF Incoming, Handshake
    <3>2. others' \in [OtherKinds -> {"accept", "backoff", "handshake", "ended"}]
      BY <3>1, Zenon DEF Places
    <3> QED BY <2>4, <3>1, <3>2, MoveFrames, Zenon DEF Places, TakeStep
  <2> QED BY <1>8, <2>1, <2>2, <2>3, <2>4, Zenon DEF ConnStep, TakeStep
<1> QED
  BY <1>2, <1>3, <1>4, <1>5, <1>6, <1>7, <1>8, StepKinds, Zenon DEF Serves

(* Every step keeps the counters numbers.                                  *)
LEMMA NumbersStep == Numbers /\ [Next]_vars => Numbers'
<1> SUFFICES ASSUME Numbers, [Next]_vars PROVE Numbers'
  OBVIOUS
<1>1. ASSUME UNCHANGED <<permits, slots, active>> PROVE Numbers'
  BY <1>1, Zenon DEF Numbers
<1>2. CASE Steers \/ CloseUdp \/ UNCHANGED vars
  <2>1. UNCHANGED <<loops, active>>
    BY <1>2, SteersFrame, Zenon DEF CloseUdp, vars, conns
  <2> QED BY <1>1, <2>1, Zenon DEF loops
<1>3. CASE Ends
  <2>1. permits' = Limit /\ slots' = 0 /\ active' = 0
    BY <1>3, Zenon DEF Ends, DropRuntime, Crash, Gone
  <2> QED BY <2>1, LimitAssumption DEF Numbers
<1>4. CASE LoopStep
  <2>1. (permits > 0 /\ permits' = permits - 1) \/ permits' \in {permits, permits + 1, permits + 0}
    BY <1>4, Zenon DEF LoopStep, AcquirePermit, AcceptFails, Retry, LoopCancelled
  <2>2. permits' \in Nat
    BY <2>1 DEF Numbers
  <2> QED BY <1>4, <2>2, LoopFrames, Zenon DEF Numbers
<1>5. CASE OtherStep \/ ServiceStep
  BY <1>1, <1>5, LoopFrames, StillFrames, Zenon DEF loops
<1>6. ASSUME NEW l \in OtherKinds, OtherLoopEnds(l) PROVE Numbers'
  BY <1>1, <1>6, Zenon DEF OtherLoopEnds
<1>7. ASSUME NEW k \in Conns, ConnStep(k) PROVE Numbers'
  <2>1. CASE StreamStep(k) \/ AssocStep(k)
    BY <1>1, <2>1, StillFrames, Zenon DEF loops
  <2>2. CASE MoveStep(k)
    <3>1. UNCHANGED <<permits, slots>> /\ active' \in {active, active + 1, active - 1}
      BY <2>2, Zenon DEF MoveStep, MultiplexEnds, MultiplexCancelled, Start, Wrap, Close, loops
    <3> QED BY <3>1 DEF Numbers
  <2>3. CASE EndStep(k)
    <3>1. /\ permits' = permits + (IF kind[k] = "slot" THEN 0 ELSE 1)
          /\ slots' = slots - (IF kind[k] = "slot" THEN 1 ELSE 0)
          /\ active' = active
      BY <2>3, Zenon DEF EndStep, WrapFails, Finish, Cancelled, EndStream
    <3> QED BY <3>1 DEF Numbers
  <2>4. CASE TakeStep(k)
    <3>1. slots' \in {slots, slots + 1}
      BY <2>4, Zenon DEF TakeStep, Accept, Spawn, Admit, Refuse, Incoming, Handshake, loops
    <3>2. UNCHANGED <<permits, active>>
      BY <2>4, MoveFrames, Zenon
    <3> QED BY <3>1, <3>2 DEF Numbers
  <2> QED BY <1>7, <2>1, <2>2, <2>3, <2>4, Zenon DEF ConnStep
<1> QED
  BY <1>2, <1>3, <1>4, <1>5, <1>6, <1>7, StepKinds, Zenon DEF Serves

(* Every step keeps the states of the tasks in range.                      *)
LEMMA TasksStep == Tasks /\ [Next]_vars => Tasks'
<1> SUFFICES ASSUME Tasks, [Next]_vars PROVE Tasks'
  OBVIOUS
<1>1. ASSUME UNCHANGED <<conn, cut, streams, assoc, service>> PROVE Tasks'
  BY <1>1, Zenon DEF Tasks
<1>2. CASE Steers \/ LoopStep \/ OtherStep
  BY <1>1, <1>2, SteersKeeps, LoopFrames, Zenon
<1>3. CASE UNCHANGED vars
  BY <1>1, <1>3, Zenon DEF vars, conns, rest
<1>4. CASE CloseUdp
  <2>1. UNCHANGED <<conn, cut, streams, service>>
    BY <1>4, Zenon DEF CloseUdp, rest
  <2>2. assoc' \in [Conns -> {"none", "open", "closing", "gone"}]
    BY <1>4 DEF CloseUdp, Tasks
  <2> QED BY <2>1, <2>2, Zenon DEF Tasks
<1>5. CASE Ends
  <2>1. Gone
    BY <1>5, Zenon DEF Ends, DropRuntime, Crash
  <2>2. cut' \subseteq Conns
    BY <2>1 DEF Gone, Tasks, ConnectionTasks, Untracked, In, Of
  <2>3. streams' \in [Conns -> 0..MaxStreams]
    BY <2>1, StreamsAssumption DEF Gone
  <2>4. assoc' \in [Conns -> {"none", "open", "closing", "gone"}]
    BY <2>1 DEF Gone, Tasks
  <2>5. conn' \in [Conns -> ConnStates] /\ service' \in [Services -> {"running", "ended"}]
    BY <2>1 DEF Gone, ConnStates
  <2> QED BY <2>2, <2>3, <2>4, <2>5, Zenon DEF Tasks
<1>6. ASSUME NEW l \in OtherKinds, OtherLoopEnds(l) PROVE Tasks'
  <2>1. UNCHANGED <<streams, assoc, service>>
    BY <1>6, Zenon DEF OtherLoopEnds, rest
  <2>2. conn' \in [Conns -> ConnStates] /\ cut' \subseteq Conns
    BY <1>6 DEF OtherLoopEnds, Tasks, In, ConnStates
  <2> QED BY <2>1, <2>2, Zenon DEF Tasks
<1>7. CASE ServiceStep
  <2>1. service' \in [Services -> {"running", "ended"}]
    BY <1>7 DEF ServiceStep, AdminEnds, ServiceEnds, ServiceFails, Tasks
  <2> QED BY <1>7, <2>1, StillFrames, Zenon DEF Tasks
<1>8. ASSUME NEW k \in Conns, StreamStep(k) PROVE Tasks'
  <2>1. \/ streams[k] < MaxStreams /\ streams' = [streams EXCEPT ![k] = streams[k] + 1]
        \/ streams[k] > 0 /\ streams' = [streams EXCEPT ![k] = streams[k] - 1]
    BY <1>8, Zenon DEF StreamStep, OpenStream, StreamEnds, StreamCancelled
  <2>2. streams' \in [Conns -> 0..MaxStreams]
    BY <2>1, StreamsAssumption DEF Tasks
  <2>3. cut' = cut \/ cut' = cut \cup {k}
    BY <1>8, Zenon DEF StreamStep, OpenStream, StreamEnds, StreamCancelled
  <2> QED BY <1>8, <2>2, <2>3, StillFrames, Zenon DEF Tasks
<1>9. ASSUME NEW k \in Conns, AssocStep(k) PROVE Tasks'
  <2>1. \E s \in {"open", "closing", "gone"} : assoc' = [assoc EXCEPT ![k] = s]
    BY <1>9, Zenon DEF AssocStep, OpenAssociation, AssociationIdle, RelayEnds
  <2>2. assoc' \in [Conns -> {"none", "open", "closing", "gone"}]
    BY <2>1, Zenon DEF Tasks
  <2> QED BY <1>9, <2>2, StillFrames, Zenon DEF Tasks
<1>10. ASSUME NEW k \in Conns, TakeStep(k) \/ MoveStep(k) \/ EndStep(k) PROVE Tasks'
  <2>1. PICK v \in ConnStates : conn' = [conn EXCEPT ![k] = v]
    BY <1>10, MovesFrames, Zenon DEF Moves
  <2>2. conn' \in [Conns -> ConnStates]
    BY <2>1 DEF Tasks
  <2>3. UNCHANGED <<streams, service>>
    BY <1>10, MoveFrames, Zenon
  <2>4. cut' = cut \/ cut' = cut \cup {k}
    <3>1. ASSUME MoveStep(k) PROVE cut' = cut \/ cut' = cut \cup {k}
      BY <3>1, Zenon DEF MoveStep, MultiplexEnds, MultiplexCancelled, Start, Wrap, Close
    <3>2. ASSUME EndStep(k) PROVE cut' = cut \/ cut' = cut \cup {k}
      BY <3>2, Zenon DEF EndStep, WrapFails, Finish, Cancelled
    <3> QED BY <1>10, <3>1, <3>2, MoveFrames, Zenon
  <2>5. assoc' \in [Conns -> {"none", "open", "closing", "gone"}]
    <3>1. ASSUME EndStep(k) PROVE assoc' = assoc \/ assoc' = [assoc EXCEPT ![k] = IF assoc[k] = "open" THEN "closing" ELSE assoc[k]]
      BY <3>1, Zenon DEF EndStep, WrapFails, Finish, Cancelled
    <3>2. assoc' = assoc \/ assoc' = [assoc EXCEPT ![k] = IF assoc[k] = "open" THEN "closing" ELSE assoc[k]]
      BY <1>10, <3>1, MoveFrames, Zenon
    <3> QED BY <3>2 DEF Tasks
  <2> QED BY <2>2, <2>3, <2>4, <2>5, Zenon DEF Tasks
<1> QED
  BY <1>2, <1>3, <1>4, <1>5, <1>6, <1>7, <1>8, <1>9, <1>10, StepKinds, Zenon
  DEF Serves, ConnStep

(* Every step keeps connections in the states of their kind.               *)
LEMMA FitsStep == Tasks /\ Fits /\ [Next]_vars => Fits'
<1> SUFFICES ASSUME Tasks, Fits, [Next]_vars PROVE Fits'
  OBVIOUS
<1>1. ASSUME UNCHANGED <<conn, kind>> PROVE Fits'
  BY <1>1, Zenon DEF Fits
<1>2. CASE Steers \/ CloseUdp \/ UNCHANGED vars
  BY <1>1, <1>2, SteersKeeps, Zenon DEF CloseUdp, vars, conns, rest
<1>3. CASE LoopStep \/ OtherStep \/ ServiceStep
  BY <1>1, <1>3, LoopFrames, StillFrames, ServesFrame, Zenon DEF Serves
<1>4. ASSUME NEW k \in Conns, StreamStep(k) \/ AssocStep(k) PROVE Fits'
  BY <1>1, <1>4, StillFrames, ServesFrame, Zenon DEF Serves, ConnStep
<1>5. ASSUME NEW k \in Conns, TakeStep(k) \/ MoveStep(k) \/ EndStep(k) PROVE Fits'
  <2>1. kind' = kind
    BY <1>5, ServesFrame, Zenon DEF Serves, ConnStep
  <2>2. PICK v \in ConnStates : Moves(k, v)
    BY <1>5, MovesFrames, Zenon
  <2> QED BY <2>1, <2>2 DEF Tasks, Fits, Moves
<1>6. ASSUME kind' = kind, \A k \in Conns : conn'[k] \in {"new", "done", conn[k]} PROVE Fits'
  BY <1>6 DEF Fits
<1>7. ASSUME NEW l \in OtherKinds, OtherLoopEnds(l) PROVE Fits'
  <2>1. kind' = kind
    BY <1>7, ServesFrame, Zenon DEF Serves
  <2>2. \A k \in Conns : conn'[k] \in {"done", conn[k]}
    BY <1>7 DEF OtherLoopEnds
  <2> QED BY <1>6, <2>1, <2>2, Zenon
<1>8. CASE Ends
  <2>1. Gone
    BY <1>8, Zenon DEF Ends, DropRuntime, Crash
  <2>2. \A k \in Conns : conn'[k] \in {"new", "done"}
    BY <2>1 DEF Gone
  <2>3. kind' = kind
    BY <2>1, Zenon DEF Gone
  <2> QED BY <1>6, <2>2, <2>3, Zenon
<1> QED
  BY <1>2, <1>3, <1>4, <1>5, <1>7, <1>8, StepKinds, Zenon DEF Serves, ConnStep

(* Every step keeps the accept loops to one connection each.               *)
LEMMA OneHeldStep == Places /\ Tasks /\ Fits /\ OneHeld /\ [Next]_vars => OneHeld'
<1> SUFFICES ASSUME Places, Tasks, Fits, OneHeld, [Next]_vars PROVE OneHeld'
  OBVIOUS
<1>1. ASSUME UNCHANGED <<conn, kind, loop, others>> PROVE OneHeld'
  BY <1>1, Zenon DEF OneHeld
<1>2. CASE Steers
  BY <1>1, <1>2, SteersKeeps, Zenon
<1>3. CASE CloseUdp \/ UNCHANGED vars
  BY <1>1, <1>3, Zenon DEF CloseUdp, vars, conns, loops, rest
<1>4. CASE ServiceStep
  BY <1>1, <1>4, StillFrames, ServesFrame, Zenon DEF Serves, loops
<1>5. ASSUME NEW k \in Conns, StreamStep(k) \/ AssocStep(k) PROVE OneHeld'
  BY <1>1, <1>5, StillFrames, ServesFrame, Zenon DEF Serves, ConnStep, loops
<1>6. CASE LoopStep
  <2>1. loop # "spawn"
    BY <1>6 DEF LoopStep, AcquirePermit, AcceptFails, Retry, LoopCancelled
  <2>2. UNCHANGED <<conn, kind, others>>
    BY <1>6, LoopFrames, ServesFrame, Zenon DEF Serves
  <2> QED BY <2>1, <2>2 DEF OneHeld
<1>7. CASE OtherStep
  <2>1. \A l \in {"h3", "quic"} : others'[l] = others[l]
    BY <1>7 DEF OtherStep, OtherAcceptFails, OtherRetry, Places, OtherKinds
  <2>2. UNCHANGED <<conn, kind, loop>>
    BY <1>7, LoopFrames, ServesFrame, Zenon DEF Serves
  <2> QED BY <2>1, <2>2 DEF OneHeld
<1>8. ASSUME UNCHANGED <<kind, loop, others>>,
             \A j \in Conns : conn'[j] = "accepted" => conn[j] = "accepted"
      PROVE  OneHeld'
  BY <1>8 DEF OneHeld
<1>9. ASSUME NEW k \in Conns, MoveStep(k) \/ EndStep(k) PROVE OneHeld'
  <2>1. UNCHANGED <<kind, loop, others>>
    BY <1>9, MoveFrames, ServesFrame, Zenon DEF Serves, ConnStep, loops
  <2>2. PICK v : conn' = [conn EXCEPT ![k] = v] /\ v # "accepted"
    <3>1. ASSUME MoveStep(k) PROVE \E v : conn' = [conn EXCEPT ![k] = v] /\ v # "accepted"
      BY <3>1 DEF MoveStep, MultiplexEnds, MultiplexCancelled, Start, Wrap, Close
    <3>2. ASSUME EndStep(k) PROVE \E v : conn' = [conn EXCEPT ![k] = v] /\ v # "accepted"
      BY <3>2 DEF EndStep, WrapFails, Finish, Cancelled, EndStream
    <3> QED BY <1>9, <3>1, <3>2, Zenon
  <2>3. \A j \in Conns : conn'[j] = "accepted" => conn[j] = "accepted"
    BY <2>2 DEF Tasks
  <2> QED BY <1>8, <2>1, <2>3, Zenon
<1>10. ASSUME NEW k \in Conns, Admit(k) \/ Refuse(k) PROVE OneHeld'
  <2>1. UNCHANGED <<kind, loop, others>>
    BY <1>10, ServesFrame, Zenon DEF Serves, ConnStep, TakeStep, Admit, Refuse, loops
  <2>2. PICK v : conn' = [conn EXCEPT ![k] = v] /\ v # "accepted"
    BY <1>10 DEF Admit, Refuse
  <2>3. \A j \in Conns : conn'[j] = "accepted" => conn[j] = "accepted"
    BY <2>2 DEF Tasks
  <2> QED BY <1>8, <2>1, <2>3, Zenon
<1>11. ASSUME NEW k \in Conns, Accept(k) \/ Spawn(k) PROVE OneHeld'
  <2>1. kind' = kind /\ others' = others /\ kind[k] \in TcpKinds
    BY <1>11, ServesFrame, Zenon DEF Serves, ConnStep, TakeStep, Accept, Spawn
  <2>2. CASE Accept(k)
    <3>1. loop = "accept" /\ loop' = "spawn" /\ conn' = [conn EXCEPT ![k] = "accepted"]
      BY <2>2, Zenon DEF Accept
    <3> QED BY <2>1, <3>1 DEF OneHeld, Tasks, TcpKinds
  <2>3. CASE Spawn(k)
    <3>1. loop = "spawn" /\ conn[k] = "accepted" /\ conn' = [conn EXCEPT ![k] = "spawned"]
      BY <2>3, Zenon DEF Spawn
    <3> QED BY <2>1, <3>1 DEF OneHeld, Tasks, TcpKinds
  <2> QED BY <1>11, <2>2, <2>3
<1>12. ASSUME NEW k \in Conns, Incoming(k) \/ Handshake(k) PROVE OneHeld'
  <2>1. kind' = kind /\ loop' = loop /\ kind[k] \in {"h3", "quic"}
    BY <1>12, ServesFrame, Zenon DEF Serves, ConnStep, TakeStep, Incoming, Handshake
  <2>2. CASE Incoming(k)
    <3>1. /\ others[kind[k]] = "accept"
          /\ others' = [others EXCEPT ![kind[k]] = "handshake"]
          /\ conn' = [conn EXCEPT ![k] = "accepted"]
      BY <2>2, Zenon DEF Incoming
    <3>2. others'[kind[k]] = "handshake" /\ \A l \in {"h3", "quic"} : l # kind[k] => others'[l] = others[l]
      BY <2>1, <3>1 DEF Places, OtherKinds
    <3>3. \A j \in Conns : j # k => conn'[j] = conn[j]
      BY <3>1 DEF Tasks
    <3> QED BY <2>1, <3>1, <3>2, <3>3 DEF OneHeld, TcpKinds
  <2>3. CASE Handshake(k)
    <3>1. PICK to \in {"multiplexed", "detached", "done"} : conn' = [conn EXCEPT ![k] = to]
      BY <2>3, Zenon DEF Handshake
    <3>2. conn[k] = "accepted" /\ others' = [others EXCEPT ![kind[k]] = "accept"]
      BY <2>3, Zenon DEF Handshake
    <3>3. \A l \in {"h3", "quic"} : l # kind[k] => others'[l] = others[l]
      BY <2>1, <3>2 DEF Places, OtherKinds
    <3>4. \A j \in Conns : IF j = k THEN conn'[j] # "accepted" ELSE conn'[j] = conn[j]
      BY <3>1 DEF Tasks
    <3> QED BY <2>1, <3>2, <3>3, <3>4 DEF OneHeld, TcpKinds
  <2> QED BY <1>12, <2>2, <2>3
<1>13. ASSUME NEW l \in OtherKinds, OtherLoopEnds(l) PROVE OneHeld'
  <2>1. kind' = kind /\ loop' = loop
    BY <1>13, ServesFrame, Zenon DEF Serves, OtherLoopEnds
  <2>2. others[l] = "accept" /\ \A m \in OtherKinds : m # l => others'[m] = others[m]
    BY <1>13 DEF OtherLoopEnds, Places
  <2>3. \A k \in Conns : conn'[k] \in {"done", conn[k]}
    BY <1>13 DEF OtherLoopEnds
  <2> QED BY <2>1, <2>2, <2>3 DEF OneHeld, OtherKinds
<1>14. CASE Ends
  <2>1. \A k \in Conns : conn'[k] \in {"new", "done"}
    BY <1>14 DEF Ends, DropRuntime, Crash, Gone
  <2> QED BY <2>1 DEF OneHeld
<1> QED
  BY <1>2, <1>3, <1>4, <1>5, <1>6, <1>7, <1>9, <1>10, <1>11, <1>12, <1>13, <1>14,
     StepKinds, Zenon
  DEF Serves, ConnStep, TakeStep

(* Every step keeps the tokens in step with the shutdown.                  *)
LEMMA GatesStep == Flags /\ Gates /\ [Next]_vars => Gates'
<1> SUFFICES ASSUME Flags, Gates, [Next]_vars PROVE Gates'
  OBVIOUS
<1>1. ASSUME UNCHANGED sup PROVE Gates'
  BY <1>1, Zenon DEF Gates, sup, tokens
<1>2. CASE EnterSignalLoop \/ Unready
  BY <1>2 DEF Gates, ShuttingDown, Draining, EnterSignalLoop, Unready, tokens
<1>3. CASE StopListeners \/ CloseUdp
  BY <1>3 DEF Gates, ShuttingDown, Draining, StopListeners, CloseUdp, tokens
<1>4. CASE WaitUdp \/ WaitTasks
  BY <1>4 DEF Gates, ShuttingDown, Draining, WaitUdp, WaitTasks, Await, tokens
<1>5. CASE WaitConns \/ WaitAdmin
  BY <1>5 DEF Gates, ShuttingDown, Draining, WaitConns, WaitAdmin, Await, tokens
<1>6. CASE DrainRead \/ DrainCheck
  BY <1>6 DEF Gates, ShuttingDown, Draining, DrainRead, DrainCheck, tokens
<1>7. CASE StopAdmin \/ StartFails
  BY <1>7 DEF Gates, ShuttingDown, Draining, StopAdmin, StartFails, tokens
<1>8. CASE Cancel \/ Expire
  BY <1>8 DEF Gates, ShuttingDown, Draining, Cancel, Expire, tokens
<1>9. CASE Ends
  <2>1. stage' = "dropped" /\ UNCHANGED <<tokens, expired>>
    BY <1>9, Zenon DEF Ends, DropRuntime, Crash, Gone
  <2>2. \/ stage = "returned" /\ UNCHANGED <<ready, late>>
        \/ ready' = FALSE /\ late' = late \cup {"crash"}
    BY <1>9, Zenon DEF Ends, DropRuntime, Crash
  <2> QED BY <2>1, <2>2 DEF Gates, ShuttingDown, Draining, tokens
<1>10. CASE Serves \/ UNCHANGED vars
  BY <1>1, <1>10, ServesFrame, Zenon DEF vars
<1> QED
  BY <1>2, <1>3, <1>4, <1>5, <1>6, <1>7, <1>8, <1>9, <1>10, StepKinds, Zenon
  DEF Steers, CancelObserved, Signal

(* Accept loops that have ended take no connection any more.               *)
LEMMA EndedBlocks ==
    ASSUME LoopsEnded
    PROVE  /\ ~LoopStep /\ ~OtherStep
           /\ \A l \in OtherKinds : ~OtherLoopEnds(l)
           /\ \A k \in Conns : ~TakeStep(k)
<1>1. ~LoopStep /\ ~OtherStep
  BY DEF LoopsEnded, OtherKinds, LoopStep, AcquirePermit, AcceptFails, Retry, LoopCancelled,
     OtherStep, OtherAcceptFails, OtherRetry
<1>2. \A l \in OtherKinds : ~OtherLoopEnds(l)
  BY DEF LoopsEnded, OtherLoopEnds
<1>3. \A k \in Conns : ~Accept(k) /\ ~Spawn(k)
  BY DEF LoopsEnded, Accept, Spawn
<1>4. \A k \in Conns : ~Admit(k) /\ ~Refuse(k)
  BY DEF LoopsEnded, OtherKinds, Admit, Refuse
<1>5. \A k \in Conns : ~Incoming(k) /\ ~Handshake(k)
  BY DEF LoopsEnded, OtherKinds, Incoming, Handshake
<1> QED BY <1>1, <1>2, <1>3, <1>4, <1>5, Zenon DEF TakeStep

(* They stay ended, whatever the other tasks do.                           *)
LEMMA EndedStays == ASSUME LoopsEnded, Serves PROVE LoopsEnded'
<1>1. ASSUME UNCHANGED <<loop, others>> PROVE LoopsEnded'
  BY <1>1, Zenon DEF LoopsEnded
<1>2. ASSUME ServiceStep PROVE LoopsEnded'
  BY <1>1, <1>2, StillFrames, Zenon DEF loops
<1>3. ASSUME NEW k \in Conns, ConnStep(k) PROVE LoopsEnded'
  BY <1>1, <1>3, EndedBlocks, MoveFrames, StillFrames, Zenon DEF ConnStep, loops
<1> QED BY <1>2, <1>3, EndedBlocks, Zenon DEF Serves

(* With the accept loops ended, no task comes back to the tracker.         *)
LEMMA IdleStays ==
    ASSUME Tasks, LoopsEnded, NoTasks, Serves
    PROVE  NoTasks'
<1>1. kind' = kind
  BY ServesFrame, Zenon
<1>2. ASSUME UNCHANGED conn, \A k \in Conns : kind[k] = "h2" => streams'[k] = streams[k] PROVE NoTasks'
  BY <1>1, <1>2, Zenon DEF NoTasks
<1>3. CASE ServiceStep
  BY <1>2, <1>3, StillFrames, Zenon
<1>4. ASSUME NEW k \in Conns, AssocStep(k) PROVE NoTasks'
  BY <1>2, <1>4, StillFrames, Zenon
<1>5. ASSUME NEW k \in Conns, StreamStep(k) PROVE NoTasks'
  <2>1. conn[k] \notin Tracked /\ (kind[k] = "h2" => streams[k] = 0)
    BY Zenon DEF NoTasks
  <2>2. conn[k] \notin {"serving", "multiplexed"}
    BY <2>1 DEF Tracked
  <2>3. streams[k] > 0 /\ streams' = [streams EXCEPT ![k] = streams[k] - 1]
    BY <1>5, <2>2, Zenon DEF StreamStep, OpenStream, StreamEnds, StreamCancelled
  <2>4. kind[k] # "h2"
    BY <2>1, <2>3
  <2>5. \A j \in Conns : kind[j] = "h2" => streams'[j] = streams[j]
    BY <2>3, <2>4 DEF Tasks
  <2> QED BY <1>2, <1>5, <2>5, StillFrames, Zenon
<1>6. ASSUME NEW k \in Conns, MoveStep(k) \/ EndStep(k) PROVE NoTasks'
  <2>1. conn[k] \notin {"multiplexed", "spawned", "wrapping", "serving", "closing"}
    BY DEF NoTasks, Tracked
  <2>2. ~EndStep(k)
    BY <2>1, Zenon DEF EndStep, WrapFails, Finish, Cancelled
  <2>3. conn' = [conn EXCEPT ![k] = "done"]
    BY <1>6, <2>1, <2>2, Zenon DEF MoveStep, MultiplexEnds, MultiplexCancelled, Start, Wrap, Close
  <2>4. streams' = streams
    BY <1>6, <2>2, MoveFrames, Zenon
  <2> QED BY <1>1, <2>3, <2>4 DEF NoTasks, Tasks, Tracked
<1> QED
  BY EndedBlocks, <1>3, <1>4, <1>5, <1>6, Zenon DEF Serves, ConnStep

(* A wait that is not reported late has found what it waited for.          *)
LEMMA AwaitFinds ==
    ASSUME NEW here, NEW over, NEW name, NEW next, Await(here, over, name, next), name \notin late'
    PROVE  over
BY DEF Await

(* Every step keeps what the waits of the shutdown establish.              *)
LEMMA OrderStep == Tasks /\ Order /\ [Next]_vars => Order'
<1> SUFFICES ASSUME Tasks, Order, [Next]_vars PROVE Order'
  OBVIOUS
<1>1. ASSUME LoopsEnded' /\ NoTasks' PROVE Order'
  BY <1>1, Zenon DEF Order
<1>2. CASE Ends
  <2>1. Gone
    BY <1>2, Zenon DEF Ends, DropRuntime, Crash
  <2>2. LoopsEnded'
    BY <2>1 DEF Gone, LoopsEnded
  <2>3. NoTasks'
    BY <2>1 DEF Gone, NoTasks, Tracked
  <2> QED BY <1>1, <2>2, <2>3, Zenon
<1>3. CASE Serves
  <2>1. stage' = stage /\ late' = late
    BY <1>3, ServesFrame, Zenon DEF sup
  <2>2. stage \in Draining \cup {"returned", "dropped"} /\ Unreported({"start", "tasks"}) => LoopsEnded'
    BY <1>3, EndedStays, Zenon DEF Order
  <2>3. stage \in {"stopAdmin", "waitAdmin", "returned", "dropped"}
           /\ Unreported({"start", "tasks", "conns"}) => LoopsEnded /\ NoTasks
    BY DEF Order, Unreported, Draining
  <2>4. stage \in {"stopAdmin", "waitAdmin", "returned", "dropped"}
           /\ Unreported({"start", "tasks", "conns"}) => NoTasks'
    BY <1>3, <2>3, IdleStays, Zenon
  <2> QED BY <2>1, <2>2, <2>4, Zenon DEF Order, Unreported
<1>4. ASSUME UNCHANGED <<loop, others, conn, kind, streams>>
      PROVE  (LoopsEnded' <=> LoopsEnded) /\ (NoTasks' <=> NoTasks)
  BY <1>4, Zenon DEF LoopsEnded, NoTasks
<1>5. CASE UNCHANGED vars
  <2>1. UNCHANGED <<loop, others, conn, kind, streams>>
    BY <1>5, Zenon DEF vars, conns, loops, rest
  <2>2. stage' = stage /\ late' = late
    BY <1>5, Zenon DEF vars, sup
  <2> QED BY <1>4, <2>1, <2>2, Zenon DEF Order, Unreported
<1>6. ASSUME Steers \/ CloseUdp
      PROVE  (LoopsEnded' <=> LoopsEnded) /\ (NoTasks' <=> NoTasks)
  BY <1>4, <1>6, SteersKeeps, Zenon DEF CloseUdp, loops, rest
<1>7. CASE WaitTasks
  <2>1. stage' = "drain" /\ late \subseteq late'
    BY <1>7 DEF WaitTasks, Await
  <2>2. "tasks" \notin late' => LoopsEnded
    BY <1>7, AwaitFinds, Zenon DEF WaitTasks, LoopsEnded
  <2> QED BY <1>6, <1>7, <2>1, <2>2 DEF Steers, Order, Unreported
<1>8. CASE WaitConns
  <2>1. stage = "waitConns" /\ stage' = "stopAdmin" /\ late \subseteq late'
    BY <1>8 DEF WaitConns, Await
  <2>2. "conns" \notin late' => ConnectionTasks = {}
    BY <1>8, AwaitFinds, Zenon DEF WaitConns
  <2>3. ConnectionTasks = {} => NoTasks
    BY StreamsAssumption DEF ConnectionTasks, In, Of, NoTasks, Tasks
  <2> QED BY <1>6, <1>8, <2>1, <2>2, <2>3 DEF Steers, Order, Unreported, Draining
<1>9. CASE StartFails
  <2>1. "start" \in late'
    BY <1>9 DEF StartFails
  <2> QED BY <2>1 DEF Order, Unreported
<1>10. ASSUME late \subseteq late',
              \/ stage' \notin Draining \cup {"returned", "dropped"}
              \/ /\ stage \in Draining \cup {"returned", "dropped"}
                 /\ \/ stage' \notin {"stopAdmin", "waitAdmin", "returned", "dropped"}
                    \/ stage \in {"stopAdmin", "waitAdmin", "returned", "dropped"},
              (LoopsEnded' <=> LoopsEnded) /\ (NoTasks' <=> NoTasks)
       PROVE  Order'
  BY <1>10 DEF Order, Unreported, Draining
<1>11. CASE EnterSignalLoop \/ Unready \/ StopListeners \/ CloseUdp \/ WaitUdp
  <2>1. late \subseteq late' /\ stage' \in {"running", "stopListeners", "closeUdp", "waitUdp", "waitTasks"}
    BY <1>11, Zenon DEF EnterSignalLoop, Unready, StopListeners, CloseUdp, WaitUdp, Await
  <2>2. stage' \notin Draining \cup {"returned", "dropped"}
    BY <2>1 DEF Draining
  <2> QED BY <1>6, <1>10, <1>11, <2>1, <2>2, Zenon DEF Steers, Signal
<1>12. CASE DrainRead \/ DrainCheck \/ StopAdmin \/ WaitAdmin
  <2>1. CASE DrainRead \/ DrainCheck
    <3>1. late' = late /\ stage \in {"drain", "checkDeadline"} /\ stage' \in {"drain", "checkDeadline", "waitConns"}
      BY <2>1, Zenon DEF DrainRead, DrainCheck
    <3>2. stage \in Draining /\ stage' \notin {"stopAdmin", "waitAdmin", "returned", "dropped"}
      BY <3>1 DEF Draining
    <3> QED BY <1>6, <1>10, <2>1, <3>1, <3>2, Zenon DEF Steers
  <2>2. CASE StopAdmin \/ WaitAdmin
    <3>1. late \subseteq late' /\ stage \in {"stopAdmin", "waitAdmin"}
      BY <2>2, Zenon DEF StopAdmin, WaitAdmin, Await
    <3>2. stage \in Draining /\ stage \in {"stopAdmin", "waitAdmin", "returned", "dropped"}
      BY <3>1 DEF Draining
    <3> QED BY <1>6, <1>10, <2>2, <3>1, <3>2, Zenon DEF Steers
  <2> QED BY <1>12, <2>1, <2>2
<1>13. CASE Cancel \/ Expire
  <2>1. stage' = stage /\ late' = late
    BY <1>13, Zenon DEF Cancel, Expire
  <2> QED BY <1>6, <1>13, <2>1, Zenon DEF Steers, Order, Unreported
<1> QED
  BY <1>2, <1>3, <1>5, <1>7, <1>8, <1>9, <1>11, <1>12, <1>13, StepKinds, Zenon
  DEF Steers, CancelObserved, Signal

(* The supervisor withdraws no token and forgets no late wait, and only a  *)
(* process that ends is dropped.                                           *)
LEMMA SteersMonotone ==
    ASSUME Steers \/ CloseUdp
    PROVE  /\ connCancel => connCancel'
           /\ listenerCancel => listenerCancel'
           /\ late \subseteq late'
           /\ stage' = "dropped" <=> stage = "dropped"
<1>1. CASE EnterSignalLoop \/ Unready \/ StartFails
  BY <1>1 DEF EnterSignalLoop, Unready, StartFails, tokens
<1>2. CASE StopListeners \/ CloseUdp \/ Cancel \/ Expire
  BY <1>2 DEF StopListeners, CloseUdp, Cancel, Expire, tokens
<1>3. CASE WaitUdp \/ WaitTasks
  BY <1>3 DEF WaitUdp, WaitTasks, Await, tokens
<1>4. CASE WaitConns \/ WaitAdmin
  BY <1>4 DEF WaitConns, WaitAdmin, Await, tokens
<1>5. CASE DrainRead \/ DrainCheck \/ StopAdmin
  BY <1>5 DEF DrainRead, DrainCheck, StopAdmin, tokens
<1> QED BY <1>1, <1>2, <1>3, <1>4, <1>5, Zenon DEF Steers, CancelObserved, Signal

(* A task marks a connection as cut only after its token, or after that of *)
(* the listener when the endpoint closes under a raw QUIC connection.      *)
LEMMA CutOnlyByToken ==
    ASSUME Fits, Serves
    PROVE  cut' = cut \/ connCancel \/ (listenerCancel /\ \A k \in cut' \ cut : kind[k] = "quic")
<1>1. CASE LoopStep \/ OtherStep \/ ServiceStep
  BY <1>1, LoopFrames, StillFrames, Zenon
<1>2. ASSUME NEW k \in Conns, StreamStep(k) PROVE cut' = cut \/ connCancel
  BY <1>2, Zenon DEF StreamStep, OpenStream, StreamEnds, StreamCancelled
<1>3. ASSUME NEW k \in Conns, MoveStep(k) PROVE cut' = cut \/ connCancel
  BY <1>3, Zenon DEF MoveStep, MultiplexEnds, MultiplexCancelled, Start, Wrap, Close
<1>4. ASSUME NEW k \in Conns, EndStep(k) PROVE cut' = cut \/ connCancel
  BY <1>4, Zenon DEF EndStep, WrapFails, Finish, Cancelled
<1>5. ASSUME NEW k \in Conns, AssocStep(k) \/ TakeStep(k) PROVE cut' = cut
  BY <1>5, StillFrames, MoveFrames, Zenon
<1>6. ASSUME NEW l \in OtherKinds, OtherLoopEnds(l)
      PROVE  listenerCancel /\ \A k \in cut' \ cut : kind[k] = "quic"
  <2>1. listenerCancel /\ cut' \subseteq cut \cup In({"detached"})
    BY <1>6 DEF OtherLoopEnds
  <2> QED BY <2>1 DEF In, Fits
<1> QED BY <1>1, <1>2, <1>3, <1>4, <1>5, <1>6, Zenon DEF Serves, ConnStep

(* Every step keeps the reasons for the connections that were cut.         *)
LEMMA CutsStep == Tasks /\ Fits /\ Gates /\ Order /\ Cuts /\ [Next]_vars => Cuts'
<1> SUFFICES ASSUME Tasks, Fits, Gates, Order, Cuts, [Next]_vars PROVE Cuts'
  OBVIOUS
<1>1. ASSUME UNCHANGED <<cut, kind>>, connCancel => connCancel', listenerCancel => listenerCancel',
             late \subseteq late'
      PROVE  Cuts'
  BY <1>1 DEF Cuts, Unreported
<1>2. CASE Steers
  BY <1>1, <1>2, SteersMonotone, SteersKeeps, Zenon
<1>3. CASE CloseUdp
  <2>1. UNCHANGED <<cut, kind>>
    BY <1>3, Zenon DEF CloseUdp, rest
  <2> QED BY <1>1, <1>3, <2>1, SteersMonotone, Zenon
<1>4. CASE UNCHANGED vars
  <2>1. UNCHANGED <<cut, kind>> /\ UNCHANGED <<connCancel, listenerCancel, late>>
    BY <1>4, Zenon DEF vars, conns, rest, sup, tokens
  <2> QED BY <1>1, <2>1
<1>5. CASE Serves
  <2>1. kind' = kind /\ UNCHANGED <<connCancel, listenerCancel, late>>
    BY <1>5, ServesFrame, Zenon DEF sup, tokens
  <2>2. CASE cut' = cut
    BY <1>1, <2>1, <2>2
  <2>3. CASE connCancel
    BY <2>1, <2>3 DEF Gates, Cuts
  <2>4. CASE listenerCancel /\ \A k \in cut' \ cut : kind[k] = "quic"
    BY <2>1, <2>4 DEF Cuts, Unreported, TcpKinds
  <2> QED BY <1>5, <2>2, <2>3, <2>4, CutOnlyByToken, Zenon
<1>6. CASE Crash
  BY <1>6 DEF Crash, Cuts, Unreported
<1>7. CASE DropRuntime
  <2>1. /\ stage = "returned" /\ UNCHANGED <<late, tokens, kind>>
        /\ cut' = cut \cup ConnectionTasks \cup Untracked
    BY <1>7, Zenon DEF DropRuntime, Gone
  <2>2. UNCHANGED <<connCancel, listenerCancel>>
    BY <2>1, Zenon DEF tokens
  <2>3. listenerCancel \/ "start" \in late
    BY <2>1, Zenon DEF Gates
  <2>4. Unreported({"start", "tasks", "conns"}) => NoTasks
    BY <2>1 DEF Order
  <2>5. NoTasks => ConnectionTasks = {}
    BY DEF NoTasks, ConnectionTasks, In, Of
  <2>6. \A k \in Untracked : kind[k] \in {"h3", "quic"}
    BY DEF Untracked, In, Of, Fits
  <2>7. (\E k \in Conns : k \in cut' /\ kind'[k] \in TcpKinds \cup {"slot"}) =>
            connCancel' \/ ~Unreported({"start", "tasks", "conns", "crash"})'
    BY <2>1, <2>2, <2>4, <2>5, <2>6 DEF Cuts, Unreported, TcpKinds
  <2>8. listenerCancel' \/ ~Unreported({"start", "crash"})'
    BY <2>1, <2>2, <2>3 DEF Unreported
  <2> QED BY <2>7, <2>8, Zenon DEF Cuts
<1> QED BY <1>2, <1>3, <1>4, <1>5, <1>6, <1>7, StepKinds, Zenon DEF Ends

(* Every step keeps the socket file in step with its accept loop.          *)
LEMMA SockStep == Places /\ Fits /\ Order /\ Sock /\ [Next]_vars => Sock'
<1> SUFFICES ASSUME Places, Fits, Order, Sock, [Next]_vars PROVE Sock'
  OBVIOUS
<1>1. ASSUME late \subseteq late', stage' = "dropped" <=> stage = "dropped",
             socket' = "removed" \/ (socket' = socket /\ (others'["slot"] = "ended" => others["slot"] = "ended"))
      PROVE  Sock'
  BY <1>1 DEF Sock, Unreported
<1>2. CASE Steers \/ CloseUdp
  <2>1. UNCHANGED <<others, socket>>
    BY <1>2, SteersKeeps, Zenon DEF CloseUdp, loops
  <2> QED BY <1>1, <1>2, <2>1, SteersMonotone, Zenon
<1>3. CASE UNCHANGED vars
  <2>1. UNCHANGED <<others, socket>> /\ UNCHANGED <<stage, late>>
    BY <1>3, Zenon DEF vars, conns, loops, sup
  <2> QED BY <1>1, <2>1
<1>4. CASE Crash
  BY <1>4 DEF Crash, Gone, Sock, Unreported
<1>5. CASE DropRuntime
  <2>1. stage = "returned" /\ stage' = "dropped" /\ UNCHANGED <<late, socket>>
    BY <1>5, Zenon DEF DropRuntime, Gone
  <2>2. Unreported({"start", "tasks", "crash"}) => others["slot"] = "ended"
    BY <2>1 DEF Order, LoopsEnded, Unreported, OtherKinds
  <2> QED BY <2>1, <2>2 DEF Sock, Unreported
<1>6. CASE Serves
  <2>1. UNCHANGED <<stage, late>>
    BY <1>6, ServesFrame, Zenon DEF sup
  <2> DEFINE Kept == \/ socket' = "removed"
                     \/ socket' = socket /\ (others'["slot"] = "ended" => others["slot"] = "ended")
  <2>2. ASSUME LoopStep \/ ServiceStep PROVE Kept
    BY <2>2, LoopFrames, StillFrames, Zenon DEF loops
  <2>3. ASSUME OtherStep PROVE Kept
    <3>1. others'["slot"] \in {"backoff", "accept"}
      BY <2>3 DEF OtherStep, OtherAcceptFails, OtherRetry, Places, OtherKinds
    <3> QED BY <2>3, <3>1, LoopFrames
  <2>4. ASSUME NEW l \in OtherKinds, OtherLoopEnds(l) PROVE Kept
    <3>1. /\ others' = [others EXCEPT ![l] = "ended"]
          /\ socket' = IF l = "slot" THEN "removed" ELSE socket
      BY <2>4, Zenon DEF OtherLoopEnds
    <3> QED BY <3>1 DEF Places, OtherKinds
  <2>5. ASSUME NEW k \in Conns, ConnStep(k) PROVE Kept
    <3>1. CASE MoveStep(k) \/ EndStep(k) \/ StreamStep(k) \/ AssocStep(k)
      BY <3>1, MoveFrames, StillFrames, Zenon DEF loops
    <3>2. CASE Accept(k) \/ Spawn(k) \/ Admit(k) \/ Refuse(k)
      BY <3>2, Zenon DEF Accept, Spawn, Admit, Refuse, loops
    <3>3. CASE Incoming(k) \/ Handshake(k)
      <4>1. socket' = socket
        BY <3>3, MoveFrames, Zenon DEF TakeStep
      <4>2. PICK s : others' = [others EXCEPT ![kind[k]] = s] /\ s # "ended"
        BY <3>3 DEF Incoming, Handshake
      <4> QED BY <4>1, <4>2 DEF Places, OtherKinds
    <3> QED BY <2>5, <3>1, <3>2, <3>3, Zenon DEF ConnStep, TakeStep
  <2>6. Kept
    BY <1>6, <2>2, <2>3, <2>4, <2>5, Zenon DEF Serves
  <2> QED BY <1>1, <2>1, <2>6
<1> QED BY <1>2, <1>3, <1>4, <1>5, <1>6, StepKinds, Zenon DEF Ends

\* What a connection in state s contributes to each count.
Permit(k, s) == IF s \in Permitted /\ kind[k] \in TcpKinds THEN 1 ELSE 0
Slot(k, s) == IF s \in Permitted /\ kind[k] = "slot" THEN 1 ELSE 0
Guard(s) == IF s \in Guarded THEN 1 ELSE 0

(* CountMove for the three counts.                                         *)
LEMMA MoveCounts ==
    ASSUME Tasks, NEW k \in Conns, NEW v, conn' = [conn EXCEPT ![k] = v], kind' = kind
    PROVE  /\ HeldPermits' = HeldPermits + Permit(k, v) - Permit(k, conn[k])
           /\ HeldSlots' = HeldSlots + Slot(k, v) - Slot(k, conn[k])
           /\ LiveGuards' = LiveGuards + Guard(v) - Guard(conn[k])
<1>1. PICK c : c = conn
  OBVIOUS
<1>2. PICK P, Q : P = Of(TcpKinds) /\ Q = Of({"slot"})
  OBVIOUS
<1>3. DOMAIN c = Conns /\ (k \in P <=> kind[k] \in TcpKinds) /\ (k \in Q <=> kind[k] = "slot")
  BY <1>1, <1>2 DEF Tasks, Of
<1>4. /\ HeldPermits = Cardinality(Among(c, Permitted, P))
      /\ HeldPermits' = Cardinality(Among([c EXCEPT ![k] = v], Permitted, P))
  BY <1>1, <1>2 DEF Among, In, Of, Permitted, TcpKinds, HeldPermits
<1>5. /\ HeldSlots = Cardinality(Among(c, Permitted, Q))
      /\ HeldSlots' = Cardinality(Among([c EXCEPT ![k] = v], Permitted, Q))
  BY <1>1, <1>2 DEF Among, In, Of, Permitted, HeldSlots
<1>6. /\ LiveGuards = Cardinality(Among(c, Guarded, Conns))
      /\ LiveGuards' = Cardinality(Among([c EXCEPT ![k] = v], Guarded, Conns))
  <2>1. Among(c, Guarded, Conns) = {j \in Conns : c[j] \in Guarded}
    BY DEF Among
  <2>2. Among([c EXCEPT ![k] = v], Guarded, Conns)
            = {j \in Conns : [c EXCEPT ![k] = v][j] \in Guarded}
    BY DEF Among
  <2> QED BY <1>1, <2>1, <2>2, Zenon DEF In, Guarded, LiveGuards
<1>7. HeldPermits' = HeldPermits
          + (IF v \in Permitted /\ k \in P THEN 1 ELSE 0)
          - (IF c[k] \in Permitted /\ k \in P THEN 1 ELSE 0)
  <2>1. Follows(c, k, v, Permitted, P)
    BY <1>3, CountMove, Zenon
  <2> QED BY <1>4, <2>1, Zenon DEF Follows
<1>8. HeldSlots' = HeldSlots
          + (IF v \in Permitted /\ k \in Q THEN 1 ELSE 0)
          - (IF c[k] \in Permitted /\ k \in Q THEN 1 ELSE 0)
  <2>1. Follows(c, k, v, Permitted, Q)
    BY <1>3, CountMove, Zenon
  <2> QED BY <1>5, <2>1, Zenon DEF Follows
<1>9. LiveGuards' = LiveGuards
          + (IF v \in Guarded /\ k \in Conns THEN 1 ELSE 0)
          - (IF c[k] \in Guarded /\ k \in Conns THEN 1 ELSE 0)
  <2>1. Follows(c, k, v, Guarded, Conns)
    BY <1>3, CountMove, Zenon
  <2> QED BY <1>6, <2>1, Zenon DEF Follows
<1> QED BY <1>1, <1>3, <1>7, <1>8, <1>9 DEF Permit, Slot, Guard

(* The counts stay the same when no connection moves.                      *)
LEMMA SameCounts ==
    ASSUME UNCHANGED <<conn, kind>>
    PROVE  HeldPermits' = HeldPermits /\ HeldSlots' = HeldSlots /\ LiveGuards' = LiveGuards
BY DEF In, Of, HeldPermits, HeldSlots, LiveGuards

(* The counts are numbers.                                                 *)
LEMMA CountsAreNumbers ==
    HeldPermits \in Nat /\ HeldSlots \in Nat /\ LiveGuards \in Nat /\ Accepting \in Nat
<1>1. /\ In(Permitted) \cap Of(TcpKinds) \subseteq Conns
      /\ In(Permitted) \cap Of({"slot"}) \subseteq Conns
      /\ In(Guarded) \subseteq Conns
  BY DEF In
<1>2. HeldPermits \in Nat /\ HeldSlots \in Nat /\ LiveGuards \in Nat
  BY <1>1, CountType, Zenon DEF HeldPermits, HeldSlots, LiveGuards
<1> QED BY <1>2 DEF Accepting

(* A connection that moves keeps the counts exact if the counters follow   *)
(* what it contributes.                                                    *)
LEMMA MoveKeepsCounts ==
    ASSUME Numbers, Tasks, Counts, NEW k \in Conns, NEW v,
           conn' = [conn EXCEPT ![k] = v], kind' = kind,
           permits' \in Int,
           permits' + Accepting' + Permit(k, v) = permits + Accepting + Permit(k, conn[k]),
           slots' = slots + Slot(k, v) - Slot(k, conn[k]),
           slots' <= SlotLimit,
           active' = active + Guard(v) - Guard(conn[k])
    PROVE  Counts'
<1>1. /\ HeldPermits' = HeldPermits + Permit(k, v) - Permit(k, conn[k])
      /\ HeldSlots' = HeldSlots + Slot(k, v) - Slot(k, conn[k])
      /\ LiveGuards' = LiveGuards + Guard(v) - Guard(conn[k])
  BY MoveCounts, Zenon
<1>2. HeldPermits \in Nat /\ HeldSlots \in Nat /\ LiveGuards \in Nat /\ Accepting \in Nat
  BY CountsAreNumbers, Zenon
<1>3. \A s : Permit(k, s) \in Nat /\ Slot(k, s) \in Nat /\ Guard(s) \in Nat
  BY DEF Permit, Slot, Guard
<1>4. Accepting' \in Nat
  BY DEF Accepting
<1> QED BY <1>1, <1>2, <1>3, <1>4, LimitAssumption DEF Counts, Numbers

(* Every step keeps the places and the active connections accounted for.   *)
LEMMA CountsStep == Shape /\ Fits /\ Counts /\ [Next]_vars => Counts'
<1> SUFFICES ASSUME Numbers, Tasks, Fits, Counts, [Next]_vars PROVE Counts'
  BY DEF Shape
<1>1. ASSUME UNCHANGED <<loop, permits, slots, conn, active, kind>> PROVE Counts'
  <2>1. Accepting' = Accepting
    BY <1>1, Zenon DEF Accepting
  <2> QED BY <1>1, <2>1, SameCounts, Zenon DEF Counts
<1>2. CASE Steers
  BY <1>1, <1>2, SteersKeeps, Zenon
<1>3. CASE CloseUdp \/ UNCHANGED vars
  BY <1>1, <1>3, Zenon DEF CloseUdp, vars, conns, loops, rest
<1>4. CASE Ends
  <2>1. Gone
    BY <1>4, Zenon DEF Ends, DropRuntime, Crash
  <2>2. In(Permitted)' = {} /\ In(Guarded)' = {}
    BY <2>1 DEF Gone, In, Permitted, Guarded
  <2>3. HeldPermits' = 0 /\ HeldSlots' = 0 /\ LiveGuards' = 0
    <3>1. In(Permitted)' \cap Of(TcpKinds)' = {} /\ In(Permitted)' \cap Of({"slot"})' = {}
      BY <2>2
    <3> QED BY <2>2, <3>1, FS_EmptySet, Zenon DEF HeldPermits, HeldSlots, LiveGuards
  <2>4. loop' = "ended" /\ permits' = Limit /\ slots' = 0 /\ active' = 0
    BY <2>1, Zenon DEF Gone
  <2> QED BY <2>3, <2>4, LimitAssumption DEF Counts, Accepting
<1>5. CASE LoopStep
  <2>1. UNCHANGED <<conn, kind, active, slots>>
    BY <1>5, LoopFrames, ServesFrame, Zenon DEF Serves
  <2>2. permits' \in Int /\ permits' + Accepting' = permits + Accepting
    BY <1>5 DEF LoopStep, AcquirePermit, AcceptFails, Retry, LoopCancelled, Accepting, Numbers
  <2>3. HeldPermits \in Nat /\ Accepting \in Nat /\ Accepting' \in Nat
    BY CountsAreNumbers DEF Accepting
  <2>4. HeldPermits' = HeldPermits /\ HeldSlots' = HeldSlots /\ LiveGuards' = LiveGuards
    BY <2>1, SameCounts, Zenon
  <2>5. permits + HeldPermits + Accepting = Limit
    BY DEF Counts
  <2>6. permits' + HeldPermits' + Accepting' = Limit
    <3>1. PICK q, p, h, a, b \in Int :
              /\ q = permits' /\ p = permits /\ h = HeldPermits
              /\ a = Accepting /\ b = Accepting'
      BY <2>2, <2>3 DEF Numbers
    <3>2. q + b = p + a
      BY <2>2, <3>1, Zenon
    <3>3. q + h + b = p + h + a
      BY <3>2
    <3> QED BY <2>4, <2>5, <3>1, <3>3, Zenon
  <2> QED BY <2>1, <2>4, <2>6, Zenon DEF Counts
<1>6. CASE OtherStep \/ ServiceStep
  BY <1>1, <1>6, LoopFrames, StillFrames, ServesFrame, Zenon DEF Serves, loops
<1>7. ASSUME NEW k \in Conns, StreamStep(k) \/ AssocStep(k) PROVE Counts'
  BY <1>1, <1>7, StillFrames, ServesFrame, Zenon DEF Serves, ConnStep, loops
<1>8. ASSUME NEW l \in OtherKinds, OtherLoopEnds(l) PROVE Counts'
  <2>1. \A k \in Conns : \/ conn'[k] = conn[k]
                         \/ conn[k] = "detached" /\ conn'[k] = "done"
    BY <1>8 DEF OtherLoopEnds, In
  <2>2. In(Permitted)' = In(Permitted) /\ In(Guarded)' = In(Guarded)
    BY <2>1 DEF In, Permitted, Guarded
  <2>3. kind' = kind
    BY <1>8, ServesFrame, Zenon DEF Serves
  <2>4. Of(TcpKinds)' = Of(TcpKinds) /\ Of({"slot"})' = Of({"slot"})
    BY <2>3, Zenon DEF Of
  <2> QED BY <1>8, <2>2, <2>4, Zenon
      DEF OtherLoopEnds, HeldPermits, HeldSlots, LiveGuards, Accepting, Counts
<1>9. ASSUME NEW k \in Conns, TakeStep(k) \/ MoveStep(k) \/ EndStep(k) PROVE Counts'
  <2>1. kind' = kind
    BY <1>9, ServesFrame, Zenon DEF Serves, ConnStep
  <2>2. slots <= SlotLimit /\ slots \in Int /\ permits \in Int /\ active \in Int /\ SlotLimit \in Int
        /\ Accepting \in Int
    BY LimitAssumption, CountsAreNumbers DEF Counts, Numbers
  <2>3. ASSUME NEW v, conn' = [conn EXCEPT ![k] = v], UNCHANGED <<loop, permits, slots, active>>,
               Permit(k, v) = Permit(k, conn[k]), Slot(k, v) = Slot(k, conn[k]),
               Guard(v) = Guard(conn[k])
        PROVE  Counts'
    <3>1. Accepting' = Accepting
      BY <2>3, Zenon DEF Accepting
    <3>2. Slot(k, conn[k]) \in Int /\ Guard(conn[k]) \in Int
      BY DEF Slot, Guard
    <3>3. /\ permits' \in Int /\ slots' <= SlotLimit
          /\ permits' + Accepting' + Permit(k, v) = permits + Accepting + Permit(k, conn[k])
      BY <2>2, <2>3, <3>1, Zenon
    <3>4. /\ slots' = slots + Slot(k, v) - Slot(k, conn[k])
          /\ active' = active + Guard(v) - Guard(conn[k])
      BY <2>2, <2>3, <3>2
    <3> QED BY <2>1, <2>3, <3>3, <3>4, MoveKeepsCounts, Zenon
  <2>4. CASE Accept(k)
    <3>1. /\ conn[k] = "new" /\ conn' = [conn EXCEPT ![k] = "accepted"] /\ kind[k] \in TcpKinds
          /\ loop = "accept" /\ loop' = "spawn" /\ UNCHANGED <<permits, slots, active>>
      BY <2>4, Zenon DEF Accept
    <3>2. /\ Permit(k, "accepted") = 1 /\ Permit(k, conn[k]) = 0 /\ Guard("accepted") = 0
          /\ Guard(conn[k]) = 0 /\ Slot(k, "accepted") = 0 /\ Slot(k, conn[k]) = 0
      BY <3>1 DEF Permit, Slot, Guard, Permitted, Guarded, TcpKinds
    <3>3. Accepting = 1 /\ Accepting' = 0
      BY <3>1 DEF Accepting
    <3>4. /\ permits' \in Int /\ slots' <= SlotLimit
          /\ permits' + Accepting' + Permit(k, "accepted") = permits + Accepting + Permit(k, conn[k])
          /\ slots' = slots + Slot(k, "accepted") - Slot(k, conn[k])
          /\ active' = active + Guard("accepted") - Guard(conn[k])
      BY <2>2, <3>1, <3>2, <3>3
    <3> QED BY <2>1, <3>1, <3>4, MoveKeepsCounts, Zenon
  <2>5. CASE Spawn(k)
    <3>1. /\ conn[k] = "accepted" /\ conn' = [conn EXCEPT ![k] = "spawned"] /\ kind[k] \in TcpKinds
          /\ loop = "spawn" /\ loop' = "permit" /\ UNCHANGED <<permits, slots, active>>
      BY <2>5, Zenon DEF Spawn
    <3>2. /\ Permit(k, "spawned") = 1 /\ Permit(k, conn[k]) = 1 /\ Guard("spawned") = 0
          /\ Guard(conn[k]) = 0 /\ Slot(k, "spawned") = 0 /\ Slot(k, conn[k]) = 0
      BY <3>1 DEF Permit, Slot, Guard, Permitted, Guarded, TcpKinds
    <3>3. Accepting = 0 /\ Accepting' = 0
      BY <3>1 DEF Accepting
    <3>4. /\ permits' \in Int /\ slots' <= SlotLimit
          /\ permits' + Accepting' + Permit(k, "spawned") = permits + Accepting + Permit(k, conn[k])
          /\ slots' = slots + Slot(k, "spawned") - Slot(k, conn[k])
          /\ active' = active + Guard("spawned") - Guard(conn[k])
      BY <2>2, <3>1, <3>2, <3>3
    <3> QED BY <2>1, <3>1, <3>4, MoveKeepsCounts, Zenon
  <2>6. CASE Admit(k)
    <3>1. /\ conn[k] = "new" /\ conn' = [conn EXCEPT ![k] = "spawned"] /\ kind[k] = "slot"
          /\ slots < SlotLimit /\ slots' = slots + 1 /\ UNCHANGED <<loop, permits, active>>
      BY <2>6, Zenon DEF Admit
    <3>2. /\ Permit(k, "spawned") = 0 /\ Permit(k, conn[k]) = 0 /\ Guard("spawned") = 0
          /\ Guard(conn[k]) = 0 /\ Slot(k, "spawned") = 1 /\ Slot(k, conn[k]) = 0
      BY <3>1 DEF Permit, Slot, Guard, Permitted, Guarded, TcpKinds
    <3>3. Accepting' = Accepting
      BY <3>1, Zenon DEF Accepting
    <3>4. /\ permits' \in Int /\ slots' <= SlotLimit
          /\ permits' + Accepting' + Permit(k, "spawned") = permits + Accepting + Permit(k, conn[k])
          /\ slots' = slots + Slot(k, "spawned") - Slot(k, conn[k])
          /\ active' = active + Guard("spawned") - Guard(conn[k])
      BY <2>2, <3>1, <3>2, <3>3
    <3> QED BY <2>1, <3>1, <3>4, MoveKeepsCounts, Zenon
  <2>7. CASE Refuse(k) \/ Incoming(k)
    <3>1. PICK v \in {"done", "accepted"} :
              /\ conn' = [conn EXCEPT ![k] = v] /\ conn[k] = "new"
              /\ v = "accepted" => kind[k] \in {"h3", "quic"}
      BY <2>7 DEF Refuse, Incoming
    <3>2. UNCHANGED <<loop, permits, slots, active>>
      BY <2>7, Zenon DEF Refuse, Incoming, loops
    <3>3. Permit(k, v) = 0 /\ Slot(k, v) = 0 /\ Guard(v) = 0
      BY <3>1 DEF Permit, Slot, Guard, Permitted, Guarded, TcpKinds
    <3>4. Permit(k, conn[k]) = 0 /\ Slot(k, conn[k]) = 0 /\ Guard(conn[k]) = 0
      BY <3>1 DEF Permit, Slot, Guard, Permitted, Guarded
    <3> QED BY <2>3, <3>1, <3>2, <3>3, <3>4, Zenon
  <2>8. CASE Handshake(k) \/ MultiplexEnds(k) \/ MultiplexCancelled(k)
    <3>1. PICK v \in {"multiplexed", "detached", "done"} : conn' = [conn EXCEPT ![k] = v]
      BY <2>8, Zenon DEF Handshake, MultiplexEnds, MultiplexCancelled
    <3>2. \/ conn[k] = "accepted" /\ kind[k] \in {"h3", "quic"}
          \/ conn[k] \in {"multiplexed", "detached"}
      BY <2>8, Zenon DEF Handshake, MultiplexEnds, MultiplexCancelled
    <3>3. UNCHANGED <<loop, permits, slots, active>>
      BY <2>8, Zenon DEF Handshake, MultiplexEnds, MultiplexCancelled, loops
    <3>4. Permit(k, v) = 0 /\ Slot(k, v) = 0 /\ Guard(v) = 0
      BY <3>1 DEF Permit, Slot, Guard, Permitted, Guarded
    <3>5. Permit(k, conn[k]) = 0 /\ Slot(k, conn[k]) = 0 /\ Guard(conn[k]) = 0
      BY <3>2 DEF Permit, Slot, Guard, Permitted, Guarded, TcpKinds
    <3> QED BY <2>3, <3>1, <3>3, <3>4, <3>5, Zenon
  <2>9. CASE Wrap(k)
    <3>1. conn[k] = "wrapping" /\ conn' = [conn EXCEPT ![k] = "serving"]
      BY <2>9, Zenon DEF Wrap
    <3>2. UNCHANGED <<loop, permits, slots, active>>
      BY <2>9, Zenon DEF Wrap, loops
    <3>3. /\ Permit(k, "serving") = Permit(k, conn[k]) /\ Slot(k, "serving") = Slot(k, conn[k])
          /\ Guard("serving") = Guard(conn[k])
      BY <3>1 DEF Permit, Slot, Guard, Permitted, Guarded
    <3> QED BY <2>3, <3>1, <3>2, <3>3, Zenon
  <2>10. CASE Start(k) \/ Close(k)
    <3>1. PICK v \in {"wrapping", "done"} :
              /\ conn' = [conn EXCEPT ![k] = v]
              /\ \/ conn[k] = "spawned" /\ v = "wrapping" /\ active' = active + 1
                 \/ conn[k] = "closing" /\ v = "done" /\ active' = active - 1
      BY <2>10 DEF Start, Close
    <3>2. UNCHANGED <<loop, permits, slots>>
      BY <2>10, Zenon DEF Start, Close, loops
    <3>3. Permit(k, v) = Permit(k, conn[k]) /\ Slot(k, v) = Slot(k, conn[k])
      BY <3>1 DEF Permit, Slot, Permitted
    <3>4. active' = active + Guard(v) - Guard(conn[k])
      BY <2>2, <3>1 DEF Guard, Guarded
    <3>5. Accepting' = Accepting /\ Slot(k, conn[k]) \in Int
      BY <3>2 DEF Accepting, Slot
    <3>6. /\ permits' \in Int /\ slots' <= SlotLimit
          /\ permits' + Accepting' + Permit(k, v) = permits + Accepting + Permit(k, conn[k])
          /\ slots' = slots + Slot(k, v) - Slot(k, conn[k])
      BY <2>2, <3>2, <3>3, <3>5
    <3> QED BY <2>1, <3>1, <3>4, <3>6, MoveKeepsCounts, Zenon
  <2>11. CASE EndStep(k)
    <3>1. /\ conn' = [conn EXCEPT ![k] = "closing"]
          /\ permits' = permits + (IF kind[k] = "slot" THEN 0 ELSE 1)
          /\ slots' = slots - (IF kind[k] = "slot" THEN 1 ELSE 0)
          /\ UNCHANGED loop /\ conn[k] \in {"wrapping", "serving"} /\ UNCHANGED active
      BY <2>11, Zenon DEF EndStep, WrapFails, Finish, Cancelled, EndStream
    <3>2. kind[k] \in TcpKinds \/ kind[k] = "slot"
      BY <3>1 DEF Fits
    <3>3. /\ Permit(k, "closing") = 0 /\ Slot(k, "closing") = 0
          /\ Guard("closing") = 1 /\ Guard(conn[k]) = 1
      BY <3>1 DEF Permit, Slot, Guard, Permitted, Guarded
    <3>4. /\ Permit(k, conn[k]) = IF kind[k] = "slot" THEN 0 ELSE 1
          /\ Slot(k, conn[k]) = IF kind[k] = "slot" THEN 1 ELSE 0
      BY <3>1, <3>2, Zenon DEF Permit, Slot, Permitted, TcpKinds
    <3>5. Accepting' = Accepting
      BY <3>1, Zenon DEF Accepting
    <3>6. /\ permits' \in Int /\ slots' <= SlotLimit
          /\ permits' + Accepting' + Permit(k, "closing") = permits + Accepting + Permit(k, conn[k])
          /\ slots' = slots + Slot(k, "closing") - Slot(k, conn[k])
          /\ active' = active + Guard("closing") - Guard(conn[k])
      BY <2>2, <3>1, <3>3, <3>4, <3>5
    <3> QED BY <2>1, <3>1, <3>6, MoveKeepsCounts, Zenon
  <2> QED
    BY <1>9, <2>4, <2>5, <2>6, <2>7, <2>8, <2>9, <2>10, <2>11, Zenon DEF TakeStep, MoveStep
<1> QED
  BY <1>2, <1>3, <1>4, <1>5, <1>6, <1>7, <1>8, <1>9, StepKinds, Zenon DEF Serves, ConnStep

(* Every step keeps the inductive invariant.                               *)
LEMMA StepPreserves == IInv /\ [Next]_vars => IInv'
BY FlagsStep, PlacesStep, NumbersStep, TasksStep, FitsStep, CountsStep,
   OneHeldStep, GatesStep, OrderStep, CutsStep, SockStep, Zenon
DEF IInv, Shape

(* The invariant holds of every behaviour, whatever the constants.         *)
THEOREM Inductive == Spec => []IInv
BY InitHolds, StepPreserves, PTL DEF Spec

(* The permit and the guard counters stay in their types, and the slots    *)
(* within their limit.                                                     *)
THEOREM TypeCorrect == Spec => []TypeOK
<1>1. IInv => TypeOK
  <2> SUFFICES ASSUME IInv PROVE TypeOK
    OBVIOUS
  <2>1. HeldPermits \in Nat /\ HeldSlots \in Nat /\ LiveGuards \in Nat /\ Accepting \in Nat
    <3>1. /\ In(Permitted) \cap Of(TcpKinds) \subseteq Conns
          /\ In(Permitted) \cap Of({"slot"}) \subseteq Conns
          /\ In(Guarded) \subseteq Conns
      BY DEF In
    <3> QED BY <3>1, CountType DEF HeldPermits, HeldSlots, LiveGuards, Accepting
  <2>2. permits \in Nat /\ permits + HeldPermits + Accepting = Limit
    BY DEF IInv, Shape, Numbers, Counts
  <2>3. active \in Nat /\ slots \in Nat /\ slots <= SlotLimit
    BY <2>1 DEF IInv, Counts
  <2>4. permits \in 0..Limit /\ slots \in 0..SlotLimit
    BY <2>1, <2>2, <2>3, LimitAssumption
  <2> QED BY <2>3, <2>4, Zenon
      DEF IInv, Shape, Fits, Flags, Places, Tasks, TypeOK, ConnStates
<1> QED BY <1>1, Inductive, PTL

(* No path through an accept loop, a connection or the shutdown loses a    *)
(* place or gives one back twice.                                          *)
THEOREM PermitsAlwaysConserved == Spec => []PermitsConserved
<1>1. IInv => PermitsConserved
  BY DEF IInv, Counts, PermitsConserved, HeldPermits, HeldSlots, Accepting
<1> QED BY <1>1, Inductive, PTL

(* The counter that the drain loop reads is exact.                         *)
THEOREM ActiveAlwaysExact == Spec => []ActiveExact
<1>1. IInv => ActiveExact
  BY DEF IInv, Counts, ActiveExact, LiveGuards
<1> QED BY <1>1, Inductive, PTL

(* Readiness is reported only while the listeners accept.                  *)
THEOREM ReadyOnlyWhileAccepting == Spec => []ReadyMeansAccepting
<1>1. IInv => ReadyMeansAccepting
  BY DEF IInv, Gates, ReadyMeansAccepting
<1> QED BY <1>1, Inductive, PTL

(* After a successful wait for the accept loops, no connection reaches the *)
(* tracker, for any number of connections.                                 *)
THEOREM NoHandover == Spec => []NoHandoverWhileDraining
<1>1. IInv => NoHandoverWhileDraining
  BY Zenon DEF IInv, Order, Gates, OneHeld, LoopsEnded, Unreported, NoHandoverWhileDraining,
         Draining, In, OtherKinds
<1> QED BY <1>1, Inductive, PTL

(* The admin server outlives every connection task, unless a wait timed out.*)
THEOREM AdminIsLast == Spec => []AdminLast
<1>1. IInv => AdminLast
  <2> SUFFICES ASSUME IInv, adminCancel, late \cap {"tasks", "conns"} = {}
               PROVE  ConnectionTasks = {}
    BY DEF AdminLast
  <2>1. NoTasks
    BY DEF IInv, Gates, Order, Unreported
  <2> QED BY <2>1 DEF NoTasks, ConnectionTasks, In, Of
<1> QED BY <1>1, Inductive, PTL

(* Connections are cancelled only after the deadline.                      *)
THEOREM GraceIsGiven == Spec => []ForcedOnlyAfterGrace
<1>1. IInv => ForcedOnlyAfterGrace
  BY DEF IInv, Gates, ForcedOnlyAfterGrace
<1> QED BY <1>1, Inductive, PTL

(* A shutdown that reports no problem has ended no connection from our side.*)
THEOREM NeverCutSilently == Spec => []NothingCutSilently
<1>1. IInv => NothingCutSilently
  BY DEF IInv, Cuts, Unreported, NothingCutSilently, Shape, Tasks, Of
<1> QED BY <1>1, Inductive, PTL
-----------------------------------------------------------------------------
\* Until the settings are applied they are what was found; while the guard is
\* held only addresses that apply writes differ from it; when the guard is gone
\* programs find what they found before, if no command failed and that can be
\* brought back; and a life that is over holds no guard, unless the process died.
Settings ==
    /\ host \in Hosts
    /\ settings \in AllSettings(host)
    /\ prior \in AllSettings(host)
    /\ guard \in {"pending", "none", "held", "spent"}
    /\ failed \in BOOLEAN
    /\ guard = "pending" =>
           /\ ~failed
           /\ settings = prior
           /\ stage = "starting" \/ (stage = "dropped" /\ "crash" \in late)
    /\ guard = "held" =>
           /\ ~failed => OthersKept(host, settings, prior)
           /\ stage # "returned" /\ (stage = "dropped" => "crash" \in late)
    /\ guard \in {"none", "spent"} /\ ~failed => BroughtBack(host, settings, prior)

SInv == IInv /\ Settings

SafeSpec == ServiceInit /\ [][ServiceNext]_svars

(* The stages between which a step of the supervisor can move.             *)
LEMMA StageMoves ==
    ASSUME Gates, Next
    PROVE  /\ stage = "starting" =>
                  \/ stage' \in {"starting", "running", "returned"}
                  \/ stage' = "dropped" /\ "crash" \in late'
           /\ stage' = "starting" => stage = "starting"
           /\ stage' = "running" /\ stage # "running" => ready'
           /\ stage' = "dropped" => stage \in {"returned", "dropped"} \/ "crash" \in late'
           /\ stage = "dropped" => stage' = "dropped"
           /\ late \subseteq late'
<1>1. CASE Supervisor
  <2>1. CASE EnterSignalLoop \/ CancelObserved \/ StopListeners \/ CloseUdp
    BY <2>1, Zenon DEF Gates, EnterSignalLoop, CancelObserved, Unready, StopListeners, CloseUdp
  <2>2. CASE WaitUdp \/ WaitTasks \/ DrainRead \/ DrainCheck
    BY <2>2, Zenon DEF Gates, WaitUdp, WaitTasks, DrainRead, DrainCheck, Await
  <2>3. CASE WaitConns \/ StopAdmin \/ WaitAdmin
    BY <2>3, Zenon DEF Gates, WaitConns, StopAdmin, WaitAdmin, Await
  <2>4. CASE DropRuntime
    <3>1. stage = "returned" /\ stage' = "dropped" /\ late' = late
      BY <2>4, Zenon DEF DropRuntime, Gone
    <3> QED BY <3>1
  <2> QED BY <1>1, <2>1, <2>2, <2>3, <2>4, Zenon DEF Supervisor
<1>2. CASE StartFails \/ Signal \/ Cancel \/ Expire \/ Crash \/ AdminEnds
  <2>1. CASE StartFails \/ Signal \/ Cancel \/ Expire \/ AdminEnds
    BY <2>1, Zenon DEF Gates, StartFails, Signal, Unready, Cancel, Expire, AdminEnds, sup
  <2>2. CASE Crash
    <3>1. stage # "dropped" /\ stage' = "dropped" /\ late' = late \cup {"crash"}
      BY <2>2, Zenon DEF Crash, Gone
    <3> QED BY <3>1
  <2> QED BY <1>2, <2>1, <2>2, Zenon
<1>3. CASE UNCHANGED sup
  BY <1>3, Zenon DEF Gates, sup
<1>4. CASE AcceptLoop \/ OtherLoops
  <2>1. UNCHANGED sup
    BY <1>4, Zenon
    DEF AcceptLoop, AcquirePermit, AcceptFails, Retry, LoopCancelled, Accept, Spawn,
        OtherLoops, OtherAcceptFails, OtherRetry, OtherLoopEnds, Admit, Refuse,
        Incoming, Handshake
  <2> QED BY <1>3, <2>1
<1>5. ASSUME NEW k \in Conns, Unwinds(k) \/ Session(k) PROVE UNCHANGED sup
  BY <1>5, Zenon
  DEF Unwinds, Start, Cancelled, Close, StreamCancelled, MultiplexCancelled,
      Session, Wrap, WrapFails, Finish, OpenStream, StreamEnds, MultiplexEnds,
      OpenAssociation, AssociationIdle, RelayEnds
<1>6. ASSUME NEW s \in Services, ServiceEnds(s) \/ ServiceFails(s) PROVE UNCHANGED sup
  BY <1>6, Zenon DEF ServiceEnds, ServiceFails
<1>7. CASE Finished
  BY <1>7, <1>3 DEF Finished, vars
<1> QED BY <1>1, <1>2, <1>3, <1>4, <1>5, <1>6, <1>7, Zenon DEF Next

(* A new life starts as the first one did.                                 *)
LEMMA RestartIsInit == ASSUME kind \in Mixes, Restart PROVE Init'
BY Zenon DEF Restart, Init, Of

(* The settings part of the invariant holds at first and is kept.          *)
LEMMA SettingsInit == ServiceInit => Settings
<1> SUFFICES ASSUME ServiceInit PROVE Settings
  OBVIOUS
<1>1. host \in Hosts
  BY HostAssumption, Zenon DEF ServiceInit
<1>2. settings \in AllSettings(host) /\ prior = settings
  BY <1>1, HostAssumption, Zenon DEF ServiceInit
<1> QED BY <1>1, <1>2, Zenon DEF ServiceInit, Init, Settings

(* What a partly effective apply leaves differs only where apply writes.   *)
LEMMA HalfApplied ==
    ASSUME host \in Hosts, settings \in AllSettings(host), NEW m \in Mixed(Applying)
    PROVE  m \in AllSettings(host) /\ OthersKept(host, m, settings)
<1>1. m \in AllSettings(host)
  BY Zenon DEF Mixed
<1>2. KnownHost(host)
  BY HostAssumption, Zenon DEF KnownHost
<1>3. OthersKept(host, Applied(host, settings), settings)
  BY <1>2, SettingsTyped, Zenon
<1>4. ASSUME NEW k \in Keys(host) \ Written(host)
      PROVE  m.server[k] = settings.server[k]
  <2>1. PICK s \in Applying : m.server[k] = s.server[k]
    BY Zenon DEF Mixed
  <2> QED BY <1>3, <2>1, Zenon DEF Applying, OthersKept
<1> QED BY <1>1, <1>4, Zenon DEF OthersKept

(* A revert of s that took effect brings back what was found.              *)
LEMMA RevertStep ==
    ASSUME host \in Hosts, prior \in AllSettings(host), failed \in BOOLEAN,
           NEW s \in AllSettings(host), ~failed => OthersKept(host, s, prior), Revert(s)
    PROVE  /\ settings' \in AllSettings(host)
           /\ failed' \in BOOLEAN
           /\ ~failed' => BroughtBack(host, settings', prior)
<1>1. KnownHost(host)
  BY HostAssumption, Zenon DEF KnownHost
<1>2. Reverted(host, s, prior) \in AllSettings(host)
  BY <1>1, SettingsTyped, Zenon
<1>3. CASE settings' = Reverted(host, s, prior) /\ UNCHANGED failed
  BY <1>1, <1>2, <1>3, RevertBrings, Zenon
<1>4. CASE /\ settings' \in Mixed({s, Disabled(host, s), Reverted(host, s, prior)})
           /\ failed' = TRUE
  BY <1>4, Zenon DEF Mixed
<1> QED BY <1>3, <1>4, Zenon DEF Revert

(* No command, start, end or restart of a life breaks the settings part.   *)
LEMMA SettingsStep == SInv /\ [ServiceNext]_svars => Settings'
<1> SUFFICES ASSUME SInv, [ServiceNext]_svars PROVE Settings'
  OBVIOUS
<1>a. Settings /\ Gates
  BY Zenon DEF SInv, IInv
<1>b. host \in Hosts /\ KnownHost(host)
  BY <1>a, HostAssumption, Zenon DEF Settings, KnownHost
<1>c. settings \in AllSettings(host) /\ prior \in AllSettings(host) /\ failed \in BOOLEAN
  BY <1>a, Zenon DEF Settings
<1>1. CASE Apply
  <2>1. /\ guard = "pending" /\ stage = "starting" /\ ~failed /\ settings = prior
        /\ UNCHANGED <<host, prior, stage, late>>
    BY <1>1, <1>a, Zenon DEF Apply, Settings, vars, sup
  <2>2. CASE guard' = "none" /\ UNCHANGED <<settings, failed>>
    BY <1>b, <1>c, <2>1, <2>2, Zenon DEF Settings, BroughtBack
  <2>3. CASE guard' = "held" /\ settings' = Applied(host, settings) /\ UNCHANGED failed
    <3>1. settings' \in AllSettings(host) /\ OthersKept(host, settings', settings)
      BY <1>b, <1>c, <2>3, SettingsTyped, Zenon
    <3> QED BY <1>b, <1>c, <2>1, <2>3, <3>1, Zenon DEF Settings
  <2>4. CASE guard' = "held" /\ settings' \in Mixed(Applying) /\ failed' = TRUE
    <3>1. settings' \in AllSettings(host)
      BY <2>4, Zenon DEF Mixed
    <3> QED BY <1>b, <1>c, <2>1, <2>4, <3>1, Zenon DEF Settings
  <2> QED BY <1>1, <2>2, <2>3, <2>4, Zenon DEF Apply
<1>2. CASE Restart
  BY <1>2, <1>b, <1>c, Zenon DEF Restart, Settings
<1>3. CASE Step(Next)
  <2>1. /\ stage = "starting" =>
               \/ stage' \in {"starting", "running", "returned"}
               \/ stage' = "dropped" /\ "crash" \in late'
        /\ stage' = "starting" => stage = "starting"
        /\ stage' = "running" /\ stage # "running" => ready'
        /\ stage' = "dropped" => stage \in {"returned", "dropped"} \/ "crash" \in late'
        /\ stage = "dropped" => stage' = "dropped"
        /\ late \subseteq late'
    BY <1>3, <1>a, StageMoves, Zenon DEF Step
  <2>2. CASE Returning /\ Restore
    <3>1. guard = "held" /\ guard' = "spent" /\ UNCHANGED <<host, prior>> /\ Revert(settings)
      BY <2>2, Zenon DEF Restore
    <3>2. ~failed => OthersKept(host, settings, prior)
      BY <3>1, <1>a, Zenon DEF Settings
    <3>3. /\ settings' \in AllSettings(host)
          /\ failed' \in BOOLEAN
          /\ ~failed' => BroughtBack(host, settings', prior)
      BY <1>b, <1>c, <3>1, <3>2, RevertStep, Zenon
    <3> QED BY <1>b, <1>c, <3>1, <3>3, Zenon DEF Settings
  <2>3. CASE Returning /\ ApplyFails
    <3>1. /\ guard = "pending" /\ guard' = "none" /\ UNCHANGED <<host, prior>>
          /\ ~failed /\ settings = prior
      BY <2>3, <1>a, Zenon DEF ApplyFails, Settings
    <3>2. CASE UNCHANGED <<settings, failed>>
      BY <1>b, <1>c, <3>1, <3>2, Zenon DEF Settings, BroughtBack
    <3>3. CASE \E s \in Mixed(Applying) : Revert(s)
      <4>1. PICK s \in Mixed(Applying) : Revert(s)
        BY <3>3
      <4>2. s \in AllSettings(host) /\ OthersKept(host, s, settings)
        BY <1>b, <1>c, HalfApplied, Zenon
      <4>3. /\ settings' \in AllSettings(host)
            /\ failed' \in BOOLEAN
            /\ ~failed' => BroughtBack(host, settings', prior)
        BY <1>b, <1>c, <3>1, <4>1, <4>2, RevertStep, Zenon
      <4> QED BY <1>b, <1>c, <3>1, <4>3, Zenon DEF Settings
    <3> QED BY <2>3, <3>2, <3>3, Zenon DEF ApplyFails
  <2>4. CASE Returning /\ guard = "none" /\ UNCHANGED proxy
    BY <1>a, <2>1, <2>4, Zenon DEF Returning, proxy, Settings
  <2>5. CASE ~Returning /\ Spawned /\ UNCHANGED proxy
    <3>1. guard = "pending" => stage' = "starting" \/ (stage' = "dropped" /\ "crash" \in late')
      BY <1>a, <2>1, <2>5, Zenon DEF Returning, Spawned, Settings
    <3>2. guard = "held" => stage' # "returned" /\ (stage' = "dropped" => "crash" \in late')
      BY <1>a, <2>1, <2>5, Zenon DEF Returning, Settings
    <3>3. UNCHANGED <<host, settings, prior, guard, failed>>
      BY <2>5, Zenon DEF proxy
    <3> QED BY <1>a, <3>1, <3>2, <3>3, Zenon DEF Settings
  <2> QED BY <1>3, <2>2, <2>3, <2>4, <2>5, Zenon DEF Step
<1>4. CASE UNCHANGED svars
  BY <1>4, <1>a, Zenon DEF svars, vars, sup, proxy, Settings
<1> QED BY <1>1, <1>2, <1>3, <1>4, Zenon DEF ServiceNext

(* Every life of the service satisfies the supervisor's invariant.         *)
THEOREM EveryLife == SafeSpec => []SInv
<1>1. ServiceInit => SInv
  BY InitHolds, SettingsInit DEF ServiceInit, SInv
<1>2. SInv /\ [ServiceNext]_svars => SInv'
  <2> SUFFICES ASSUME SInv, [ServiceNext]_svars PROVE SInv'
    OBVIOUS
  <2>1. CASE [Next]_vars
    BY <2>1, StepPreserves, SettingsStep DEF SInv
  <2>2. CASE Restart
    <3>1. kind \in Mixes
      BY DEF SInv, IInv, Fits
    <3>2. (Init => IInv)'
      BY InitHolds, PTL
    <3> QED BY <2>2, <3>1, <3>2, RestartIsInit, SettingsStep DEF SInv
  <2> QED BY <2>1, <2>2 DEF ServiceNext, Step, Apply, svars
<1> QED BY <1>1, <1>2, PTL DEF SafeSpec

(* However a life ended, if the process was not killed and every command   *)
(* took effect, programs find the proxies they had before it, provided the *)
(* settings found are ones a revert can bring back; and if the accept      *)
(* loops were waited for in time no socket file is left.                   *)
THEOREM NothingLeftBehind == SafeSpec => []LeavesNothingBehind
<1>1. SInv => LeavesNothingBehind
  BY Zenon DEF SInv, IInv, Sock, Unreported, Settings, BroughtBack, LeavesNothingBehind
<1> QED BY <1>1, EveryLife, PTL

(* Over any number of lives and crashes, no connection is cut silently.    *)
THEOREM NeverCutSilentlyInAnyLife == SafeSpec => []NothingCutSilently
<1>1. SInv => NothingCutSilently
  BY DEF SInv, IInv, Cuts, Unreported, NothingCutSilently, Shape, Tasks, Of
<1> QED BY <1>1, EveryLife, PTL
=============================================================================
