# eggress: TLA+ verification project

eggress is an asynchronous (tokio) multi-protocol proxy: listeners accept
client connections, a routing engine decides for each request whether to go
direct, through an upstream group or nowhere, a chain executor opens the path,
a relay moves the bytes. Around this sit health probes, hot reload, ordered
shutdown, UDP associations and relays, reverse tunnels, an HTTP forward proxy
and an HTTP/2 connection pool. The modules here model the concurrent state
machines of that system, translated from the Rust source under `src/crates/`.

`PROJECT.json` holds the inventory of components, the runs, the mutants that
show each property can fail, the map from definitions to source lines, the
finding, the hazards and the theorems.

## 1. Inventory

### Parts with state of their own

| part | state | operations | hard behaviour |
|---|---|---|---|
| load accounting (`eggress-routing/lease.rs`, `upstream.rs`) | `in_flight`, `active` per upstream, lease objects | new, established, two Drops, current_load | two-step hand-over, torn reads, unsigned underflow |
| health (`eggress-routing/health.rs`) | `HealthCell` state and two counters, probe tasks, semaphore | observe_success, observe_failure, start_probes_on, stop_all, shutdown_async | hysteresis; aborted probes landing late on a reused cell |
| routing (`router.rs`, `scheduler.rs`, `explain.rs`) | group members, cursors, health, loads | decide, select, the four schedulers, fallback, explain | eligibility is read up to three times per request while probes change it |
| reload (`eggress-runtime/supervisor/state.rs`, `snapshot.rs`, `reload.rs`, `signals.rs`, `eggress-embed`) | snapshot, router, admin snapshot, probes, pools, generation | apply_compiled_config, SIGHUP, embed reload | five publications that are not one atomic step |
| service life cycle (`supervisor.rs`, `supervisor/*`, `eggress-core/listener.rs`, `eggress-server/listener/unix.rs`, QUIC and H3 listeners) | tokens, task trackers, connection count, permits and slots, socket file, readiness, deadline | start, accept on each kind of listener, spawn, finish, drain, force cancel, crash, restart | accepts and spawns racing the drain; one shared deadline; what a dead process leaves |
| system proxy (`eggress-system-proxy/apply.rs`, `inspection.rs`, `backends/*`, `supervisor/services.rs`) | settings of the operating system, rollback state | inspect, apply, restore, drop | several commands, any of which fails; settings that the rollback state cannot express |
| UDP associations (`eggress-udp/registry.rs`, `assoc.rs`, `supervisor/udp_runtime.rs`, `eggress-server/execute`) | registry, tokens, relay tasks, control connections | create, reply, close, idle, panic, close_all | slots that outlive their relay, creation racing close_all |
| UDP relays (`eggress-udp/relay.rs`, `standalone.rs`, `standalone_shadowsocks.rs`, `flow.rs`, `composed.rs`, `upstream_socks5.rs`) | clients, flow tables, receive and control tasks, leases, response channel, totals | datagram, open, reap, respond, deliver, end | tasks with clocks of their own; opening blocks the loop; two reapers and one total |
| HTTP/2 pool (`eggress-protocol-http/h2_connect.rs`) | entries, stream counts, retired flags, registry | acquire, create, release, retire, reap | compare-and-swap against retirement; dropped futures |
| relay engine (`eggress-relay`, `eggress-outbound/hops.rs`) | two buffers, end-of-stream and shutdown flags, deadline, wakers | poll_direction, start_drain | lost wake-ups, half-close, deadline against buffered data |
| sessions (`eggress-server`, `eggress-core/chain.rs`) | authentication cache, session, chain, lease | detect, authenticate, route, open, reply, relay, record | cache at capacity, one deadline over several hops, cancellation at every await |
| HTTP forward proxy (`eggress-protocol-http/forward`, `eggress-server/execute`) | position in the two byte streams, loop, counters | request head, body, informational and final responses, keep-alive | pipelining, early answers, framing that disagrees |
| reverse tunnels (`eggress-protocol-reverse`) | control connections, queue, counters, relays, reconnect loops | admit, authenticate, queue, hand over, relay, reconnect, stop | dead connections in the queue; counter balance; shutdown by dropping futures |

The remaining parts have no concurrent state (configuration and URI parsing,
compatibility front ends, codecs, transports that wrap a library, metrics,
bindings, test support). `PROJECT.json` lists each with the reason it is left
out.

### How the parts interact

A connection is accepted under a permit or a slot (`Shutdown`), tagged with the
generation of the snapshot (`Reload`), logged in and routed (`Session`) by the
router the routing service holds then (`Reload`, `Router`), against the health
that probes publish (`Health`), and holds a lease on the upstream it got
(`UpstreamLease`, part of `Session`). What follows is a relay (`Relay`), the
loop of the forward proxy (`HttpForward`), streams of a pooled connection
(`H2Pool`), or a UDP association: a slot (`UdpAssociations`) and a relay
(`UdpRelay`) whose flows hold leases too. A reload replaces snapshot, router
and probes and keeps the runtimes, with their health cells and counters, of the
upstreams that did not change. Shutdown ends accept loops, associations,
connections and services in order, under one deadline, and gives the system
proxy settings back (`Service`).

## 2. Modules

| module | models | run | proofs |
|---|---|---|---|
| `UpstreamLease` | lease life cycle, torn `current_load` | in `session` | `SessionProofs` |
| `Health` | health cells, probe tasks, manager replacement | `health` | `SupervisionProofs` |
| `RouteSelection` | what selection promises (abstract) | in `router` | |
| `Router` | `Router::decide`, `select`, schedulers, `explain`; implements `RouteSelection` | `router` | `RouterProofs` |
| `Reload` | the reload transaction and connections that meet it | `reload` | `SupervisionProofs` |
| `Shutdown` | all accept loops, connection tasks, `shutdown_ordered` | in `service` | `ShutdownProofs` |
| `SystemProxy` | the proxy settings of GNOME, macOS and Windows, and what applying and reverting write | in `service` | `ShutdownProofs` |
| `Service` | `Shutdown` composed with `SystemProxy`, crashes and restarts | `service` | `ShutdownProofs` |
| `UdpAssociations` | registry, control connections, relay tasks, `close_all` | `udp_assoc` | `PoolProofs` |
| `UdpRelay` | the three relay loops and their flows | `udp_relay`, `udp_relay_receiver` | `PoolProofs` |
| `H2Pool` | the pool of HTTP/2 connections to one endpoint | `h2_pool` | `PoolProofs` |
| `HalfClosePipe` | what a relay promises (abstract) | in `relay` | |
| `Relay` | the relay future, poll by poll; implements `HalfClosePipe` | `relay` | `RelayProofs` |
| `AuthReuseCache` | the cache of authenticated peers | in `session` | `SessionProofs` |
| `Session` | a session from accept to its record, composed with `UpstreamLease` and `AuthReuseCache` | `session` | `SessionProofs` |
| `HttpForward` | the forward proxy's loop between client and origin | `http_forward` | `HttpForwardProofs` |
| `Reverse` | both ends of reverse tunnels, both framings | `reverse` | `ReverseProofs` |

Each run has an `MC` module with the finite values for TLC. Definitions named in
a comment that begins "As X" are altered forms of X: each replaces X once, to
show that the property it is paired with in `PROJECT.json` would notice.

### UpstreamLease

State: the two atomics of `UpstreamRuntime` and the place of every lease
object. `established` is two actions (`EstablishedSub`, `EstablishedAdd`),
since its two relaxed atomics can be observed apart; `current_load` is two
reads in either order. `moved` is a history variable: the leases that moved
between the two reads. `Session` uses these actions as parts of its own.

* `AccountingExact` (proved, and checked within `LeaseFollowsSession`): each
  counter equals the number of leases in that state.
* `LoadErrorBounded` (proved): a torn read is off by at most the leases that
  moved.

### Health

One task for each upstream and manager generation runs the loop of
`start_probes_on`: sleep, wait for a permit, probe, observe, publish. The write
of the snapshot (under the lock) and the store to the atomic are two steps.
`Restart` is `restart_health_probes`: it aborts without joining, so a task that
already holds its result still records it. `streak` is the history of outcomes
the counters are compared with.

* `CountersAreStreak`, `StateMatchesCounters` (proved): the hysteresis counters
  follow the outcomes, whatever stopped tasks still write.
* `PublishedIsCurrent`: outside the lock the atomic equals the snapshot.
* `AtMostOneLateObservation`: each stopped task records at most once more.
* `EligibilityNeedsStreak`: eligibility is lost only after
  `failures_to_unhealthy` failures in a row, and regained only on a success.
* `ProbesLive`: every upstream is probed again and again, with one permit for
  all, until cancellation, after which every task ends.

### Router and RouteSelection

A request walks through `decide`, the candidate filter, the passes of the
scheduler and the lease, with every read of a member's eligibility or load a
step of its own. Scheduler and fallback are chosen in `Init`. A request is the
class of rules it matches. `RouteSelection` says what is promised: the outcome
is justified by what the members were during the request. `everUp`, `everDown`
and `everEnabled` are the history that the refinement mapping uses.

* `ImplementsSelection`: `Selection!Spec`, the refinement.
* `ErrorMeansAllDown`: for the one-pass schedulers, a routing error means that
  every member was ineligible at some moment of the request.
* `RoundRobinBalanced`, `LeastLoadedWhenAlone`: the schedulers' promises;
  the first also says that `explain` shifts nothing.

### Reload

`apply_compiled_config` under `reload_mutex`: classification against the
previous snapshot, compilation with reuse of runtimes, and five publications,
each an action (`Store`, `Swap`, `PublishAdmin`, `RestartProbes`,
`ClearPools`), then `Record`. Connections are tagged, routed and open pooled
streams at any point between. A configuration is a record of what
classification and compilation look at.

* `Consistent`, and proved only `TagLagsByOne`, `RoutingLagsByOne`: what readers
  can see.
* `KeepsWhatIsInUse`: no chain of accepted reloads drifts from what the accept
  loops captured at startup, and unchanged upstreams keep their runtimes.
  Proved only, `SnapshotMatchesConfig`: changed ones do not.
* `ReportsExact`: what callers are told and what is counted agree.
* `OldPoolsAreLate`: an old pool in the registry is a late connection's.

### Shutdown, SystemProxy and Service

`Shutdown` has the TCP accept loop (`AcquirePermit`, `Accept`, `Spawn` and their
failures); the loops of the transparent and Unix listeners, which admit by a
slot and refuse at the limit; the H3 listener, whose connections are on the
tracker and whose streams are not; the raw QUIC listener, whose connections are
detached; a task for each connection with its guard and its permit, H2 stream
tasks, UDP associations as far as shutdown waits for them, services, the admin
server, and the steps of `shutdown_ordered`, each wait of which ends by its
condition or by the one deadline. WebSocket sessions and TLS handshakes are not
cancelled by any token, and services watch only the root token, as in the code.

`SystemProxy` has the settings of one host: addresses, and the switches that say
whether they are used. `Inspect` is what ends up in the rollback state,
`Applied` what the commands of apply write, `Reverted` what those of the revert
write: first everything is switched off, then what was inspected is written and
switched on. None of this is the identity. GNOME's addresses are not read in
mode none and the mode auto is not expressible; an address that
`parse_proxy_address` refuses stops the whole revert; macOS's addresses are read
and switched on again whether they were on or off; on Windows the switch is a
number and only strings are read, so that nothing is found and the revert only
switches off. `Effect` is what other programs take from the settings, and
`Restorable` says which settings come back in that sense; `MCService` has TLC
compare it with the conversions over all settings of every host of the run
(`RestorableExactly`).

`Service` adds what outlives one run: the settings (applied one command after the
other with roll-back on failure, restored by the guard at shutdown, on a failed
start or on drop), the socket file, `Crash` at any point, and `Restart`, which
finds what the last life left. A settings command reports an error only if it
cannot be run; one that has no effect is not noticed (`Mixed`).

* `PermitsConserved`: no path loses a place or gives one back twice.
* `AdminLast`, and proved only `ActiveExact`, `ReadyMeansAccepting`,
  `NoHandoverWhileDraining`, `ForcedOnlyAfterGrace`: what the order guarantees.
* `NothingCutSilently`: a TCP, transparent or Unix connection ended from our
  side means a forced drain, a reported time-out, a failed start or a crash.
* `LeavesNothingBehind`: however a life ends short of a crash, programs have the
  proxies they had before it if every command took effect and the settings it
  found were `Restorable`, and the socket file is gone if the accept loops were
  waited for. Of other settings nothing is promised (section 6).
* `StopEnds`: a requested stop ends, although tasks may never do.

### UdpAssociations

The session that asks for an association, its relay task and shutdown share the
registry, a token and a gauge. `Leave` is the end of the relay up to its first
await, which the inline clean-up and the drop guard have in common. `Drain` and
`CloseOne` are the two halves of `close_all`. `afterDrain` is a history variable:
the associations created once `close_all` has drained the map.

* `AssociationsCounted`: limits and gauge under every interleaving.
* `EveryRelayReachable`: shutdown stops every relay whose association was created
  before `close_all` drained the map. Of one created later it says only that it
  has its slot: nobody closes it, since `close_all` runs once (section 6).
* `ClosedEnds`: liveness, whoever cancels.

### UdpRelay

One of three loops, chosen in `Init` (`config.mode`): that of a SOCKS5
association, with one pinned client and one table; the standalone relay, with a
table of clients, each with a table of flows, a running total and a response
task; and its Shadowsocks variant. Time is the passing of two idle limits, of a
client and of a flow; the standalone relays are taken with either of them the
shorter. Aborting a receive task takes effect at once. With
`client_pin = false` no address is stored and every response is lost, as in the
code. Opening a flow blocks the loop (`BeginOpen`, then `OpenSucceeds` or
`OpenFails`), and a composed flow takes its lease before it is open. A control
task belongs to an open flow: the ones that a composed flow starts for its first
hops while a later hop is still being opened are not represented.

* `FlowsOwnTheirs`: receive tasks, control tasks and leases belong to flows.
* `CountsExact`: limits, running total and gauge.
* `CancelledEnds`: a cancelled relay ends with all its tasks.
* `FlowHasReceiver` (violated, section 6).

### H2Pool

One key of the registry. Callers take a pool, copy its vector, and try its
connections by `try_acquire`, whose first loads, compare-exchange and second
look at the flag are separate steps; or they take a permit and create a
connection. Every await can fail or be dropped. The reaper scans under the
vector's lock, and its loads and its mark are separate steps. Arc references
decide when a pool or a connection is gone, and its number may then be used
again. `leaked` is a history variable: the slots whose owner ended without
giving them back.

* `Accounted`: slots and permits are exact on every path, and the stream limit
  is kept.
* `RetiredDrains`: no stream starts on a connection already retired.
* `IdleReaped`: an unused connection is reaped unless a slot of it was lost.

### Relay and HalfClosePipe

The relay is one future. A poll (`pc`) runs each direction for at most `Budget`
iterations of `poll_direction`, and each iteration is a step, since peers and
timer go on meanwhile. An operation that returns Pending leaves a waker
(`waits`), and only an event it waits for sets `woken`. Reads and writes are
partial, either side may reset, the drain policy arms a deadline when one half
is done. The server's stream is a socket or the `HttpOnlyStream` of a chain
hop, which keeps what it accepted until it is written to again or shut down.
`HalfClosePipe` is two queues that close one after the other and a report; it
is shown to be implemented with the accepted bytes as the delivered ones.

* `NoLostWakeup`: a relay that sleeps has nothing it could do.
* `ImplementsPipe`: `Pipe!PipeSpec`, the refinement: order, no loss or
  repetition, end of stream behind the last byte, truthful report and counters.
* `RelayEnds`: by its drain deadline, or because both peers closed.

### Session and AuthReuseCache

`Session` extends `UpstreamLease` and `AuthReuseCache`: sessions interleave at
every await and share the cache and the counters. A session is a record with
its phase, protocol, chain and path; the protocols differ by a table (`Shape`)
of how they log in, when they reply and what they run. Handshakes are their
verdicts; routing is a choice among the upstreams of the configuration and
direct; the chain is opened hop by hop under one deadline. A hop is the set of
its protocols. One without an application protocol is passed over in the loop
over the hops, and `path` keeps the nodes that the stream really goes through.
The cache has a clock, a sweep at most every `SweepInterval`, and evicts at
capacity. `proof` is the history of what each entry was recorded for; a login
that hits the cache refreshes the entry, and moves `proof` with it.

* `LeaseFollowsSession`: a lease is pending while its chain is opened, active
  while the path is used, and nobody else's; the counters are exact.
* `SuccessMeansConnected`: success is told only over a path through every hop, for
  a chain of which every hop names the node after it (`NamesEveryNode`). For
  others it does not hold (section 6).
* `ReportedOnce`: a counted session is recorded exactly once, unless it was
  cancelled.
* `CacheSound`: an identity that is reused was recorded for the same peer within
  the timeout, and an entry that could still be used is evicted only if all
  could.
* `SetupEnds`: every wait that has a deadline ends.

### HttpForward

The loop of `execute_http_forward` with `copy_request_body` and
`forward_response`, between a client that may pipeline and an origin that reads
first, answers while it reads, reads on only after its answer, or echoes. Heads
are records of the fields that framing and loop look at (lengths, codings,
expectation, close); bodies and chunks are counted in units. The client's
stream towards the proxy and both directions of the upstream stream have a
bounded window. The stream to the client has none: the client is taken to read
what it is sent. `view` is the client's own reading of it.

* `InStep`: client and proxy agree where each response ends and which head is
  next, except after a response whose Transfer-Encoding names `chunked` with
  another coding (section 6).
* `BytesExact`: the report of a completed session counts exactly what was written
  over all its requests; that of a failed one never more. What a failed one
  leaves out is in section 6.
* `ForwardEnds`: the session ends, except in the stall of an origin that writes
  before it reads on (section 6).

### Reverse

Server and clients of both framings with the network between them: admission
and its counters, the handshake, the bounded queue of control connections, the
hand-over to an external client, the relays at both ends with half-close and
idle timeout, the clients' reconnect loops, and shutdown of either side by the
supervisor. A control connection that has died stays in the queue until it is
taken. A relay's `write_all` has no timeout: `blocked` are the directions whose
write waits for a reader (`WriteBlocks`, `WriteGoesOn`), and `Unread` says when
that reader reads no more.

* `CountersExact`: the server's limits bound what they count.
* `ExternalServed`: a waiting external client is given a connection unless all
  clients are busy or stopped; no sequence of failures uses the limit up. A
  client is also busy while its target does not read or, without an idle
  timeout, does not end. Premise: the peers of the control listener are this
  program's clients, which send their handshake at once. The native handshake has
  no timer (`server.rs:484-505`), and a peer that sends nothing keeps its place.
* `ReverseEnds`: a session ends at both of its ends unless a write waits for
  ever, and shutdown leaves no relay, queued connection or waiting client.

## 3. Runs and bounds

| run | instance | what it shows |
|---|---|---|
| `health` | 2 upstreams, 1 permit, thresholds 2 and 2, 2 managers | safety and liveness across a replacement and a shutdown |
| `router` | 2 members, 2 requests, 2 changes, 4 schedulers x 3 fallbacks, 4 request classes | refinement and the schedulers' promises |
| `reload` | 2 callers, 3 reloads of 8 inputs, 2 connections, generation saturating at 2 | publications, reuse, accounting |
| `service` | 5 mixes of 2 connections (H2, UDP, WebSocket, slot, H3, QUIC), 1 permit, 1 slot, 1 service; 8 hosts of 3 platforms | order, accounts, termination, crash and restart, settings |
| `udp_assoc` | 3 requests on 2 listeners, 2 configurations | limits, reachability, termination |
| `udp_relay` | 2 clients, 3 kinds of flow, 3 loops, limits of 2, channel of 1, pin on and off, either idle limit the shorter | ownership of tasks and leases, totals, termination |
| `udp_relay_receiver` | the same | the code does what a document says it does not (section 6) |
| `h2_pool` | 2 callers, 2 connections of 1 stream, 1 permit, 1 pool at a time | accounts, retirement, reaping |
| `relay` | 2 bytes each way, buffer 2, window 1, budget 2, 2 drain policies, 2 kinds of server stream | refinement, wake-ups, termination |
| `session` | 2 sessions of up to 2 requests, 13 protocols, 3 login policies, 3 upstreams of 2 hops, a cache of 2 entries and 3 peers | leases, replies, records, cache, deadlines |
| `http_forward` | up to 2 requests of 8 kinds, 8 kinds of response, 4 kinds of origin, window 2, pipes of 1 | framing, counters, termination |
| `reverse` | 7 configurations of up to 2 clients, 2 external clients, 3 connections, queue of 1 | counters, service, termination |

Why the bounds are enough. Two requests, callers, sessions or connections are
what every interleaving hazard here takes: the actors meet in one shared cell,
counter or map. One permit, slot or queue place makes waiters compete.
Thresholds of two tell a streak from a single outcome, and the counters
saturate at the threshold, so that saturation happens. Two health changes make
a member go down and up again within a request. Three reloads with a generation
that saturates at two reach the saturation. Tables of two with three keys fill.
A buffer of two over a window of one makes every write partial, and a budget of
two runs out within a transfer. A cache of two with three peers evicts. The
hosts have settings that come back and settings that do not. Two
pipelined requests with pipes of one unit make every writer wait. Bounds on
counters that are unbounded in the code are named constants (`MaxChanges`,
`MaxReloads`, `GenMax`, `CounterMax`, `CursorMod`, `MaxStreams`, `MaxGen`,
`MaxBytes`, `MaxTime`, `MaxSent`, `MaxGauge`, `MaxRequests`).

`CHECK_DEADLOCK FALSE` is said where the system may stop: when the bounded
requests, reloads, sessions or external clients are used up, and when a relay
has ended.

## 4. Fairness

* Health: every task that can move is polled (`WF`); the tokio semaphore is
  first-in first-out, so a waiter that finds a permit free again and again gets
  it (`SF` on `Acquire`). Probes end because `probe_tcp` has a time-out.
* Service: the supervisor's own steps, the deadline and the settings commands
  (`WF`). Nothing is assumed of connections, services or the admin server.
* UdpAssociations: spawned tasks start, see their token, and remove their slot;
  a session that is being answered is answered or fails; `close_all`, once
  begun, goes on. No client has to close and no relay has to be idle.
* UdpRelay: `select!` polls its branches in random order, so a cancelled token
  is seen although datagrams keep coming (`SF` on `SeesCancel`); opening a flow
  ends by its time-out, and the response task is polled (`WF`).
* H2Pool: the reaper's timer fires and time passes (`WF`). Nothing is assumed
  of callers.
* Relay: a woken task is polled and the drain timer elapses (`WF`). Peers owe
  nothing; that they go on reading is a premise of the one property that needs
  it.
* Session: a ready task runs and a timer that is due fires (`WF`). Steps that
  wait for a client are not fair, but for the timers over them.
* HttpForward: the loop is polled; a client finishes the request it has begun;
  the origin goes on while it can (`WF`), since no timer runs except between two
  requests. Nobody has to begin another request.
* Reverse: every task of server and clients goes on (`WF`), their handshake
  included. A write towards a relay of this program goes on while that relay
  reads (`WF` on `WriteGoesOn`); external clients and targets need not read, need
  not leave, and faults need not happen.

## 5. Proofs

All theorems are of the form `Spec => []P`, `Spec => [][A]_vars` or
`Spec => Abstract!Spec` and hold for every value of the constants that satisfies
the named assumptions of the modules (finite sets, positive limits and
thresholds, a group whose members are distinct). The modules group components
that share a concern, so `H2Pool` and `Reload` name their specifications
`PoolSpec` and `ReloadSpec`.

* `SupervisionProofs`. About the probes: `TypeCorrect`, `CountersCorrect`,
  `StateCorrect`, `PublicationCorrect`, `Hysteresis`, `LateAtMostOnce`,
  `ProbesAlwaysBounded`.
  Inductive: the properties with `LockOwned` (the task inside a cell's lock is
  exactly the one publishing) and `UnbornManagers`. Two lemmas say that
  `observe_success` and `observe_failure` keep a cell coherent with the streak
  behind it. For the late observations, a task that has made one is stopped and
  holds no result, and cannot get another (`LateInv`).
  About reloads: `ReloadTypeCorrect`, `AlwaysConsistent`, `LagBounded`,
  `TagBounded`, `RuntimesMatch`, `CapturedNeverChanges`, `UnchangedKept`, `InUseIsKept`,
  `ReportsAlwaysExact`, `OldPoolsAlwaysLate`. `Consistent` speaks of moments
  without a reload, so the invariant says what has been published at each point
  of the transaction (`Progress`), that only the lock's holder is in it
  (`OneCaller`), and what the snapshot being built will be (`Successor`).
  `TagBounded` adds what an accepted connection may still find, and that the
  router never goes back. The reports need a ledger of the attempt that is under
  way (`Ledger`: the snapshot is one ahead of the reports between its store and
  the record), the pools the stages at which one of the generation before may
  still be there (`LatePools`).
* `RouterProofs`: `OneMemberIsEnough` (`ErrorMeansAllDown`) and the refinement
  `RouterImplementsSelection`, under every scheduler. Inductive: for a request in
  progress, its window contains what the members are now (`Window`), what a pass
  has found or walks over was usable at some moment of it (`Passing`, `Picking`,
  `Leasing`), and what was passed over was down at some moment of it (`Seen`,
  `Covers`, `Missed`). Windows only grow, so that steps of others keep all of it
  (lemma `Others`).
  About least connections: `LeastLoadedChosen`. The choice is made from loads
  read earlier, so the invariant (`LoadInv`) says of a request that has been
  alone since it began that no other is in progress and that what it has found
  so far is every member it may use, with the load it has now (`Sees`).
  About the shares: `RoundRobinStaysBalanced`. Inductive (`BalanceInv`): while no
  member changes every pass finds the whole group (`Reads`), so a ticket is a
  position in it; the shares of the positions are even for the number of tickets
  drawn so far (`Even`), which is what the cursor says. The theorem assumes
  no more requests than `CursorMod` (2^64 in the code): where the cursor wraps, a group whose
  size does not divide `CursorMod` starts over in the middle of a round.
* `ShutdownProofs`: `TypeCorrect`, `PermitsAlwaysConserved`,
  `ActiveAlwaysExact`, `ReadyOnlyWhileAccepting`, `NoHandover`, `AdminIsLast`,
  `GraceIsGiven`, `NeverCutSilently`. Inductive: the types in parts, the states
  that connections of each kind can be in (`Fits`), the counts as
  cardinalities, and `Order`, which says which tasks can exist at each stage
  when no wait has timed out.
  About `Service`: `EveryLife`, `NothingLeftBehind`,
  `NeverCutSilentlyInAnyLife`. The invariant holds again after every crash and
  restart, and with it what the guard of the settings holds at each point of a
  life. `NothingLeftBehind` rests on what the conversions of each platform do: for
  any host, any settings that are `Restorable` and whatever part of the
  addresses apply has written, `Reverted` gives the same `Effect`, one lemma for
  each platform.
* `SessionProofs`. About the leases: `TypeCorrect`, `AccountingAlwaysExact`,
  `TornLoadBounded`. Inductive: types with integer counters, and exactness. That
  counters are natural follows from exactness: a `fetch_sub` is executed only by
  a lease the counter counts. For the torn read, the invariant relates the first
  load to the leases that have moved since. About sessions:
  `LeasesFollowSessions`, `AlwaysReportedOnce`. `SessionInv` says what each
  phase implies for the record of its session (`Sound`) and where the leases of
  its requests may be (`Owned`); neither property is inductive without it,
  since a lease is taken, handed over and dropped in steps of their own. Every
  step keeps `Sound`, moves only the lease it owns, and leaves it where the next
  phase expects it.
  About paths and the cache: `SuccessAlwaysConnected`, `CacheAlwaysSound`. The first
  is for any chains, and says of those that name every node what the property
  says. It needs how far the path reaches in every phase before success is told
  (`Opening`). The second needs that the cache holds of a peer what was last
  recorded for it, and no more than it may (`Remembers`).
* `PoolProofs`. About the HTTP/2 pool: `PoolAccounted`, `PoolRetiredDrains`. A
  call takes a slot by a load and a compare-exchange, learns only then whether
  the connection was retired, and gives the slot back on one of many paths.
  The invariant says what a call has at each of its program counters
  (`Consistent`): where it has a slot, exactly one, of the connection it names.
  Every step changes one caller and at most one counter, and the counter by as
  much as the set of holders (`SlotStep`, `PermitStep`). The limit follows at
  the compare-exchange only because the value it compares with was below it.
  About the associations: `RelaysReachable`, `LimitsAndGauge`. A
  slot exists already between creation and spawn (`Slots`), only associations
  past their creation are removed (`NotYet`), and `close_all` runs once
  (`Once`), so that an association is created either before the drain or after
  it, and only the former is closed by it.
  About the relays: `NothingOutlivesItsFlow`, `LimitsAndTotals`. The
  flow being opened is not in a table yet (`Serving`), a flow in use keeps its
  client fresh (`InUse`), and the limits leave room for the flow that is being
  opened (`RoomKept`), since the check and the insertion are an await apart.
* `RelayProofs`: `RelayImplementsPipe`, `RelayNoLostWakeup`, for any number of
  bytes, any buffer, window and budget. Bytes are their positions in the stream,
  so that what arrived whole and in order is a run of numbers (`Run`). For each
  direction, what was written, what an `HttpOnlyStream` keeps, what is in the
  buffer and what is on the wire are runs that follow each other up to the last
  byte sent (`Stream`); an end is seen and passed on behind the last byte
  (`EndOf`); `Control` says how far the future has come. The wake-ups need why
  the future sleeps: a direction that `poll_direction` has returned from waits
  for an event that has a waker, or the task is woken already (`Asleep`), and
  the step budget is used up by progress only (`Progress`).
* `HttpForwardProofs`: `ForwardBytesExact`, `ForwardInStep`. `Accounts` says by
  how much the report is behind what was written in each phase, so that it has
  caught up where the loop turns to another request or completes. `Streams` says
  that what the client has sent and the proxy has not read goes on where the
  proxy stopped in its request, and that an upload never reads past the end of
  its body; `Parsed` that the client divides the responses as the proxy does:
  between two of them when the proxy is, and in a body of the same framing with
  the same length left while it copies one. The requests are assumed to have the
  body their head announces (`RequestAssumption`).
* `ReverseProofs`: `ReverseCountersExact`. `ReverseInv` says where the server has
  every connection and that each counter is the number of connections or
  external clients in certain places; that the queue holds every queued
  connection once (`QueueOf`), and that an external client that was given a
  connection has it for itself (`OwnersOf`), without which a connection could be
  counted down twice. Each step moves at most one connection and one external
  client (`MoveCounts`, `ServedCounts`, `QuietStep`).

Every safety property, action property and refinement that a run checks is thus
proved, for every value of the constants the assumptions allow. Only
model-checked are the liveness properties: fairness and `ENABLED` are out of the
prover's reach.


## 6. Where the code and its documents differ

Checked as a run that finds the property violated, with the quotation in
`PROJECT.json`:

* `udp_relay_receiver`: a flow in use loses its receive task (`relay.rs:553`).

Met while modelling, and present in the models without a run of their own:

Routing and health

* A group with the direct fallback answers `NoEligibleUpstream` when its last
  member goes down between filter and scheduler (`router.rs:127`, against
  `architecture/routing.md:140`).
* RoundRobin and Random count eligible members in one pass and pick in another,
  and answer an error when the member counted last goes down between the two
  (`scheduler.rs:305`; `architecture/routing.md:140` gives other causes only).
* `LeastConnectionsScheduler` inherits a `preview` that selects, so `explain`
  moves its cursor (`scheduler.rs:230`, against `explain.rs:111-113`).
* A probe that holds its result records it after `stop_all`
  (`health.rs:356`, against the comment at `health.rs:353-354`);
  `AtMostOneLateObservation` bounds it.

Reload

* A reload that changes only reverse servers is reported as applied and has no
  effect (`reload.rs:313`, against `reload.rs:6-8`).
* A connection accepted between the store of the snapshot and the swap of the
  router is tagged with the new generation and uses the old router
  (`supervisor.rs:1259`, against `state.rs:104-107`); `TagLagsByOne` bounds it.
* `reload_toml_file` does not count an unreadable file
  (`eggress-embed/lib.rs:561`, against `lib.rs:517-519`).

Shutdown and the system proxy

* The drain loop can read zero while H2 streams or tasks without a guard run,
  and then cancels nothing (`shutdown.rs:77`, against `docs/OPERATIONS.md:150`).
* TCP connections hold both a permit and a guard (`supervisor.rs:1273`, against
  `accounting.rs:62-64`).
* Raw QUIC connections are closed with their endpoint and never drained, and H3
  stream tasks are on no tracker (against `docs/OPERATIONS.md:149` and
  `docs/CAPABILITIES.md:33`); `NothingCutSilently` names the exception.
* The settings are applied "before accept loops" (`services.rs:54`), but the
  transparent and Unix loops have been spawned by then.
* A settings command that runs and fails is taken as done: its exit status is
  not read. `restore` takes the rollback state first, so a restore that failed
  is not tried again. After a crash the next life takes the proxy's own address
  for the user's settings.
* "restore prior settings on shutdown" (`docs/system_proxy/README.md:41`) holds
  for some settings only; `LeavesNothingBehind` names them (`Restorable`). A GNOME
  mode auto comes back as manual or none, a manual one with an address that is
  refused as none, and an address that was empty keeps the proxy's (`linux.rs:12`,
  `apply.rs:295-415`). macOS switches on what was kept switched off. On Windows
  `ProxyEnable` is a `REG_DWORD` and only `REG_SZ` is read (`windows.rs:76`), so a
  proxy that was in use stays switched off. Addresses that were stored and not
  in use are overwritten everywhere. The lists of hosts reached directly are
  never written by apply, so leaving them out of a revert loses nothing.
* The socket file of a Unix listener stays after a failed start and after a
  crash.

UDP

* A bind failure after the slot was taken keeps the slot (`udp_runtime.rs:180`,
  against `architecture/udp.md:79`).
* `max_associations` does not bound associations (`startup.rs:147`, against
  `docs/CONFIG_REFERENCE.md:102`).
* A closed task tracker still takes relays (`shutdown.rs:58`, against
  `architecture/udp.md:77` and "prevents new task spawns",
  `docs/ARCHITECTURE.md:506`), and `close_all` runs once: an association that a
  draining connection creates after it is ended only by its client or its idle
  timer. `EveryRelayReachable` names the exception.
* Dropped datagrams touch the association and delivered responses do not
  (`relay.rs:684`, `relay.rs:687`, against `architecture/udp.md:241` and
  `docs/ARCHITECTURE.md:467-469`).
* A SOCKS5 flow in use loses its control connection when the read of it times
  out (`upstream_socks5.rs:212`, against `docs/ARCHITECTURE.md:386`).
* The gauge of standalone flows keeps counting flows of a client dropped by the
  client's idle limit, and all flows after an error of the socket (against
  `docs/METRICS.md:86`); `CountsExact` names both exceptions.
* `standalone_udp_relay` is not started by the supervisor; its Shadowsocks
  variant is (`supervisor.rs:545`).

HTTP/2 pool, relay, sessions

* A call whose response is not awaited to its end, or whose first request
  fails, keeps its slot; the connection is then never reaped as idle
  (`h2_connect.rs:943`, `h2_connect.rs:1008`, against the intent stated at
  `h2_connect.rs:1011-1012`). The permits bound connections being created, not
  connections (`h2_connect.rs:906`, against `h2_connect.rs:551`).
* The relay never flushes, and `HttpOnlyStream` keeps accepted bytes until the
  next write or the end, so that a request may wait in it
  (`eggress-relay/lib.rs:325`, `hops.rs:60`).
* A hop without an application protocol, HTTP/3 or bare QUIC, is passed over in
  the loop over the hops, and a bare QUIC hop in front names no node either
  (`chain.rs:380-386`, against "each hop applies", `docs/architecture/core.md:39-42`).
  The client is told of success over a stream that stops short of the node such a
  hop should have named. Neither the parser nor `validate_chain` refuses such a
  chain; `SuccessMeansConnected` names the exception (`NamesEveryNode`), and the
  third upstream of the run has such a chain.
* A TCP session that `connection_cancel` drops is counted as started and never
  recorded (`supervisor.rs:1363`); `ReportedOnce` names the exception. WebSocket
  sessions do not watch the token.

HTTP forward proxy

* Every request is sent on with `Connection: close` over a stream of its own,
  while the loop waits for another request of the client; the lease and the old
  stream are held during that wait.
* The header of a response with `Transfer-Encoding: x, chunked` is dropped and
  its chunk framing relayed; `InStep` names the exception.
* The body is uploaded to its end before the response is looked at: with an
  origin that writes before it reads on, both wait when both directions are
  full. `ForwardEnds` names the exception (`Stalled`).
* If the route of a request is refused or cannot be opened, the report of the
  session counts no byte, also none of the requests before it
  (`execute/mod.rs:775`, `execute/mod.rs:779`), and the body or response that a
  failure cuts short is not counted, so the totals of `docs/METRICS.md:17-18` miss
  them. `BytesExact` names both.

Reverse tunnels

* An idle connection does not stay open (`docs/protocols/REVERSE_PROXYING.md:598`):
  the client's `read_timeout` ends it, and the server hands the dead connection
  to an external client later.
* A connection that timed out is dialled again at once, not with backoff
  (line 324 of the same document): the relay reports no error.
* The idle timeout covers reads and not `write_all` (`lib.rs:280`, `lib.rs:311`):
  with an outsider that has stopped reading, or two directions that each write to
  a relay whose reading half has ended, a session does not end. `ReverseEnds`
  names the exception.
* `max_pending_external` (`server.rs:45`) drops nobody unless it is zero: one client
  waits at a time. `drain_grace_ms` is not used.
* After shutdown the counters are not given back; `CountersExact` speaks of a
  server that runs.

## 7. Not modelled

* Bytes, ciphers, codecs and parsing; the contents of configurations beyond what
  reload looks at; rule matchers. These are functions without state or
  interleaving, long by the number of formats they know, and they make up most
  of the source together with the command line, the Python packages, the
  compatibility front end, the test kit and scripts. Tests, fuzzing and
  interoperability runs of the repository cover them.
* The outcome of a TCP connect, a DNS lookup or a socket call: nondeterministic
  choices.
* Relaxed memory order beyond the order of the separate atomic operations.
* The sharing of SSH sessions and the QUIC and TLS libraries below the
  transports; the limiter of failed admin logins; the pruning of unused HTTP/2
  pools beyond 64 keys.
* In the forward proxy, headers nominated by `Connection` tokens, and responses
  to HEAD or with status 304 that carry a Content-Length.
* The command lines by which each platform's proxy settings are read and
  written, and the lists of hosts reached directly (a revert on GNOME writes the
  list that was found, which nobody changed). The commands are taken to act as
  worded on what was inspected, although on macOS the first network service is
  inspected and the commands name `*Wi-Fi`.
  An inspection that fails, for which the code takes the
  environment's settings, is not modelled.
* The server of reverse tunnels without an external listener, which the
  supervisor does not start.
