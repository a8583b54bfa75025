------------------------------- MODULE Reload -------------------------------
(***************************************************************************)
(* The reload transaction: RuntimeState::apply_compiled_config of          *)
(* eggress-runtime/src/supervisor/state.rs with the classification of      *)
(* reload.rs and the snapshot compilation of snapshot.rs, as called by the *)
(* embed handle (under reload_mutex) and by the SIGHUP loop (a single      *)
(* caller).  Connections are accepted and routed while it runs.            *)
(*                                                                         *)
(* The transaction publishes the new configuration in several places, one  *)
(* after the other; every publication is a step of its own.                *)
(***************************************************************************)
EXTENDS Integers, Sequences, FiniteSets, Functions

CONSTANTS
    Ids,        \* upstream ids
    Specs,      \* chain and health_config of an upstream
    Groups,     \* upstream group ids
    Captured,   \* values of a part of the configuration captured at startup
    Inputs,     \* what callers ask to reload
    Startup,    \* the configuration the process started with
    Callers,    \* threads that call reload
    Conns,      \* connections
    MaxReloads, \* bound: attempts
    GenMax      \* where the generation saturates (2^64 - 1)

Partial(S, T) == UNION {[D -> T] : D \in SUBSET S}

(* RuntimeConfig, by what classification and compilation look at.          *)
(* transparent stands for the optional transparent section of a listener.  *)
Config == [listeners : Captured, timeouts : Captured, admin : Captured, reverse : Captured,
           transparent : {"none", "off", "on"},
           ups : Partial(Ids, Specs), groups : Partial(Groups, SUBSET Ids),
           rules : SUBSET Groups]

(* A caller passes a configuration, or a text that does not parse or       *)
(* validate.  reload_toml_file with a file that cannot be read returns     *)
(* before it changes anything, and is no action here.                      *)
Input == [kind : {"Config"}, cfg : Config] \cup [kind : {"Unparsable"}]

ASSUME ReloadAssumption ==
    /\ Startup \in Config
    /\ Inputs \subseteq Input
    /\ MaxReloads \in Nat /\ GenMax \in Nat
    /\ "free" \notin Callers

VARIABLES
    snapshot,   \* RuntimeState.snapshot
    routing,    \* the router the routing service holds
    admin,      \* generation of RuntimeState.admin_snapshot
    probed,     \* runtimes the current HealthManager probes
    pools,      \* generations of the connections that registered H2 pools
    metrics,    \* config_generation gauge and reload counters
    lock,       \* holder of reload_mutex, or "free"
    call,       \* position of each caller in the transaction
    attempts,   \* attempts made, for the bound and as serial of new runtimes
    applied,    \* history: generations reported as Applied, in order
    conn        \* connections

publishedVars == <<snapshot, routing, admin, probed, pools, metrics>>
reloadVars == <<snapshot, routing, admin, probed, pools, metrics, lock, call, attempts, applied, conn>>

Idle == [pc |-> "Idle"]
None == [state |-> "None"]
-----------------------------------------------------------------------------
(* As TransparentUnchanged, with any section allowed to appear. *)
TransparentAdded(old, new) == old = new \/ old # "on"

(* classify_listeners on the transparent section: only a disabled section  *)
(* may come or go.                                                         *)
TransparentUnchanged(old, new) == old = new \/ {old, new} = {"none", "off"}

(* classify_reload_config: the parts of the configuration that are         *)
(* captured at startup must not change.  reverse is not looked at.         *)
Classified(old, new) ==
    /\ old.listeners = new.listeners
    /\ TransparentUnchanged(old.transparent, new.transparent)
    /\ old.timeouts = new.timeouts
    /\ old.admin = new.admin

(* The errors of compile_runtime_snapshot. *)
Compiles(cfg) ==
    /\ \A g \in DOMAIN cfg.groups : cfg.groups[g] # {} /\ cfg.groups[g] \subseteq DOMAIN cfg.ups
    /\ cfg.rules \subseteq DOMAIN cfg.groups

(* The runtime of each upstream: the previous one if chain and health      *)
(* configuration are unchanged, else a new one.                            *)
Runtimes(old, cfg, serial) ==
    [id \in DOMAIN cfg.ups |->
       IF id \in DOMAIN old /\ old[id].spec = cfg.ups[id] THEN old[id]
       ELSE [id |-> id, spec |-> cfg.ups[id], serial |-> serial]]

NextGen(g) == IF g < GenMax THEN g + 1 ELSE g

Snapshot(gen, cfg, runtimes) == [gen |-> gen, config |-> cfg, runtimes |-> runtimes]

(* compile_runtime_snapshot *)
Compile(prev, cfg, serial) ==
    Snapshot(NextGen(prev.gen), cfg, Runtimes(prev.runtimes, cfg, serial))

(* The router a snapshot carries. *)
RouterOf(s) == [gen |-> s.gen, runtimes |-> s.runtimes]

ReloadInit ==
    /\ snapshot = Snapshot(0, Startup,
                    [id \in DOMAIN Startup.ups |-> [id |-> id, spec |-> Startup.ups[id], serial |-> 0]])
    /\ routing = RouterOf(snapshot)
    /\ admin = 0
    /\ probed = Range(snapshot.runtimes)
    /\ pools = {}
    /\ metrics = [gen |-> 0, ok |-> 0, failed |-> 0]
    /\ lock = "free"
    /\ call = [c \in Callers |-> Idle]
    /\ attempts = 0
    /\ applied = <<>>
    /\ conn = [k \in Conns |-> None]
-----------------------------------------------------------------------------
(* As Begin, without waiting for reload_mutex. *)
BeginUnlocked(c, input) ==
    /\ call[c] = Idle
    /\ attempts < MaxReloads
    /\ attempts' = attempts + 1
    /\ lock' = c
    /\ call' = [call EXCEPT ![c] = [pc |-> "Apply", input |-> input, serial |-> attempts']]
    /\ UNCHANGED <<publishedVars, applied, conn>>

(* reload_toml_str, reload_compiled: lock reload_mutex. *)
Begin(c, input) ==
    /\ lock = "free"
    /\ call[c] = Idle
    /\ attempts < MaxReloads
    /\ attempts' = attempts + 1
    /\ lock' = c
    /\ call' = [call EXCEPT ![c] = [pc |-> "Apply", input |-> input, serial |-> attempts']]
    /\ UNCHANGED <<publishedVars, applied, conn>>

Return(c) ==
    /\ call' = [call EXCEPT ![c] = Idle]
    /\ lock' = "free"

(* As Fail, without counting texts that do not parse. *)
FailSilently(c) ==
    /\ call[c].pc = "Apply"
    /\ \/ call[c].input.kind = "Unparsable"
       \/ ~Classified(snapshot.config, call[c].input.cfg) \/ ~Compiles(call[c].input.cfg)
    /\ metrics' = IF call[c].input.kind = "Unparsable"
                  THEN metrics ELSE [metrics EXCEPT !.failed = @ + 1]
    /\ Return(c)
    /\ UNCHANGED <<snapshot, routing, admin, probed, pools, attempts, applied, conn>>

(* The attempt ends without a new configuration: the text does not parse,  *)
(* the change needs a restart, or the snapshot cannot be built.            *)
Fail(c) ==
    /\ call[c].pc = "Apply"
    /\ \/ call[c].input.kind = "Unparsable"
       \/ /\ call[c].input.kind = "Config"
          /\ ~Classified(snapshot.config, call[c].input.cfg)
       \/ /\ call[c].input.kind = "Config"
          /\ Classified(snapshot.config, call[c].input.cfg)
          /\ ~Compiles(call[c].input.cfg)
    /\ metrics' = [metrics EXCEPT !.failed = @ + 1]
    /\ Return(c)
    /\ UNCHANGED <<snapshot, routing, admin, probed, pools, attempts, applied, conn>>

(* The previous snapshot is loaded, the new one classified and compiled.   *)
Build(c) ==
    /\ call[c].pc = "Apply"
    /\ call[c].input.kind = "Config"
    /\ Classified(snapshot.config, call[c].input.cfg)
    /\ Compiles(call[c].input.cfg)
    /\ call' = [call EXCEPT ![c] =
                  [pc |-> "Store", new |-> Compile(snapshot, call[c].input.cfg, call[c].serial)]]
    /\ UNCHANGED <<publishedVars, lock, attempts, applied, conn>>

Goto(c, pc) == call' = [call EXCEPT ![c] = [pc |-> pc, new |-> call[c].new]]

Store(c) ==
    /\ call[c].pc = "Store"
    /\ snapshot' = call[c].new
    /\ Goto(c, "Swap")
    /\ UNCHANGED <<routing, admin, probed, pools, metrics, lock, attempts, applied, conn>>

Swap(c) ==
    /\ call[c].pc = "Swap"
    /\ routing' = RouterOf(call[c].new)
    /\ Goto(c, "Admin")
    /\ UNCHANGED <<snapshot, admin, probed, pools, metrics, lock, attempts, applied, conn>>

PublishAdmin(c) ==
    /\ call[c].pc = "Admin"
    /\ admin' = call[c].new.gen
    /\ Goto(c, "Probes")
    /\ UNCHANGED <<snapshot, routing, probed, pools, metrics, lock, attempts, applied, conn>>

(* restart_health_probes: stop the old manager, probe the runtimes of the  *)
(* snapshot that is current now.                                           *)
RestartProbes(c) ==
    /\ call[c].pc = "Probes"
    /\ probed' = Range(snapshot.runtimes)
    /\ Goto(c, "Pools")
    /\ UNCHANGED <<snapshot, routing, admin, pools, metrics, lock, attempts, applied, conn>>

(* As ClearPools, leaving the pools registered. *)
KeepPools(c) ==
    /\ call[c].pc = "Pools"
    /\ Goto(c, "Record")
    /\ UNCHANGED <<publishedVars, lock, attempts, applied, conn>>

(* H2_POOL_REGISTRY.clear() and clear_h2_pool_registries() *)
ClearPools(c) ==
    /\ call[c].pc = "Pools"
    /\ pools' = {}
    /\ Goto(c, "Record")
    /\ UNCHANGED <<snapshot, routing, admin, probed, metrics, lock, attempts, applied, conn>>

(* set_config_generation, record_reload(true), Applied, unlock. *)
Record(c) ==
    /\ call[c].pc = "Record"
    /\ metrics' = [metrics EXCEPT !.gen = call[c].new.gen, !.ok = @ + 1]
    /\ applied' = Append(applied, call[c].new.gen)
    /\ Return(c)
    /\ UNCHANGED <<snapshot, routing, admin, probed, pools, attempts, conn>>

Transaction(c) ==
    \/ \E i \in Inputs : Begin(c, i)
    \/ Fail(c) \/ Build(c) \/ Store(c) \/ Swap(c) \/ PublishAdmin(c)
    \/ RestartProbes(c) \/ ClearPools(c) \/ Record(c)
-----------------------------------------------------------------------------
(* The accept loop tags the connection with the generation of the snapshot. *)
Accept(k) ==
    /\ conn[k] = None
    /\ conn' = [conn EXCEPT ![k] = [state |-> "Accepted", gen |-> snapshot.gen]]
    /\ UNCHANGED <<publishedVars, lock, call, attempts, applied>>

(* SharedRoutingService::route loads the router once the request has been  *)
(* read.                                                                   *)
RouteConn(k) ==
    /\ conn[k].state = "Accepted"
    /\ conn' = [conn EXCEPT ![k] = [state |-> "Routed", gen |-> conn[k].gen,
                                    router |-> routing.gen]]
    /\ UNCHANGED <<publishedVars, lock, call, attempts, applied>>

(* The connection opens a stream through a pooled H2 connection, and       *)
(* registers a pool if there is none; late tells that its router had been  *)
(* replaced by then.                                                       *)
OpenPooled(k) ==
    /\ conn[k].state = "Routed"
    /\ pools' = pools \cup {conn[k].router}
    /\ conn' = [conn EXCEPT ![k] = [state |-> "Open", gen |-> conn[k].gen, router |-> conn[k].router,
                                    late |-> conn[k].router # snapshot.gen]]
    /\ UNCHANGED <<snapshot, routing, admin, probed, metrics, lock, call, attempts, applied>>

ReloadNext ==
    \/ \E c \in Callers : Transaction(c)
    \/ \E k \in Conns : Accept(k) \/ RouteConn(k) \/ OpenPooled(k)

ReloadSpec == ReloadInit /\ [][ReloadNext]_reloadVars
-----------------------------------------------------------------------------
Runtime == [id : Ids, spec : Specs, serial : 0..MaxReloads]
Router == [gen : 0..GenMax, runtimes : Partial(Ids, Runtime)]
Snapshots == [gen : 0..GenMax, config : Config, runtimes : Partial(Ids, Runtime)]

Calls ==
    {Idle}
    \cup [pc : {"Apply"}, input : Input, serial : 1..MaxReloads]
    \cup [pc : {"Store", "Swap", "Admin", "Probes", "Pools", "Record"}, new : Snapshots]

Connection ==
    {None}
    \cup [state : {"Accepted"}, gen : 0..GenMax]
    \cup [state : {"Routed"}, gen : 0..GenMax, router : 0..GenMax]
    \cup [state : {"Open"}, gen : 0..GenMax, router : 0..GenMax, late : BOOLEAN]

(* Type correctness. *)
ReloadTypeOK ==
    /\ snapshot \in Snapshots
    /\ routing \in Router
    /\ admin \in 0..GenMax
    /\ probed \subseteq Runtime
    /\ pools \subseteq 0..GenMax
    /\ metrics \in [gen : 0..GenMax, ok : Nat, failed : Nat]
    /\ lock \in Callers \cup {"free"}
    /\ call \in [Callers -> Calls]
    /\ attempts \in 0..MaxReloads
    /\ applied \in Seq(0..GenMax)
    /\ conn \in [Conns -> Connection]

(* When no reload is in progress, the snapshot, the routing service, the   *)
(* admin view, the generation gauge and the probed upstreams all belong to *)
(* one configuration: no interleaving of reloads leaves a part behind.     *)
Consistent ==
    lock = "free" =>
        /\ routing = RouterOf(snapshot)
        /\ admin = snapshot.gen
        /\ metrics.gen = snapshot.gen
        /\ probed = Range(snapshot.runtimes)

(* While a reload is in progress routing may lag behind the snapshot, by   *)
(* one generation at most, and never runs ahead of it.                     *)
RoutingLagsByOne == routing.gen \in {snapshot.gen - 1, snapshot.gen}

(* Every upstream of the published snapshot and of the router runs with    *)
(* the chain and health settings its configuration gives it, although      *)
(* runtimes are carried over from earlier snapshots.                       *)
SnapshotMatchesConfig ==
    /\ DOMAIN snapshot.runtimes = DOMAIN snapshot.config.ups
    /\ \A id \in DOMAIN snapshot.runtimes :
         /\ snapshot.runtimes[id].id = id
         /\ snapshot.runtimes[id].spec = snapshot.config.ups[id]

(* What callers are told and what is counted agree: reloads reported as    *)
(* Applied carry consecutive generations, no two callers the same one, and *)
(* every attempt that locked reload_mutex is counted once, as a success or *)
(* as a failure (record_reload).                                           *)
ReportsExact ==
    /\ \A n \in 1..Len(applied) : applied[n] = (IF n < GenMax THEN n ELSE GenMax)
    /\ lock = "free" =>
         /\ snapshot.gen = (IF Len(applied) < GenMax THEN Len(applied) ELSE GenMax)
         /\ metrics.ok = Len(applied)
         /\ metrics.ok + metrics.failed = attempts

Effective(cfg) == [listeners |-> cfg.listeners, transparent |-> cfg.transparent = "on",
                   timeouts |-> cfg.timeouts, admin |-> cfg.admin]

(* The accept loops keep using what they captured at startup; after any    *)
(* sequence of reloads the published snapshot still says the same.         *)
CapturedUnchanged == Effective(snapshot.config) = Effective(Startup)

(* A connection tagged with a generation is routed by the router of that   *)
(* generation, of a later one, or of the one just before it: the window    *)
(* between the store of the snapshot and the swap of the router is one     *)
(* reload wide.                                                            *)
TagLagsByOne ==
    \A k \in Conns : conn[k].state \in {"Routed", "Open"} => conn[k].router >= conn[k].gen - 1

(* Once a reload is over, a pool of an older configuration is registered   *)
(* only because a connection routed before the reload opened its stream    *)
(* after it.                                                               *)
OldPoolsAreLate ==
    lock = "free" =>
        \A g \in pools \ {snapshot.gen} :
            \E k \in Conns : conn[k].state = "Open" /\ conn[k].router = g /\ conn[k].late

(* An upstream whose chain and health settings do not change keeps its     *)
(* runtime, and with it its health state and its open connections.         *)
RuntimesKept ==
    \A id \in DOMAIN snapshot.config.ups \cap DOMAIN snapshot'.config.ups :
        snapshot.config.ups[id] = snapshot'.config.ups[id] =>
            snapshot'.runtimes[id] = snapshot.runtimes[id]

(* However reloads follow each other, each compared with its predecessor   *)
(* only, none takes away what is in use: the accept loops' settings and    *)
(* the runtimes of unchanged upstreams stay.                               *)
KeepsWhatIsInUse == [][CapturedUnchanged' /\ RuntimesKept]_reloadVars
=============================================================================
