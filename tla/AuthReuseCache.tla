--------------------------- MODULE AuthReuseCache ---------------------------
(***************************************************************************)
(* The cache of authenticated peers, AuthReuseCache of                     *)
(* eggress-server/src/accept/mod.rs.  lookup and record each run under the *)
(* cache's lock; between the two, other sessions may run theirs.           *)
(***************************************************************************)
EXTENDS Integers, FiniteSets, Functions

CONSTANTS
    Peers,          \* source addresses
    MaxEntries,     \* max_entries
    Timeout,        \* timeout: how long an authentication may be reused
    SweepInterval,  \* SWEEP_INTERVAL
    Earlier,        \* bound: the sets of peers that may have logged in before
    MaxTime         \* bound: how far the clock runs

ASSUME CacheAssumption ==
    /\ IsFiniteSet(Peers)
    /\ \A ips \in Earlier : ips \subseteq Peers /\ Cardinality(ips) <= MaxEntries
    /\ MaxEntries \in Nat \ {0}
    /\ {Timeout, SweepInterval, MaxTime} \subseteq Nat

VARIABLES
    entries,     \* source address -> who it authenticated as, and when
    last_sweep,  \* last_sweep_nanos
    now          \* the monotonic clock, counted from AUTH_CACHE_EPOCH

cacheVars == <<entries, last_sweep, now>>

(* A cache that some peers have logged in to before the sessions at hand. *)
CacheInit ==
    /\ \E ips \in Earlier :
          entries = [ip \in ips |-> [identity |-> "Username", last_authenticated |-> 0]]
    /\ last_sweep = 0
    /\ now = 0

Tick ==
    /\ now < MaxTime
    /\ now' = now + 1
    /\ UNCHANGED <<entries, last_sweep>>

Expired(entry) == now - entry.last_authenticated > Timeout
-----------------------------------------------------------------------------
(* lookup: an entry that has expired is removed, a live one is returned. *)
Hit(ip) == ip \in DOMAIN entries /\ ~Expired(entries[ip])

Lookup(ip) ==
    /\ entries' = IF Hit(ip) THEN entries
                  ELSE Restrict(entries, DOMAIN entries \ {ip})
    /\ UNCHANGED <<last_sweep, now>>

Full(ips) == Cardinality(ips) >= MaxEntries

(* The first minimum of last_authenticated in some iteration order. *)
Oldest(ips) ==
    {ip \in ips : \A other \in ips :
        entries[ip].last_authenticated <= entries[other].last_authenticated}

(* The victims as they would be if any entry could be taken. *)
AnyVictim(ips, ip) ==
    IF Full(ips) /\ ip \notin ips THEN {{victim} : victim \in ips} ELSE {{}}

(* The entries that make room for ip. *)
Victims(ips, ip) ==
    IF Full(ips) /\ ip \notin ips THEN {{victim} : victim \in Oldest(ips)} ELSE {{}}

(* record: at capacity the expired entries are swept, but no more often    *)
(* than SWEEP_INTERVAL; if that makes no room the oldest entry goes.       *)
Record(ip, identity) ==
    LET sweep == Full(DOMAIN entries) /\ now - last_sweep >= SweepInterval
        kept == IF sweep THEN {p \in DOMAIN entries : ~Expired(entries[p])}
                ELSE DOMAIN entries
        entry == [identity |-> identity, last_authenticated |-> now]
    IN
    /\ last_sweep' = IF sweep THEN now ELSE last_sweep
    /\ \E victims \in Victims(kept, ip) :
          entries' = [p \in (kept \ victims) \cup {ip} |->
                         IF p = ip THEN entry ELSE entries[p]]
    /\ UNCHANGED now
-----------------------------------------------------------------------------
(* The cache never holds more than max_entries peers, and one that has to  *)
(* make room (record at capacity) takes a peer whose authentication could  *)
(* still be reused only when every entry could be: the rate limit of the   *)
(* sweep never costs a live peer its entry while an expired one stays.     *)
EvictsDeadFirst ==
    /\ ~(Cardinality(DOMAIN entries') > MaxEntries)
    /\ \A ip \in DOMAIN entries \ DOMAIN entries' :
          Hit(ip) => \A other \in DOMAIN entries : Hit(other)
=============================================================================
