------------------------------- MODULE H2Pool -------------------------------
(***************************************************************************)
(* The pool of HTTP/2 connections to one upstream endpoint                 *)
(* (eggress-protocol-http/src/h2_connect.rs): the entries with their       *)
(* atomic stream count and retired flag, the lock-free try_acquire, the    *)
(* semaphore around the creation of connections, the idle reaper, and the  *)
(* registry entry that a reload clears.                                    *)
(*                                                                         *)
(* Every store and read-modify-write of an entry's count or retired flag   *)
(* is a step of its own, and so is every load whose result is used after   *)
(* another task could have changed it.  A caller is one call of            *)
(* h2_connect_client_pooled_in_registry followed by the life of the guard  *)
(* it returns; it may then call again.  Connections and pools are numbered *)
(* and a number is used again once nothing refers to it (the last Arc is   *)
(* gone).  Time is the flag idle[e], "last_used is at least idle_timeout   *)
(* ago".  H2PoolGuard::retire has no caller in the program.                *)
(***************************************************************************)
EXTENDS Integers, Sequences, FiniteSets

CONSTANTS Callers, EntryMax, PoolMax, PoolSize, MaxStreams

ASSUME H2Assumption ==
    /\ EntryMax \in Nat \ {0} /\ PoolMax \in Nat \ {0}
    /\ PoolSize \in Nat \ {0} /\ MaxStreams \in Nat \ {0} /\ IsFiniteSet(Callers)

VARIABLES
    registered, \* the pool the registry holds for the key, 0 if none
    entries,    \* pool -> its vector of connections
    permits,    \* pool -> free permits of its semaphore
    reaper,     \* pool -> [pc, i]: its reaper task and the index it looks at
    active,     \* connection -> active_streams
    retired,    \* connection -> retired
    idle,       \* connection -> last_used is at least idle_timeout ago
    leaked,     \* history: connection -> slots whose owner is gone
    caller      \* caller -> [pc, pool, list, entry, seen]

poolVars == <<registered, entries, permits, reaper, active, retired, idle,
          leaked, caller>>

Entries == 1..EntryMax

Pools == 1..PoolMax

NoCall == [pc |-> "out", pool |-> 0, list |-> <<>>, entry |-> 0, seen |-> 0]

Sleeping == [pc |-> "sleeping", i |-> 0]

Scanning(p) == reaper[p].pc \in {"scan", "mark"}

(* Somebody holds an Arc of the pool.                                      *)
PoolAlive(p) ==
    registered = p \/ Scanning(p) \/ \E t \in Callers : caller[t].pool = p

Vector(p) == {entries[p][i] : i \in DOMAIN entries[p]}

InPool(e) == \E p \in Pools : PoolAlive(p) /\ e \in Vector(p)

(* Somebody holds an Arc of the connection; otherwise its driver is        *)
(* aborted.                                                                *)
Live(e) ==
    \/ InPool(e)
    \/ \E t \in Callers :
          caller[t].entry = e \/ \E i \in DOMAIN caller[t].list : caller[t].list[i] = e

(* The callers whose slot is counted in active_streams.                    *)
Holders(e) ==
    {t \in Callers :
       /\ caller[t].entry = e
       /\ caller[t].pc \in {"recheck", "request", "awaiting", "first", "open"}}

(* The callers that hold a permit of the pool's semaphore.                 *)
Creators(p) ==
    {t \in Callers : caller[t].pool = p /\ caller[t].pc \in {"handshake", "first"}}

Goto(t, pc) == caller' = [caller EXCEPT ![t].pc = pc]

LeavePool(t) == caller' = [caller EXCEPT ![t] = NoCall]

(* The next connection of the snapshot.                                    *)
NextEntry(t) ==
    caller' = [caller EXCEPT ![t].pc = "probe", ![t].entry = 0, ![t].seen = 0,
                             ![t].list = Tail(@)]

PoolInit ==
    /\ registered = 0
    /\ entries = [p \in Pools |-> <<>>]
    /\ permits = [p \in Pools |-> PoolSize]
    /\ reaper = [p \in Pools |-> [pc |-> "none", i |-> 0]]
    /\ active = [e \in Entries |-> 0]
    /\ retired = [e \in Entries |-> FALSE]
    /\ idle = [e \in Entries |-> FALSE]
    /\ leaked = [e \in Entries |-> 0]
    /\ caller = [t \in Callers |-> NoCall]

----------------------------------------------------------------------------
(* The registry.                                                           *)

(* The number of the pool that the registry would create.                  *)
Unused(p) ==
    /\ ~PoolAlive(p) /\ reaper[p].pc = "none"
    /\ \A q \in 1..(p - 1) : PoolAlive(q) \/ reaper[q].pc # "none"

(* get_or_create under the registry's lock, then the copy of the vector    *)
(* under the pool's, which try_acquire_entry starts with.                  *)
GetPool(t) ==
    /\ caller[t].pc = "out"
    /\ \/ /\ registered # 0 /\ ~Scanning(registered)
          /\ caller' = [caller EXCEPT ![t].pc = "probe", ![t].pool = registered,
                                      ![t].list = entries[registered]]
          /\ UNCHANGED <<registered, entries, permits>>
       \/ /\ registered = 0
          /\ \E p \in Pools :
                /\ Unused(p)
                /\ registered' = p
                /\ entries' = [entries EXCEPT ![p] = <<>>]
                /\ permits' = [permits EXCEPT ![p] = PoolSize]
                /\ caller' = [caller EXCEPT ![t].pc = "probe", ![t].pool = p]
    /\ UNCHANGED <<reaper, active, retired, idle, leaked>>

(* A reload drops every pool of the registry; callers keep theirs.         *)
Clear ==
    /\ registered # 0
    /\ registered' = 0
    /\ UNCHANGED <<entries, permits, reaper, active, retired, idle, leaked, caller>>

----------------------------------------------------------------------------
(* try_acquire_entry: the connections of the copy are tried in order,      *)
(* without the lock.                                                       *)

(* What the loop of try_acquire does with a value of active_streams.       *)
WithCount(t, e) ==
    IF active[e] >= MaxStreams
      THEN NextEntry(t)
      ELSE caller' = [caller EXCEPT ![t].pc = "cas", ![t].entry = e, ![t].seen = active[e]]

(* The idle test and the first loads of retired and active_streams.  The   *)
(* clock was read before the copy was made, so a connection that has aged  *)
(* since then passes the test.                                             *)
Probe(t) ==
    /\ caller[t].pc = "probe" /\ caller[t].list # <<>>
    /\ LET e == Head(caller[t].list) IN
       \/ (idle[e] \/ retired[e]) /\ NextEntry(t)
       \/ ~retired[e] /\ WithCount(t, e)
    /\ UNCHANGED <<registered, entries, permits, reaper, active, retired, idle, leaked>>

(* compare_exchange_weak; a failure continues with the value found.        *)
CompareExchange(t) ==
    /\ caller[t].pc = "cas"
    /\ LET e == caller[t].entry IN
       IF active[e] = caller[t].seen
         THEN /\ active' = [active EXCEPT ![e] = @ + 1]
              /\ caller' = [caller EXCEPT ![t].pc = "recheck", ![t].seen = 0]
         ELSE WithCount(t, e) /\ UNCHANGED active
    /\ UNCHANGED <<registered, entries, permits, reaper, retired, idle, leaked>>

Granted(t) ==
    /\ idle' = [idle EXCEPT ![caller[t].entry] = FALSE]
    /\ caller' = [caller EXCEPT ![t].pc = "request", ![t].list = <<>>]
    /\ UNCHANGED active

(* As Recheck, without the second load of retired.                         *)
RecheckNot(t) ==
    /\ caller[t].pc = "recheck"
    /\ Granted(t)
    /\ UNCHANGED <<registered, entries, permits, reaper, retired, leaked>>

(* The second load of retired, after the slot is taken.                    *)
Recheck(t) ==
    /\ caller[t].pc = "recheck"
    /\ IF retired[caller[t].entry]
         THEN /\ active' = [active EXCEPT ![caller[t].entry] = @ - 1]
              /\ NextEntry(t)
              /\ UNCHANGED idle
         ELSE Granted(t)
    /\ UNCHANGED <<registered, entries, permits, reaper, retired, leaked>>

(* No connection of the snapshot could be used.                            *)
Exhausted(t) ==
    /\ caller[t].pc = "probe" /\ caller[t].list = <<>>
    /\ Goto(t, "permit")
    /\ UNCHANGED <<registered, entries, permits, reaper, active, retired, idle, leaked>>

----------------------------------------------------------------------------
(* try_pooled_connection, with a slot of a pooled connection.              *)

SendOk(t) ==
    /\ caller[t].pc = "request"
    /\ Goto(t, "awaiting")
    /\ UNCHANGED <<registered, entries, permits, reaper, active, retired, idle, leaked>>

(* The slot is given back, then the connection is retired: on a failed     *)
(* send the caller goes on to create a connection, on a failed or refused  *)
(* response the call fails.                                                *)
GiveBack(t, next) ==
    /\ active' = [active EXCEPT ![caller[t].entry] = @ - 1]
    /\ Goto(t, next)
    /\ UNCHANGED <<registered, entries, permits, reaper, retired, idle, leaked>>

SendFails(t) == caller[t].pc = "request" /\ GiveBack(t, "retireRetry")

ResponseFails(t) == caller[t].pc = "awaiting" /\ GiveBack(t, "retireFail")

Retire(t) ==
    /\ caller[t].pc \in {"retireRetry", "retireFail"}
    /\ retired' = [retired EXCEPT ![caller[t].entry] = TRUE]
    /\ IF caller[t].pc = "retireFail"
         THEN LeavePool(t)
         ELSE caller' = [caller EXCEPT ![t].pc = "permit", ![t].entry = 0]
    /\ UNCHANGED <<registered, entries, permits, reaper, active, idle, leaked>>

ResponseOk(t) ==
    /\ caller[t].pc = "awaiting"
    /\ Goto(t, "open")
    /\ UNCHANGED <<registered, entries, permits, reaper, active, retired, idle, leaked>>

(* The call ends and its slot stays counted: the request cannot be built,  *)
(* or the future is dropped while the response is awaited.                 *)
PooledLost(t) ==
    /\ caller[t].pc \in {"request", "awaiting"}
    /\ leaked' = [leaked EXCEPT ![caller[t].entry] = @ + 1]
    /\ LeavePool(t)
    /\ UNCHANGED <<registered, entries, permits, reaper, active, retired, idle>>

----------------------------------------------------------------------------
(* A new connection, under a permit that is returned when the call ends.   *)

ReturnPermit(t) == permits' = [permits EXCEPT ![caller[t].pool] = @ + 1]

AcquirePermit(t) ==
    /\ caller[t].pc = "permit" /\ permits[caller[t].pool] > 0
    /\ permits' = [permits EXCEPT ![caller[t].pool] = @ - 1]
    /\ Goto(t, "handshake")
    /\ UNCHANGED <<registered, entries, reaper, active, retired, idle, leaked>>

(* The future is dropped while it waits for a permit.                      *)
PermitAbandoned(t) ==
    /\ caller[t].pc = "permit"
    /\ LeavePool(t)
    /\ UNCHANGED <<registered, entries, permits, reaper, active, retired, idle, leaked>>

MaybeStartReaper(r) == IF r.pc = "none" THEN Sleeping ELSE r

(* As HandshakeFails, forgetting the permit.                               *)
HandshakeFailsKeeping(t) ==
    /\ caller[t].pc = "handshake"
    /\ LeavePool(t)
    /\ UNCHANGED <<registered, entries, permits, reaper, active, retired, idle, leaked>>

(* The handshake fails, or the future is dropped during it.                *)
HandshakeFails(t) ==
    /\ caller[t].pc = "handshake"
    /\ ReturnPermit(t) /\ LeavePool(t)
    /\ UNCHANGED <<registered, entries, reaper, active, retired, idle, leaked>>

(* create_entry: one stream is counted from the start.  The reaper is      *)
(* started with the pool's first connection.                               *)
CreateEntry(t) ==
    /\ caller[t].pc = "handshake" /\ ~Scanning(caller[t].pool)
    /\ \E e \in Entries :
          /\ ~Live(e) /\ \A f \in 1..(e - 1) : Live(f)
          /\ entries' = [entries EXCEPT ![caller[t].pool] = Append(@, e)]
          /\ active' = [active EXCEPT ![e] = 1]
          /\ retired' = [retired EXCEPT ![e] = FALSE]
          /\ idle' = [idle EXCEPT ![e] = FALSE]
          /\ leaked' = [leaked EXCEPT ![e] = 0]
          /\ caller' = [caller EXCEPT ![t].pc = "first", ![t].entry = e]
    /\ reaper' = [reaper EXCEPT ![caller[t].pool] = MaybeStartReaper(@)]
    /\ UNCHANGED <<registered, permits>>

FirstOk(t) ==
    /\ caller[t].pc = "first"
    /\ ReturnPermit(t) /\ Goto(t, "open")
    /\ UNCHANGED <<registered, entries, reaper, active, retired, idle, leaked>>

(* The first request fails, or its future is dropped: the connection stays *)
(* in the pool with its slot counted.  After a refusal it is retired.      *)
FirstFails(t) ==
    /\ caller[t].pc = "first"
    /\ leaked' = [leaked EXCEPT ![caller[t].entry] = @ + 1]
    /\ \/ UNCHANGED retired
       \/ retired' = [retired EXCEPT ![caller[t].entry] = TRUE]
    /\ ReturnPermit(t) /\ LeavePool(t)
    /\ UNCHANGED <<registered, entries, reaper, active, idle>>

----------------------------------------------------------------------------
(* H2ConnectionPool::release, when the guard is dropped: the count first,  *)
(* then the time stamp.                                                    *)

(* As Release, only stamping the time.                                     *)
ReleaseUncounted(t) ==
    /\ caller[t].pc = "open"
    /\ Goto(t, "stamp")
    /\ UNCHANGED <<registered, entries, permits, reaper, active, retired, idle, leaked>>

Release(t) ==
    /\ caller[t].pc = "open"
    /\ active' = [active EXCEPT ![caller[t].entry] = @ - 1]
    /\ Goto(t, "stamp")
    /\ UNCHANGED <<registered, entries, permits, reaper, retired, idle, leaked>>

Stamp(t) ==
    /\ caller[t].pc = "stamp"
    /\ idle' = [idle EXCEPT ![caller[t].entry] = FALSE]
    /\ LeavePool(t)
    /\ UNCHANGED <<registered, entries, permits, reaper, active, retired, leaked>>

----------------------------------------------------------------------------
(* The clock and the reaper.                                               *)

(* Nobody looks at the age of a retired connection.                        *)
Age(e) ==
    /\ ~idle[e] /\ ~retired[e] /\ InPool(e)
    /\ idle' = [idle EXCEPT ![e] = TRUE]
    /\ UNCHANGED <<registered, entries, permits, reaper, active, retired, leaked, caller>>

(* The timer fires and the pool can still be upgraded: the vector is       *)
(* locked until the scan ends.                                             *)
ReaperWakes(p) ==
    /\ reaper[p].pc = "sleeping" /\ PoolAlive(p)
    /\ reaper' = [reaper EXCEPT ![p] = [pc |-> "scan", i |-> 1]]
    /\ UNCHANGED <<registered, entries, permits, active, retired, idle, leaked, caller>>

(* The pool is gone: its token is cancelled or the upgrade fails.          *)
ReaperEnds(p) ==
    /\ reaper[p].pc = "sleeping" /\ ~PoolAlive(p)
    /\ reaper' = [reaper EXCEPT ![p] = [pc |-> "none", i |-> 0]]
    /\ UNCHANGED <<registered, entries, permits, active, retired, idle, leaked, caller>>

Remove(s, i) == SubSeq(s, 1, i - 1) \o SubSeq(s, i + 1, Len(s))

(* retain drops the connection looked at.                                  *)
Drop(p) ==
    /\ entries' = [entries EXCEPT ![p] = Remove(@, reaper[p].i)]
    /\ reaper' = [reaper EXCEPT ![p].pc = "scan"]

Keep(p) ==
    /\ reaper' = [reaper EXCEPT ![p] = [pc |-> "scan", i |-> @.i + 1]]
    /\ UNCHANGED entries

(* The loads of retired, last_used and active_streams.                     *)
ReaperScans(p) ==
    /\ reaper[p].pc = "scan" /\ reaper[p].i <= Len(entries[p])
    /\ LET e == entries[p][reaper[p].i] IN
       IF retired[e] THEN Drop(p)
       ELSE IF idle[e] /\ active[e] = 0
              THEN reaper' = [reaper EXCEPT ![p].pc = "mark"] /\ UNCHANGED entries
       ELSE Keep(p)
    /\ UNCHANGED <<registered, permits, active, retired, idle, leaked, caller>>

ReaperMarks(p) ==
    /\ reaper[p].pc = "mark"
    /\ retired' = [retired EXCEPT ![entries[p][reaper[p].i]] = TRUE]
    /\ Drop(p)
    /\ UNCHANGED <<registered, permits, active, idle, leaked, caller>>

ReaperSleeps(p) ==
    /\ reaper[p].pc = "scan" /\ reaper[p].i > Len(entries[p])
    /\ reaper' = [reaper EXCEPT ![p] = Sleeping]
    /\ UNCHANGED <<registered, entries, permits, active, retired, idle, leaked, caller>>

----------------------------------------------------------------------------
Reaper(p) ==
    \/ ReaperWakes(p) \/ ReaperEnds(p) \/ ReaperScans(p) \/ ReaperMarks(p) \/ ReaperSleeps(p)

Call(t) ==
    \/ GetPool(t) \/ Probe(t) \/ CompareExchange(t) \/ Recheck(t) \/ Exhausted(t)
    \/ SendOk(t) \/ SendFails(t) \/ ResponseOk(t) \/ ResponseFails(t) \/ Retire(t)
    \/ PooledLost(t) \/ AcquirePermit(t) \/ PermitAbandoned(t) \/ HandshakeFails(t)
    \/ CreateEntry(t) \/ FirstOk(t) \/ FirstFails(t) \/ Release(t) \/ Stamp(t)

PoolNext ==
    \/ \E t \in Callers : Call(t)
    \/ \E p \in Pools : Reaper(p)
    \/ \E e \in Entries : Age(e)
    \/ Clear

PoolSpec == PoolInit /\ [][PoolNext]_poolVars

(* Timers fire and time passes.                                            *)
PoolFairSpec ==
    /\ PoolSpec
    /\ \A p \in Pools : WF_poolVars(Reaper(p))
    /\ \A e \in Entries : WF_poolVars(Age(e))

----------------------------------------------------------------------------
(* Every slot and every permit is accounted for, whatever fails or is      *)
(* cancelled: active_streams is the number of callers that hold a slot     *)
(* plus the slots lost by PooledLost and FirstFails, and the permits that  *)
(* are not free are held by callers that create a connection.  No path     *)
(* gives either back twice, and max_concurrent_streams is kept although    *)
(* callers load the count, compare it and add to it in separate steps.     *)
Accounted ==
    /\ \A e \in Entries : active[e] <= MaxStreams
    /\ \A e \in Entries : active[e] = Cardinality(Holders(e)) + leaked[e]
    /\ \A p \in Pools : permits[p] + Cardinality(Creators(p)) = PoolSize

(* The callers that were given a stream on the connection.                 *)
Streams(e) == {t \in Holders(e) : caller[t].pc # "recheck"}

(* A retired connection only drains: a caller that passed the first test   *)
(* of the flag before it was set is not given a stream after it.           *)
RetiredDrains ==
    [][\A e \in Entries : retired[e] /\ retired'[e] => Streams(e)' \subseteq Streams(e)]_poolVars

(* A pooled connection that nobody uses does not stay open: it is used     *)
(* again, or the reaper drops it, or one of its slots was lost.            *)
IdleReaped ==
    \A e \in Entries : []<>(~InPool(e) \/ Holders(e) # {} \/ leaked[e] > 0)
=============================================================================
