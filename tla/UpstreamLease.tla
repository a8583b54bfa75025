--------------------------- MODULE UpstreamLease ---------------------------
(***************************************************************************)
(* Load accounting of an upstream: eggress-routing/src/lease.rs and the    *)
(* two counters of UpstreamRuntime in eggress-routing/src/upstream.rs.     *)
(*                                                                         *)
(* A lease is created Pending when a route is selected (in_flight + 1).    *)
(* Route setup either abandons it (in_flight - 1) or hands it over to an   *)
(* ActiveLease.  The hand-over is two separate relaxed atomic operations,  *)
(* so a lease in the middle of `established` is counted by neither.        *)
(* current_load reads the two counters with two separate relaxed loads.    *)
(***************************************************************************)
EXTENDS Integers, FiniteSets

CONSTANTS
    Upstreams,  \* Arc<UpstreamRuntime> objects
    Leases      \* lease objects, each used once

ASSUME LeasesFinite == IsFiniteSet(Leases)

VARIABLES
    in_flight,  \* UpstreamRuntime.in_flight
    active,     \* UpstreamRuntime.active
    state,      \* where each lease object is in its life
    upstream,   \* the Arc<UpstreamRuntime> each lease holds
    reader,     \* a thread inside current_load
    moved       \* history: leases that moved since the reader's first load

leaseVars == <<in_flight, active, state, upstream>>
readVars == <<reader, moved>>
vars == <<in_flight, active, state, upstream, reader, moved>>

(* "Transferred" is the window inside `established` between fetch_sub and  *)
(* fetch_add; "Active" is a live ActiveLease; "Dropped" follows either     *)
(* Drop.                                                                   *)
LeaseStates == {"Unused", "Pending", "Transferred", "Active", "Dropped"}

Counters == {"in_flight", "active"}

(* The leases on upstream u that are in state st. *)
Held(st, u) == {l \in Leases : state[l] = st /\ upstream[l] = u}

LeaseInit ==
    /\ in_flight = [u \in Upstreams |-> 0]
    /\ active = [u \in Upstreams |-> 0]
    /\ state = [l \in Leases |-> "Unused"]
    /\ upstream \in [Leases -> Upstreams]

-----------------------------------------------------------------------------
(* PendingLease::new *)
NewPending(l, u) ==
    /\ state[l] = "Unused"
    /\ in_flight' = [in_flight EXCEPT ![u] = @ + 1]
    /\ state' = [state EXCEPT ![l] = "Pending"]
    /\ upstream' = [upstream EXCEPT ![l] = u]
    /\ UNCHANGED active

(* Drop of a PendingLease that was never handed over. *)
DropPending(l) ==
    /\ state[l] = "Pending"
    /\ in_flight' = [in_flight EXCEPT ![upstream[l]] = @ - 1]
    /\ state' = [state EXCEPT ![l] = "Dropped"]
    /\ UNCHANGED <<active, upstream>>

(* PendingLease::established, first half: the lease is marked Transferred  *)
(* and leaves in_flight.                                                   *)
EstablishedSub(l) ==
    /\ state[l] = "Pending"
    /\ in_flight' = [in_flight EXCEPT ![upstream[l]] = @ - 1]
    /\ state' = [state EXCEPT ![l] = "Transferred"]
    /\ UNCHANGED <<active, upstream>>

(* PendingLease::established, second half: the lease enters active; the    *)
(* consumed PendingLease is dropped here and, being Transferred, does not  *)
(* decrement in_flight again.                                              *)
EstablishedAdd(l) ==
    /\ state[l] = "Transferred"
    /\ active' = [active EXCEPT ![upstream[l]] = @ + 1]
    /\ state' = [state EXCEPT ![l] = "Active"]
    /\ UNCHANGED <<in_flight, upstream>>

(* Drop of an ActiveLease. *)
DropActive(l) ==
    /\ state[l] = "Active"
    /\ active' = [active EXCEPT ![upstream[l]] = @ - 1]
    /\ state' = [state EXCEPT ![l] = "Dropped"]
    /\ UNCHANGED <<in_flight, upstream>>

LeaseStep(l) ==
    \/ \E u \in Upstreams : NewPending(l, u)
    \/ DropPending(l)
    \/ EstablishedSub(l)
    \/ EstablishedAdd(l)
    \/ DropActive(l)
-----------------------------------------------------------------------------
Value(counter, u) == IF counter = "active" THEN active[u] ELSE in_flight[u]

(* current_load, first of the two relaxed loads.  Nothing orders them, so  *)
(* either counter may be the one that is read first.                       *)
LoadFirst(u, counter) ==
    /\ reader.phase = "Idle"
    /\ reader' = [phase |-> "Half", u |-> u, counter |-> counter,
                  got |-> Value(counter, u)]
    /\ moved' = {}
    /\ UNCHANGED leaseVars

(* current_load, second load: the sum is returned. *)
LoadSecond ==
    /\ reader.phase = "Half"
    /\ reader' = [reader EXCEPT !.phase = "Idle"]
    /\ UNCHANGED <<moved, leaseVars>>

Init ==
    /\ LeaseInit
    /\ reader \in [phase : {"Idle"}, u : Upstreams, counter : Counters, got : {0}]
    /\ moved = {}

Next ==
    \/ \E l \in Leases : LeaseStep(l) /\ moved' = moved \cup {l} /\ UNCHANGED reader
    \/ \E u \in Upstreams, c \in Counters : LoadFirst(u, c)
    \/ LoadSecond

Spec == Init /\ [][Next]_vars
-----------------------------------------------------------------------------
(* Type correctness: the counters are naturals, so no fetch_sub of either  *)
(* Drop ever wraps the u64 below zero.                                     *)
TypeOK ==
    /\ in_flight \in [Upstreams -> Nat]
    /\ active \in [Upstreams -> Nat]
    /\ state \in [Leases -> LeaseStates]
    /\ upstream \in [Leases -> Upstreams]
    /\ reader \in [phase : {"Idle", "Half"}, u : Upstreams, counter : Counters, got : Nat]
    /\ moved \in SUBSET Leases

(* Exact accounting (PendingLease, ActiveLease and their Drops): at every  *)
(* instant, in_flight is the number of pending leases on the upstream and  *)
(* active the number of live active leases on it.                          *)
AccountingExact ==
    \A u \in Upstreams :
        /\ in_flight[u] = Cardinality(Held("Pending", u))
        /\ active[u] = Cardinality(Held("Active", u))

MovedOn(u) == {l \in moved : upstream[l] = u}

(* A torn current_load is off by no more than the number of leases that    *)
(* moved between its two loads: if it finished now, the sum it returns     *)
(* would differ from the true sum by at most that many.                    *)
LoadErrorBounded ==
    reader.phase = "Half" =>
        LET drift == reader.got - Value(reader.counter, reader.u)
            moves == Cardinality(MovedOn(reader.u))
        IN  -moves <= drift /\ drift <= moves
=============================================================================
