--------------------------- MODULE SessionProofs ----------------------------
(***************************************************************************)
(* Proofs about Session and the leases it holds (UpstreamLease), for any   *)
(* number of sessions, requests and upstreams and any chains.              *)
(*                                                                         *)
(* Leases.  AccountingExact is what makes the counters natural: a          *)
(* fetch_sub is only executed by a lease the counter counts, so the        *)
(* counter it decrements is at least one.  LeaseInv is that and the types  *)
(* with integer counters.                                                  *)
(*                                                                         *)
(* Sessions.  SessionInv says what each phase of a session implies for its *)
(* own record (Sound) and for the lease of its current request (Owned).    *)
(* Every step is shown to keep Sound (StepSound), to move only the lease   *)
(* it owns (StepMoves) and to leave that lease where the next phase        *)
(* expects it (StepCarries).                                               *)
(*                                                                         *)
(* What a session gives its client.  SuccessMeansConnected needs to know   *)
(* how far a session has opened its chain in every phase before it reports *)
(* success (Opening).  CacheSound needs to know that the cache holds of a  *)
(* peer what the peer last proved, and that it is never over its limit     *)
(* (Remembers).  Both are kept by every step because the session's own     *)
(* record is sound (SessionInv).                                           *)
(***************************************************************************)
EXTENDS Session, FiniteSetTheorems, TLAPS
-----------------------------------------------------------------------------
LeaseShape ==
    /\ in_flight \in [Upstreams -> Int]
    /\ active \in [Upstreams -> Int]
    /\ state \in [Leases -> LeaseStates]
    /\ upstream \in [Leases -> Upstreams]

ReaderShape ==
    /\ reader \in [phase : {"Idle", "Half"}, u : Upstreams, counter : Counters, got : Nat]
    /\ moved \in SUBSET Leases

LeaseInv == LeaseShape /\ ReaderShape /\ AccountingExact

(* The leases in one state on one upstream are finitely many. *)
LEMMA HeldFinite ==
    ASSUME NEW st, NEW u
    PROVE  IsFiniteSet(Held(st, u)) /\ Cardinality(Held(st, u)) \in Nat
<1>1. Held(st, u) \subseteq Leases
  BY DEF Held
<1>2. IsFiniteSet(Held(st, u))
  BY <1>1, LeasesFinite, FS_Subset
<1> QED
  BY <1>2, FS_CardinalityType, Zenon

(* A lease that enters state st on upstream u raises the number of leases  *)
(* there by one, and changes no other upstream's number.                   *)
LEMMA Enter ==
    ASSUME NEW l \in Leases, NEW st \in LeaseStates, NEW u \in Upstreams, LeaseShape,
           state[l] # st,
           state' = [state EXCEPT ![l] = st],
           upstream' = [upstream EXCEPT ![l] = u]
    PROVE  \A v \in Upstreams :
             Cardinality(Held(st, v)') =
               Cardinality(Held(st, v)) + (IF v = u THEN 1 ELSE 0)
<1> TAKE v \in Upstreams
<1>1. IsFiniteSet(Held(st, v)) /\ Cardinality(Held(st, v)) \in Nat
  BY HeldFinite
<1>2. CASE v = u
  <2>1. Held(st, v)' = Held(st, v) \cup {l}
    BY <1>2 DEF Held, LeaseShape
  <2>2. l \notin Held(st, v)
    BY DEF Held
  <2> QED
    BY <1>1, <1>2, <2>1, <2>2, FS_AddElement, Zenon
<1>3. CASE v # u
  <2>1. Held(st, v)' = Held(st, v)
    BY <1>3 DEF Held, LeaseShape
  <2> QED
    BY <1>1, <1>3, <2>1
<1> QED
  BY <1>2, <1>3

(* A lease that leaves a state lowers the number of leases in that state   *)
(* on its own upstream by one, and changes no other upstream's number.     *)
LEMMA Leave ==
    ASSUME NEW l \in Leases, NEW old, NEW new, LeaseShape,
           state[l] = old, old # new,
           state' = [state EXCEPT ![l] = new],
           upstream' = upstream
    PROVE  \A v \in Upstreams :
             Cardinality(Held(old, v)') =
               Cardinality(Held(old, v)) - (IF v = upstream[l] THEN 1 ELSE 0)
<1> TAKE v \in Upstreams
<1>1. IsFiniteSet(Held(old, v)) /\ Cardinality(Held(old, v)) \in Nat
  BY HeldFinite
<1>2. CASE v = upstream[l]
  <2>1. Held(old, v)' = Held(old, v) \ {l}
    BY DEF Held, LeaseShape
  <2>2. l \in Held(old, v)
    BY <1>2 DEF Held
  <2>3. Cardinality(Held(old, v) \ {l}) = Cardinality(Held(old, v)) - 1
    BY <1>1, <2>2, FS_RemoveElement, Zenon
  <2> QED
    BY <1>1, <1>2, <2>1, <2>3
<1>3. CASE v # upstream[l]
  <2>1. Held(old, v)' = Held(old, v)
    BY <1>3 DEF Held, LeaseShape
  <2> QED
    BY <1>1, <1>3, <2>1
<1> QED
  BY <1>2, <1>3

(* A lease that moves between two states other than st, on an upstream it  *)
(* keeps, leaves the leases in st as they were.                            *)
LEMMA Elsewhere ==
    ASSUME NEW l \in Leases, NEW st, NEW new, LeaseShape,
           state[l] # st, new # st,
           state' = [state EXCEPT ![l] = new],
           \A k \in Leases \ {l} : upstream'[k] = upstream[k]
    PROVE  \A v \in Upstreams : Held(st, v)' = Held(st, v)
  BY DEF Held, LeaseShape

(* LeaseInv holds initially: no lease is held and both counters are zero. *)
LEMMA InitLeaseInv == Init => LeaseInv
<1> SUFFICES ASSUME Init PROVE LeaseInv
  OBVIOUS
<1> USE DEF Init, LeaseInit
<1>1. LeaseShape /\ ReaderShape
  BY DEF LeaseShape, ReaderShape, LeaseStates
<1>2. AccountingExact
  <2>1. \A u \in Upstreams : Held("Pending", u) = {} /\ Held("Active", u) = {}
    BY DEF Held
  <2> QED
    BY <2>1, FS_EmptySet, Zenon DEF AccountingExact
<1> QED
  BY <1>1, <1>2 DEF LeaseInv

(* Every operation on a lease keeps the counters exact. *)
LEMMA LeaseStepExact ==
    ASSUME LeaseShape, AccountingExact, NEW l \in Leases, LeaseStep(l)
    PROVE  LeaseShape' /\ AccountingExact'
<1>f. \A st, u : Cardinality(Held(st, u)) \in Nat
  BY HeldFinite
<1>1. ASSUME NEW u \in Upstreams, NewPending(l, u)
      PROVE  LeaseShape' /\ AccountingExact'
  <2>1. LeaseShape'
    BY <1>1 DEF NewPending, LeaseShape, LeaseStates
  <2>2. \A v \in Upstreams : Cardinality(Held("Pending", v)') =
          Cardinality(Held("Pending", v)) + (IF v = u THEN 1 ELSE 0)
    <3>1. /\ state[l] # "Pending" /\ "Pending" \in LeaseStates
          /\ state' = [state EXCEPT ![l] = "Pending"]
          /\ upstream' = [upstream EXCEPT ![l] = u]
      BY <1>1, Zenon DEF NewPending, LeaseStates
    <3> QED
      BY <3>1, Enter, ZenonT(30)
  <2>3. \A v \in Upstreams : Held("Active", v)' = Held("Active", v)
    BY <1>1, Elsewhere, Zenon DEF NewPending, LeaseShape
  <2> QED
    BY <1>1, <1>f, <2>1, <2>2, <2>3 DEF NewPending, AccountingExact, LeaseShape
<1>2. ASSUME DropPending(l) \/ EstablishedSub(l)
      PROVE  LeaseShape' /\ AccountingExact'
  <2>0. PICK new \in {"Dropped", "Transferred"} :
          /\ state' = [state EXCEPT ![l] = new]
          /\ in_flight' = [in_flight EXCEPT ![upstream[l]] = @ - 1]
          /\ state[l] = "Pending"
          /\ UNCHANGED <<active, upstream>>
    BY <1>2 DEF DropPending, EstablishedSub
  <2>1. LeaseShape'
    BY <1>2, <2>0 DEF LeaseShape, LeaseStates
  <2>2. \A v \in Upstreams : Cardinality(Held("Pending", v)') =
          Cardinality(Held("Pending", v)) - (IF v = upstream[l] THEN 1 ELSE 0)
    BY <1>2, <2>0, Leave, Zenon
  <2>3. \A v \in Upstreams : Held("Active", v)' = Held("Active", v)
    BY <1>2, <2>0, Elsewhere, Zenon
  <2> QED
    BY <1>f, <2>0, <2>1, <2>2, <2>3 DEF AccountingExact, LeaseShape
<1>3. ASSUME EstablishedAdd(l)
      PROVE  LeaseShape' /\ AccountingExact'
  <2>1. LeaseShape'
    BY <1>3 DEF EstablishedAdd, LeaseShape, LeaseStates
  <2>2. \A v \in Upstreams : Cardinality(Held("Active", v)') =
          Cardinality(Held("Active", v)) + (IF v = upstream[l] THEN 1 ELSE 0)
    <3>1. upstream[l] \in Upstreams /\ upstream' = [upstream EXCEPT ![l] = upstream[l]]
      BY <1>3 DEF EstablishedAdd, LeaseShape
    <3>2. /\ state[l] # "Active" /\ "Active" \in LeaseStates
          /\ state' = [state EXCEPT ![l] = "Active"]
      BY <1>3, Zenon DEF EstablishedAdd, LeaseStates
    <3> QED
      BY <3>1, <3>2, Enter, ZenonT(30)
  <2>3. \A v \in Upstreams : Held("Pending", v)' = Held("Pending", v)
    BY <1>3, Elsewhere, Zenon DEF EstablishedAdd
  <2> QED
    BY <1>3, <1>f, <2>1, <2>2, <2>3 DEF EstablishedAdd, AccountingExact, LeaseShape
<1>4. ASSUME DropActive(l)
      PROVE  LeaseShape' /\ AccountingExact'
  <2>1. LeaseShape'
    BY <1>4 DEF DropActive, LeaseShape, LeaseStates
  <2>2. \A v \in Upstreams : Cardinality(Held("Active", v)') =
          Cardinality(Held("Active", v)) - (IF v = upstream[l] THEN 1 ELSE 0)
    BY <1>4, Leave, Zenon DEF DropActive
  <2>3. \A v \in Upstreams : Held("Pending", v)' = Held("Pending", v)
    BY <1>4, Elsewhere, Zenon DEF DropActive
  <2> QED
    BY <1>4, <1>f, <2>1, <2>2, <2>3 DEF DropActive, AccountingExact, LeaseShape
<1> QED
  BY <1>1, <1>2, <1>3, <1>4, Zenon DEF LeaseStep

(* The counters stay exact while no lease moves. *)
LEMMA LeasesStayExact ==
    LeaseShape /\ AccountingExact /\ UNCHANGED leaseVars => LeaseShape' /\ AccountingExact'
<1> SUFFICES ASSUME LeaseShape, AccountingExact, UNCHANGED leaseVars
             PROVE  LeaseShape' /\ AccountingExact'
  BY Zenon
<1>1. UNCHANGED <<state, upstream, in_flight, active>>
  BY Zenon DEF leaseVars
<1>2. \A st, u : Held(st, u)' = Held(st, u)
  BY <1>1, Zenon DEF Held
<1> QED BY <1>1, <1>2, Zenon DEF LeaseShape, AccountingExact

(* Every lease operation and every load preserves LeaseInv. *)
LEMMA NextLeaseInv == LeaseInv /\ [Next]_vars => LeaseInv'
<1> SUFFICES ASSUME LeaseShape, ReaderShape, AccountingExact, [Next]_vars
             PROVE  LeaseShape' /\ ReaderShape' /\ AccountingExact'
  BY DEF LeaseInv
<1>1. ASSUME NEW l \in Leases, LeaseStep(l), moved' = moved \cup {l}, UNCHANGED reader
      PROVE  LeaseShape' /\ ReaderShape' /\ AccountingExact'
  <2>1. ReaderShape'
    BY <1>1 DEF ReaderShape
  <2> QED
    BY <1>1, <2>1, LeaseStepExact
<1>2. ASSUME UNCHANGED leaseVars PROVE LeaseShape' /\ AccountingExact'
  BY <1>2, LeasesStayExact
<1>3. ASSUME NEW u \in Upstreams, NEW c \in Counters, LoadFirst(u, c)
      PROVE  LeaseShape' /\ ReaderShape' /\ AccountingExact'
  <2>1. Value(c, u) \in Nat
    BY HeldFinite DEF Value, AccountingExact
  <2>2. ReaderShape'
    BY <1>3, <2>1 DEF LoadFirst, ReaderShape
  <2> QED
    BY <1>2, <1>3, <2>2 DEF LoadFirst
<1>4. CASE LoadSecond
  BY <1>2, <1>4 DEF LoadSecond, ReaderShape
<1>5. CASE UNCHANGED vars
  BY <1>2, <1>5 DEF vars, ReaderShape, leaseVars
<1> QED
  BY <1>1, <1>3, <1>4, <1>5 DEF Next

(* The inductive invariant holds in every behaviour. *)
THEOREM Inductive == Spec => []LeaseInv
  BY InitLeaseInv, NextLeaseInv, PTL DEF Spec

(* For any number of upstreams and leases, in_flight and active always     *)
(* count exactly the pending and the active leases (PendingLease::new,     *)
(* established and the two Drops).                                         *)
THEOREM AccountingAlwaysExact == Spec => []AccountingExact
<1>1. LeaseInv => AccountingExact
  BY DEF LeaseInv
<1> QED
  BY <1>1, Inductive, PTL

(* For any number of upstreams and leases the state keeps its type; in     *)
(* particular no fetch_sub takes a counter below zero.                     *)
THEOREM TypeCorrect == Spec => []TypeOK
<1>1. LeaseInv => TypeOK
  <2> SUFFICES ASSUME LeaseShape, ReaderShape, AccountingExact PROVE TypeOK
    BY DEF LeaseInv
  <2>1. \A u \in Upstreams : in_flight[u] \in Nat /\ active[u] \in Nat
    BY HeldFinite DEF AccountingExact
  <2> QED
    BY <2>1 DEF LeaseShape, ReaderShape, TypeOK
<1> QED
  BY <1>1, Inductive, PTL
-----------------------------------------------------------------------------
(* The leases the reader's first load counted, were it to look again. *)
Counted == Held(IF reader.counter = "active" THEN "Active" ELSE "Pending", reader.u)

(* A set of leases may be what the reader's first load counted: as many as *)
(* it got, all on its upstream, and the same as now but for those moved.   *)
Witnessed(seen) ==
    /\ Cardinality(seen) = reader.got
    /\ \A l \in seen : state[l] # "Unused" /\ upstream[l] = reader.u
    /\ \A l \in Leases \ moved : l \in seen <=> l \in Counted

(* The strengthening behind LoadErrorBounded: some set was counted. *)
TornRead == reader.phase = "Half" => \E seen \in SUBSET Leases : Witnessed(seen)

(* A lease operation marks its lease as moved, so what the first load      *)
(* counted stays a witness.                                                *)
LEMMA LeaseStepKeepsWitness ==
    ASSUME LeaseInv, NEW l \in Leases, LeaseStep(l), moved' = moved \cup {l}, UNCHANGED reader,
           NEW seen \in SUBSET Leases, Witnessed(seen)
    PROVE  Witnessed(seen)'
<1>1. \A k \in Leases \ {l} : state'[k] = state[k] /\ upstream'[k] = upstream[k]
  BY DEF LeaseStep, NewPending, DropPending, EstablishedSub, EstablishedAdd, DropActive,
         LeaseInv, LeaseShape
<1>2. state[l] # "Unused" => state'[l] # "Unused" /\ upstream'[l] = upstream[l]
  BY DEF LeaseStep, NewPending, DropPending, EstablishedSub, EstablishedAdd, DropActive,
         LeaseInv, LeaseShape
<1>3. \A k \in seen : state'[k] # "Unused" /\ upstream'[k] = reader'.u
  BY <1>1, <1>2 DEF Witnessed
<1>4. \A k \in Leases \ moved' : k \in Counted <=> k \in Counted'
  BY <1>1 DEF Counted, Held
<1> QED
  BY <1>3, <1>4 DEF Witnessed

(* Every step preserves TornRead: the first load starts with what it       *)
(* counts.                                                                 *)
LEMMA NextTornRead == LeaseInv /\ TornRead /\ [Next]_vars => TornRead'
<1> SUFFICES ASSUME LeaseInv, TornRead, [Next]_vars, reader'.phase = "Half"
             PROVE  \E seen \in SUBSET Leases : Witnessed(seen)'
  BY DEF TornRead
<1>1. ASSUME NEW l \in Leases, LeaseStep(l), moved' = moved \cup {l}, UNCHANGED reader
      PROVE  \E seen \in SUBSET Leases : Witnessed(seen)'
  <2>1. PICK seen \in SUBSET Leases : Witnessed(seen)
    BY <1>1 DEF TornRead
  <2>2. Witnessed(seen)'
    BY <1>1, <2>1, LeaseStepKeepsWitness
  <2> QED
    BY <2>2
<1>2. ASSUME NEW u \in Upstreams, NEW c \in Counters, LoadFirst(u, c)
      PROVE  \E seen \in SUBSET Leases : Witnessed(seen)'
  <2> DEFINE st == IF c = "active" THEN "Active" ELSE "Pending"
  <2>1. reader'.u = u /\ reader'.counter = c /\ reader'.got = Value(c, u) /\ moved' = {}
    BY <1>2 DEF LoadFirst
  <2>2. state' = state /\ upstream' = upstream
    BY <1>2 DEF LoadFirst, leaseVars
  <2>3. Counted' = Held(st, u)
    BY <2>1, <2>2 DEF Counted, Held
  <2>4. Cardinality(Held(st, u)) = Value(c, u)
    BY DEF LeaseInv, AccountingExact, Value
  <2>5. \A l \in Held(st, u) : state[l] # "Unused" /\ upstream[l] = u
    BY DEF Held
  <2>6. Witnessed(Held(st, u))'
    BY <2>1, <2>2, <2>3, <2>4, <2>5 DEF Witnessed, Held
  <2>7. Held(st, u)' = Held(st, u) /\ Held(st, u) \in SUBSET Leases
    BY <2>2 DEF Held
  <2> QED
    BY <2>6, <2>7
<1>3. CASE LoadSecond
  BY <1>3 DEF LoadSecond, LeaseInv, ReaderShape
<1>4. CASE UNCHANGED vars
  BY <1>4 DEF vars, TornRead, Witnessed, Counted, Held
<1> QED
  BY <1>1, <1>2, <1>3, <1>4 DEF Next

(* What was counted and what is there now differ by moved leases alone. *)
LEMMA WitnessBounds == LeaseInv /\ TornRead => LoadErrorBounded
<1> SUFFICES ASSUME LeaseInv, TornRead, reader.phase = "Half"
             PROVE  /\ -Cardinality(MovedOn(reader.u)) <= reader.got - Value(reader.counter, reader.u)
                    /\ reader.got - Value(reader.counter, reader.u) <= Cardinality(MovedOn(reader.u))
  BY DEF LoadErrorBounded
<1>1. PICK seen \in SUBSET Leases : Witnessed(seen)
  BY DEF TornRead
<1> DEFINE current == Counted
           moves == MovedOn(reader.u)
<1>2. current \in SUBSET Leases /\ moves \in SUBSET Leases
  BY DEF Counted, Held, MovedOn, LeaseInv, ReaderShape
<1>3. IsFiniteSet(seen) /\ IsFiniteSet(current) /\ IsFiniteSet(moves)
  BY <1>2, LeasesFinite, FS_Subset
<1>4. seen \subseteq current \cup moves /\ current \subseteq seen \cup moves
  BY <1>1 DEF Witnessed, Counted, Held, MovedOn
<1>5. Cardinality(current) = Value(reader.counter, reader.u)
  BY DEF LeaseInv, ReaderShape, AccountingExact, Value, Counted
<1> HIDE DEF current, moves
<1>6. ASSUME NEW A \in SUBSET Leases, NEW B \in SUBSET Leases, NEW M \in SUBSET Leases,
             IsFiniteSet(A), IsFiniteSet(B), IsFiniteSet(M), A \subseteq B \cup M
      PROVE  Cardinality(A) <= Cardinality(B) + Cardinality(M)
  <2>1. /\ IsFiniteSet(B \cup M)
        /\ Cardinality(B \cup M) = Cardinality(B) + Cardinality(M) - Cardinality(B \cap M)
    BY <1>6, FS_Union, Zenon
  <2>2. IsFiniteSet(B \cap M)
    BY <1>6, FS_Intersection, Zenon
  <2>3. Cardinality(A) <= Cardinality(B \cup M)
    BY <1>6, <2>1, FS_Subset, Zenon
  <2>4. /\ Cardinality(A) \in Nat /\ Cardinality(B) \in Nat /\ Cardinality(M) \in Nat
        /\ Cardinality(B \cap M) \in Nat
    BY <1>6, <2>2, FS_CardinalityType, Zenon
  <2> QED
    BY <2>1, <2>3, <2>4
<1>7. Cardinality(seen) <= Cardinality(current) + Cardinality(moves)
  BY <1>2, <1>3, <1>4, <1>6
<1>8. Cardinality(current) <= Cardinality(seen) + Cardinality(moves)
  BY <1>2, <1>3, <1>4, <1>6
<1>9. Cardinality(seen) \in Nat /\ Cardinality(current) \in Nat /\ Cardinality(moves) \in Nat
  BY <1>3, FS_CardinalityType, Zenon
<1>10. Cardinality(seen) = reader.got
  BY <1>1 DEF Witnessed
<1> QED
  BY <1>5, <1>7, <1>8, <1>9, <1>10 DEF moves

(* For any number of upstreams and leases, the sum that a torn             *)
(* current_load returns is off by at most the number of leases that moved  *)
(* between its two loads.                                                  *)
THEOREM TornLoadBounded == Spec => []LoadErrorBounded
<1>1. Init => TornRead
  BY DEF Init, TornRead
<1> QED
  BY <1>1, Inductive, NextTornRead, WitnessBounds, PTL DEF Spec
-----------------------------------------------------------------------------
BeforeRoute == {"Closed", "Accept", "Login", "Request", "Greet", "Route"}
OnPath == {"Connect", "Opened", "Refuse"} \cup Using

Chains == Seq(SUBSET {"quic", "h3", "app"} \ {{}})

(* A session's record has its fields, and what is counted in it is a       *)
(* number.                                                                 *)
Whole(r) ==
    /\ DOMAIN r = {"phase", "peer", "protocol", "cached", "started", "recorded", "request",
                   "chain", "path", "hop", "reply", "outcome"}
    /\ r.request \in 1..MaxRequests
    /\ r.chain \in Chains
    /\ r.path \in Seq(Nat)
    /\ r.hop \in Nat

(* What is known of a session that has a protocol. *)
Placed(r) ==
    /\ r.phase = "Closed" => r.request = 1
    /\ r.phase # "Closed" => r.protocol \in DOMAIN Shape
    /\ r.phase \in {"Accept", "Login"} => r.peer \in Peers
    /\ r.phase = "Associate" => Shape[r.protocol].run = "udp"
    /\ r.phase \in {"Greet", "Route", "Connect", "Opened"} \cup (Using \ {"Reply"}) =>
          Shape[r.protocol].run # "udp"

(* A session is counted before it is routed, and recorded last. *)
Recorded(r) ==
    /\ r.phase \notin {"Closed", "Accept", "Login", "Greet", "Done"} => r.started
    /\ r.phase \in {"Accept", "Login"} /\ Shape[r.protocol].reply # "early" => r.started
    /\ r.recorded \in {0, 1}
    /\ r.recorded = 1 => r.started /\ r.phase = "Done"
    /\ r.phase = "Done" /\ r.started =>
          r.recorded = 1 \/ (r.outcome = "Cancelled" /\ r.protocol # "http2")

(* The chain a session has chosen, and the hop it is at. *)
Chosen(r) ==
    /\ r.phase \notin OnPath => r.chain = <<>>
    /\ r.phase = "Opened" => r.chain # <<>>
    /\ r.phase = "Reply" /\ Shape[r.protocol].run = "udp" => r.chain = <<>>
    /\ r.phase \in BeforeRoute \cup {"Associate"} => r.path = <<>> /\ r.hop = 1
    /\ r.phase = "Connect" /\ r.path = <<>> => r.hop = 1
    /\ r.phase = "Connect" /\ r.path # <<>> => r.hop \in 1..Len(r.chain)

Sound(r) == Whole(r) /\ Placed(r) /\ Recorded(r) /\ Chosen(r)

(* Where the lease of a session's current request may be. *)
LeaseOf(r) ==
    IF r.phase = "Connect" /\ r.chain # <<>> THEN {"Pending"}
    ELSE IF r.phase = "Opened" THEN {"Pending", "Transferred"}
    ELSE IF r.phase \in Using /\ r.chain # <<>> THEN {"Active"}
    ELSE IF r.phase = "Refuse" THEN {"Unused", "Active", "Dropped"}
    ELSE IF r.phase \in {"Report", "Done"} THEN {"Unused", "Dropped"}
    ELSE {"Unused"}

Owned(s) ==
    /\ state[Lease(s)] \in LeaseOf(sess[s])
    /\ \A n \in 1..MaxRequests :
          /\ n < sess[s].request => state[<<s, n>>] \in {"Unused", "Dropped"}
          /\ n > sess[s].request => state[<<s, n>>] = "Unused"

SessionType ==
    /\ config \in Configs
    /\ DOMAIN sess = Sessions

(* A session that tells of success before it routes has credentials to     *)
(* check (HTTP/2 and HTTP/3 streams, WebSocket upgrades), so it passes     *)
(* through Login.                                                          *)
LEMMA EarlyLogsIn ==
    ASSUME NEW p \in DOMAIN Shape, Shape[p].reply = "early"
    PROVE  Shape[p].auth \in {"inline", "password"}
  BY DEF Shape

(* UDP associations are a command of SOCKS5, behind its negotiation.       *)
LEMMA UdpIsNegotiated ==
    ASSUME NEW p \in DOMAIN Shape, Shape[p].run = "udp"
    PROVE  Shape[p].auth = "negotiated" /\ Shape[p].reply = "late"
  BY DEF Shape

(* The chain and the path a session starts with are well typed. *)
LEMMA EmptyTyped == <<>> \in Chains /\ <<>> \in Seq(Nat)
  BY DEF Chains

(* A path stays a sequence of nodes when the next node is appended. *)
LEMMA Appended ==
    ASSUME NEW p \in Seq(Nat), NEW n \in Nat
    PROVE  Append(p, n) \in Seq(Nat) /\ Append(p, n) # <<>>
<1>1. Append(p, n) \in Seq(Nat) /\ Len(Append(p, n)) = Len(p) + 1 /\ Len(p) \in Nat
  OBVIOUS
<1>2. Len(<<>>) = 0
  OBVIOUS
<1> QED BY <1>1, <1>2

(* What is left of a session that returns, is refused or is dropped.       *)
LEMMA OverSound ==
    ASSUME NEW s \in Sessions, Sound(sess[s]), sess[s].phase \notin {"Closed", "Done"},
           NEW phase \in {"Report", "Done"}, NEW outcome,
           phase = "Report" => sess[s].started,
           phase = "Done" /\ sess[s].started =>
              outcome = "Cancelled" /\ sess[s].protocol # "http2"
    PROVE  Sound(Over(s, phase, outcome))
<1> DEFINE q == Over(s, phase, outcome)
<1>1. /\ q.phase = phase /\ q.protocol = sess[s].protocol /\ q.started = sess[s].started
      /\ q.recorded = sess[s].recorded /\ q.request = sess[s].request /\ q.outcome = outcome
      /\ q.chain = <<>> /\ q.path = <<>> /\ q.hop = 1
      /\ DOMAIN q = {"phase", "peer", "protocol", "cached", "started", "recorded", "request",
                     "chain", "path", "hop", "reply", "outcome"}
  BY DEF Over, Fresh
<1> HIDE DEF q
<1>2. Whole(q)
  BY <1>1, EmptyTyped DEF Sound, Whole
<1>3. Placed(q)
  BY <1>1, Zenon DEF Sound, Placed, OnPath, Using, BeforeRoute
<1>4. Recorded(q)
  BY <1>1, Zenon DEF Sound, Recorded
<1>5. Chosen(q)
  BY <1>1 DEF Chosen, OnPath, Using, BeforeRoute
<1> QED BY <1>2, <1>3, <1>4, <1>5 DEF q, Sound

(* A session whose client has logged in goes on with a sound record.       *)
LEMMA AdmittedSound ==
    ASSUME NEW s \in Sessions, Sound(sess[s]), sess[s].phase = "Login"
    PROVE  Sound(Admitted(s))
<1> DEFINE q == Admitted(s)
<1>1. /\ q.protocol = sess[s].protocol /\ q.started = sess[s].started
      /\ q.recorded = sess[s].recorded /\ q.request = sess[s].request
      /\ q.chain = sess[s].chain /\ q.path = sess[s].path /\ q.hop = sess[s].hop
      /\ q.outcome = sess[s].outcome /\ DOMAIN q = DOMAIN sess[s]
  BY DEF Admitted, Sound, Whole
<1>2. q.phase = IF Shape[sess[s].protocol].reply = "early" THEN "Greet"
                ELSE IF \/ Shape[sess[s].protocol].auth = "negotiated"
                        \/ Shape[sess[s].protocol].run = "forward" THEN "Request"
                ELSE "Route"
  BY DEF Admitted, Sound, Whole
<1> HIDE DEF q
<1>3. Whole(q)
  BY <1>1, Zenon DEF Sound, Whole
<1>4. Placed(q)
  <2>1. q.phase \in {"Greet", "Request", "Route"}
    BY <1>2
  <2> QED BY <1>1, <1>2, <2>1, UdpIsNegotiated, Zenon DEF Sound, Whole, Placed, OnPath, Using, BeforeRoute
<1>b. /\ q.phase \in {"Greet", "Request", "Route"}
      /\ q.phase # "Greet" => Shape[sess[s].protocol].reply # "early"
  BY <1>2
<1>5. Recorded(q)
  BY <1>1, <1>b, Zenon DEF Sound, Recorded
<1>6. Chosen(q)
  BY <1>1, <1>b, Zenon DEF Sound, Chosen, OnPath, Using, BeforeRoute
<1> QED BY <1>3, <1>4, <1>5, <1>6 DEF q, Sound

(* Every step keeps the records of the sessions sound.                     *)
LEMMA StepSound ==
    ASSUME NEW s \in Sessions, SessionType, Sound(sess[s]), Step(s)
    PROVE  Sound(sess'[s])
<1> DEFINE r == sess[s]
<1>p. config.protocols \subseteq DOMAIN Shape
  BY SessionAssumption DEF SessionType
<1>o. ASSUME NEW phase \in {"Report", "Done"}, NEW outcome,
             sess' = [sess EXCEPT ![s] = Over(s, phase, outcome)],
             r.phase \notin {"Closed", "Done"},
             phase = "Report" => r.started,
             phase = "Done" /\ r.started => outcome = "Cancelled" /\ r.protocol # "http2"
      PROVE  Sound(sess'[s])
  <2>1. sess'[s] = Over(s, phase, outcome)
    BY <1>o DEF SessionType
  <2> QED BY <1>o, <2>1, OverSound, Zenon
<1>a. ASSUME r.phase = "Login", sess' = [sess EXCEPT ![s] = Admitted(s)]
      PROVE  Sound(sess'[s])
  <2>1. sess'[s] = Admitted(s)
    BY <1>a, Zenon DEF SessionType
  <2> QED BY <1>a, <2>1, AdmittedSound, Zenon
<1>1. CASE \E peer \in Peers, protocol \in config.protocols : Accept(s, peer, protocol)
  <2>1. PICK peer \in Peers, protocol \in config.protocols : Accept(s, peer, protocol)
    BY <1>1
  <2> DEFINE q == [Fresh EXCEPT !.phase = "Accept", !.peer = peer, !.protocol = protocol,
                               !.started = Shape[protocol].reply # "early"]
  <2>2. sess'[s] = q
    BY <2>1, Zenon DEF Accept, Private, SessionType
  <2>3. /\ q.phase = "Accept" /\ q.protocol = protocol /\ q.peer = peer /\ q.recorded = 0
        /\ q.request = 1 /\ q.chain = <<>> /\ q.path = <<>> /\ q.hop = 1
        /\ DOMAIN q = {"phase", "peer", "protocol", "cached", "started", "recorded", "request",
                     "chain", "path", "hop", "reply", "outcome"}
    BY DEF Fresh
  <2>4. Shape[protocol].reply # "early" => q.started
    BY Zenon DEF Fresh
  <2> HIDE DEF q
  <2>5. 1 \in 1..MaxRequests /\ protocol \in DOMAIN Shape
    BY <1>p, SessionAssumption
  <2>6. Whole(q) /\ Placed(q) /\ Chosen(q)
    BY <2>3, <2>5, EmptyTyped DEF Whole, Placed, Chosen, OnPath, Using, BeforeRoute
  <2>7. Recorded(q)
    BY <2>3, <2>4 DEF Recorded
  <2> QED BY <2>2, <2>6, <2>7 DEF Sound
<1>2. CASE \E u \in Upstreams : SelectUpstream(s, u)
  BY <1>2, SessionAssumption
     DEF SelectUpstream, WithLease, Chains, SessionType,
         Sound, Whole, Placed, Recorded, Chosen, OnPath, Using, BeforeRoute
<1>3. CASE LookupPeer(s)
  BY <1>3
     DEF LookupPeer, Private, SessionType,
         Sound, Whole, Placed, Recorded, Chosen, OnPath, Using, BeforeRoute
<1>4. CASE LoginFromCache(s)
  BY <1>4, <1>a, Zenon DEF LoginFromCache, Admit
<1>5. CASE LoginWithCredentials(s)
  BY <1>5, <1>a, Zenon DEF LoginWithCredentials, Admit
<1>6. CASE LoginFails(s)
  <2>1. r.phase = "Login"
    BY <1>6, Zenon DEF LoginFails
  <2>2. ASSUME r.started PROVE Sound(sess'[s])
    <3>1. \E outcome : sess' = [sess EXCEPT ![s] = Over(s, "Report", outcome)]
      BY <1>6, <2>2, Zenon DEF LoginFails, Private
    <3> QED BY <1>o, <2>1, <2>2, <3>1, Zenon
  <2>3. ASSUME ~r.started PROVE Sound(sess'[s])
    <3>1. sess' = [sess EXCEPT ![s] = Over(s, "Done", "None")]
      BY <1>6, <2>3, Zenon DEF LoginFails, Private
    <3> QED BY <1>o, <2>1, <2>3, <3>1, Zenon
  <2> QED BY <2>2, <2>3, Zenon
<1>7. CASE LoginOpen(s)
  BY <1>7, <1>a, Zenon DEF LoginOpen, Admit
<1>8. CASE AcceptKeyed(s)
  <2>0. r.started /\ r.phase = "Accept"
    BY <1>8, EarlyLogsIn, Zenon DEF AcceptKeyed, Sound, Placed, Recorded
  <2>1. ASSUME Refuse(s, "AuthenticationFailed") PROVE Sound(sess'[s])
    BY <1>o, <2>0, <2>1, Zenon DEF Refuse, Private
  <2>2. CASE Private(s, [sess[s] EXCEPT
              !.peer = "None",
              !.phase = IF Shape[sess[s].protocol].run = "echo" THEN "Echo" ELSE "Route"])
    <3>1. Shape[r.protocol].run # "udp"
      BY <1>8, UdpIsNegotiated DEF AcceptKeyed, Sound, Placed
    <3> QED BY <2>0, <2>2, <3>1 DEF Private, SessionType,
         Sound, Whole, Placed, Recorded, Chosen, OnPath, Using, BeforeRoute
  <2> QED BY <1>8, <2>1, <2>2, Zenon DEF AcceptKeyed
<1>9. CASE ReadRequest(s)
  BY <1>9
     DEF ReadRequest, Private, SessionType,
         Sound, Whole, Placed, Recorded, Chosen, OnPath, Using, BeforeRoute
<1>10. CASE Malformed(s)
  <2>1. \E outcome : sess' = [sess EXCEPT ![s] = Over(s, "Report", outcome)]
    BY <1>10, Zenon DEF Malformed, Refuse, Private
  <2>2. r.phase \notin {"Closed", "Done"} /\ r.started
    BY <1>10, Zenon DEF Malformed, AwaitsClient, Sound, Recorded
  <2> QED BY <1>o, <2>1, <2>2, Zenon
<1>11. CASE HandshakeTimeout(s)
  <2>1. \E outcome : sess' = [sess EXCEPT ![s] = Over(s, "Report", outcome)]
    BY <1>11, Zenon DEF HandshakeTimeout, Refuse, Private
  <2>2. r.phase \notin {"Closed", "Done"} /\ r.started
    BY <1>11, Zenon DEF HandshakeTimeout, AwaitsClient, Sound, Recorded
  <2> QED BY <1>o, <2>1, <2>2, Zenon
<1>12. CASE SendEarlySuccess(s)
  BY <1>12
     DEF SendEarlySuccess, Private, SessionType,
         Sound, Whole, Placed, Recorded, Chosen, OnPath, Using, BeforeRoute
<1>13. CASE GiveUp(s)
  <2>1. \E outcome : sess' = [sess EXCEPT ![s] = Over(s, "Done", outcome)]
    BY <1>13, Zenon DEF GiveUp, Private
  <2>2. r.phase \notin {"Closed", "Done"} /\ ~r.started
    BY <1>13, Zenon DEF GiveUp, Sound, Recorded
  <2> QED BY <1>o, <2>1, <2>2, Zenon
<1>14. CASE SelectDirect(s)
  BY <1>14
     DEF SelectDirect, Private, SessionType,
         Sound, Whole, Placed, Recorded, Chosen, OnPath, Using, BeforeRoute
<1>15. CASE RouteRefused(s)
  BY <1>15
     DEF RouteRefused, Refusing, Private, SessionType,
         Sound, Whole, Placed, Recorded, Chosen, OnPath, Using, BeforeRoute
<1>16. CASE ExpectationFailed(s)
  BY <1>16
     DEF ExpectationFailed, Refusing, Private, SessionType,
         Sound, Whole, Placed, Recorded, Chosen, OnPath, Using, BeforeRoute
<1>17. CASE SendFailure(s)
  <2>1. \E outcome : sess' = [sess EXCEPT ![s] = Over(s, "Report", outcome)]
    BY <1>17, Zenon DEF SendFailure, Return, WithLease
  <2>2. r.phase \notin {"Closed", "Done"} /\ r.started
    BY <1>17, Zenon DEF SendFailure, Sound, Recorded
  <2> QED BY <1>o, <2>1, <2>2, Zenon
<1>18. CASE ConnectDirect(s)
  BY <1>18
     DEF ConnectDirect, Private, SessionType,
         Sound, Whole, Placed, Recorded, Chosen, OnPath, Using, BeforeRoute
<1>19. CASE OpenFirstHop(s)
  BY <1>19
     DEF OpenFirstHop, Private, Chains, SessionType,
         Sound, Whole, Placed, Recorded, Chosen, OnPath, Using, BeforeRoute
<1>20. CASE HopHandshake(s)
  <2> DEFINE hop == sess[s].hop
             path == IF ApplicationProtocols(sess[s].chain[hop]) = {} THEN sess[s].path
                     ELSE Append(sess[s].path, hop + 1)
             phase == IF hop = Len(sess[s].chain) THEN "Opened" ELSE "Connect"
  <2>1. r.phase = "Connect" /\ r.path # <<>> /\ hop \in 1..Len(r.chain)
    BY <1>20 DEF HopHandshake, Sound, Chosen
  <2>2. sess' = [sess EXCEPT ![s] = [sess[s] EXCEPT !.path = path, !.hop = hop + 1, !.phase = phase]]
    BY <1>20, Zenon DEF HopHandshake, Private
  <2>3. Len(r.chain) \in Nat /\ (r.chain = <<>> => Len(r.chain) = 0)
    BY DEF Chains, Sound, Whole
  <2>4. path \in Seq(Nat) /\ path # <<>>
    <3>1. r.path \in Seq(Nat) /\ hop + 1 \in Nat
      BY <2>1 DEF Sound, Whole
    <3>2. Append(r.path, hop + 1) \in Seq(Nat) /\ Append(r.path, hop + 1) # <<>>
      BY <3>1, Appended, Zenon
    <3> QED BY <2>1, <3>1, <3>2, Zenon
  <2>5. phase \in {"Opened", "Connect"} /\ (phase = "Connect" => hop + 1 \in 1..Len(r.chain))
    BY <2>1, <2>3
  <2> HIDE DEF path, phase
  <2>6. CASE phase = "Opened"
    BY <2>1, <2>2, <2>3, <2>4, <2>6 DEF SessionType,
         Sound, Whole, Placed, Recorded, Chosen, OnPath, Using, BeforeRoute
  <2>7. CASE phase = "Connect"
    BY <2>1, <2>2, <2>4, <2>5, <2>7 DEF SessionType,
         Sound, Whole, Placed, Recorded, Chosen, OnPath, Using, BeforeRoute
  <2> QED BY <2>5, <2>6, <2>7
<1>21. CASE LeaveInFlight(s)
  <2>1. sess'[s] = sess[s]
    BY <1>21 DEF LeaveInFlight, WithLease, SessionType
  <2> QED BY <2>1
<1>22. CASE EnterActive(s)
  BY <1>22
     DEF EnterActive, WithLease, SessionType,
         Sound, Whole, Placed, Recorded, Chosen, OnPath, Using, BeforeRoute
<1>23. CASE OpenFails(s)
  BY <1>23
     DEF OpenFails, WithLease, SessionType,
         Sound, Whole, Placed, Recorded, Chosen, OnPath, Using, BeforeRoute
<1>24. CASE SendSuccess(s)
  <2>1. r.phase = "Reply" /\ r.started
    BY <1>24 DEF SendSuccess, Sound, Recorded
  <2>2. ASSUME NEW phase, NEW reply, phase \in {"Upload", "Relay"} \/ (phase = "Udp" /\ r.chain = <<>>),
               sess' = [sess EXCEPT ![s] = [sess[s] EXCEPT !.phase = phase, !.reply = reply]],
               phase # "Udp" => Shape[r.protocol].run # "udp"
        PROVE  Sound(sess'[s])
    <3>1. CASE phase = "Udp"
      BY <2>1, <2>2, <3>1 DEF SessionType,
         Sound, Whole, Placed, Recorded, Chosen, OnPath, Using, BeforeRoute
    <3>2. CASE phase \in {"Upload", "Relay"}
      BY <2>1, <2>2, <3>2 DEF SessionType,
         Sound, Whole, Placed, Recorded, Chosen, OnPath, Using, BeforeRoute
    <3> QED BY <2>2, <3>1, <3>2
  <2> DEFINE reply == IF Shape[r.protocol].reply = "late" /\ Shape[r.protocol].run # "forward"
                      THEN "Success" ELSE sess[s].reply
  <2>3. CASE Shape[r.protocol].run = "forward"
    <3>1. sess' = [sess EXCEPT ![s] = [sess[s] EXCEPT !.phase = "Upload", !.reply = reply]]
      BY <1>24, <2>3, Zenon DEF SendSuccess, Private
    <3> QED BY <2>2, <2>3, <3>1, Zenon
  <2>4. CASE Shape[r.protocol].run = "udp"
    <3>1. sess' = [sess EXCEPT ![s] = [sess[s] EXCEPT !.phase = "Udp", !.reply = reply]]
      BY <1>24, <2>4, Zenon DEF SendSuccess, Private
    <3>2. r.chain = <<>>
      BY <2>1, <2>4, Zenon DEF Sound, Chosen
    <3> QED BY <2>2, <3>1, <3>2, Zenon
  <2>5. CASE Shape[r.protocol].run \notin {"forward", "udp"}
    <3>1. sess' = [sess EXCEPT ![s] = [sess[s] EXCEPT !.phase = "Relay", !.reply = reply]]
      BY <1>24, <2>5, Zenon DEF SendSuccess, Private
    <3> QED BY <2>2, <2>5, <3>1, Zenon
  <2> QED BY <2>3, <2>4, <2>5, Zenon
<1>25. CASE SuccessNotSent(s)
  <2>1. \E outcome : sess' = [sess EXCEPT ![s] = Over(s, "Report", outcome)]
    BY <1>25, Zenon DEF SuccessNotSent, Return, WithLease
  <2>2. r.phase \notin {"Closed", "Done"} /\ r.started
    BY <1>25, Zenon DEF SuccessNotSent, Sound, Recorded
  <2> QED BY <1>o, <2>1, <2>2, Zenon
<1>26. CASE RelayEnds(s)
  <2>1. \E outcome : sess' = [sess EXCEPT ![s] = Over(s, "Report", outcome)]
    BY <1>26, Zenon DEF RelayEnds, Return, WithLease
  <2>2. r.phase \notin {"Closed", "Done"} /\ r.started
    BY <1>26, Zenon DEF RelayEnds, Sound, Recorded
  <2> QED BY <1>o, <2>1, <2>2, Zenon
<1>27. CASE UploadRequest(s)
  <2>1. r.phase = "Upload" /\ r.started
    BY <1>27 DEF UploadRequest, Sound, Recorded
  <2>2. ASSUME NEW outcome, Return(s, outcome) PROVE Sound(sess'[s])
    BY <1>o, <2>1, <2>2, Zenon DEF Return, WithLease
  <2>3. ASSUME NEW outcome, Refusing(s, outcome) PROVE Sound(sess'[s])
    BY <2>1, <2>3 DEF Refusing, Private, SessionType,
         Sound, Whole, Placed, Recorded, Chosen, OnPath, Using, BeforeRoute
  <2>4. CASE Private(s, [sess[s] EXCEPT !.phase = "Response"])
    BY <2>1, <2>4 DEF Private, SessionType,
         Sound, Whole, Placed, Recorded, Chosen, OnPath, Using, BeforeRoute
  <2> QED BY <1>27, <2>2, <2>3, <2>4, Zenon DEF UploadRequest
<1>28. CASE ForwardResponse(s)
  <2>1. r.phase = "Response" /\ r.started
    BY <1>28 DEF ForwardResponse, Sound, Recorded
  <2>2. ASSUME NEW outcome, Return(s, outcome) PROVE Sound(sess'[s])
    BY <1>o, <2>1, <2>2, Zenon DEF Return, WithLease
  <2>3. ASSUME NEW outcome, Refusing(s, outcome) PROVE Sound(sess'[s])
    BY <2>1, <2>3 DEF Refusing, Private, SessionType,
         Sound, Whole, Placed, Recorded, Chosen, OnPath, Using, BeforeRoute
  <2>4. CASE Private(s, [sess[s] EXCEPT !.phase = "Idle", !.reply = "Success"])
    BY <2>1, <2>4 DEF Private, SessionType,
         Sound, Whole, Placed, Recorded, Chosen, OnPath, Using, BeforeRoute
  <2> QED BY <1>28, <2>2, <2>3, <2>4, Zenon DEF ForwardResponse
<1>29. CASE ForwardEnds(s)
  <2>1. \E outcome : sess' = [sess EXCEPT ![s] = Over(s, "Report", outcome)]
    BY <1>29, Zenon DEF ForwardEnds, Return, WithLease
  <2>2. r.phase \notin {"Closed", "Done"} /\ r.started
    BY <1>29, Zenon DEF ForwardEnds, Sound, Recorded
  <2> QED BY <1>o, <2>1, <2>2, Zenon
<1>30. CASE NextRequest(s)
  <2>1. /\ sess' = [sess EXCEPT ![s] = [sess[s] EXCEPT !.phase = "Route", !.request = r.request + 1,
                        !.chain = <<>>, !.path = <<>>, !.hop = 1, !.reply = "None"]]
        /\ r.phase = "Idle" /\ r.request < MaxRequests
    BY <1>30 DEF NextRequest, WithLease, Sound, Whole
  <2>2. r.request + 1 \in 1..MaxRequests
    BY <2>1, SessionAssumption DEF Sound, Whole
  <2> QED BY <2>1, <2>2, EmptyTyped DEF SessionType,
         Sound, Whole, Placed, Recorded, Chosen, OnPath, Using, BeforeRoute
<1>31. CASE CreateAssociation(s)
  <2>0. r.phase = "Associate"
    BY <1>31 DEF CreateAssociation
  <2>1. CASE Refusing(s, "RouteFailed")
    BY <2>0, <2>1 DEF Refusing, Private, SessionType,
         Sound, Whole, Placed, Recorded, Chosen, OnPath, Using, BeforeRoute
  <2>2. CASE Private(s, [sess[s] EXCEPT !.phase = "Reply"])
    BY <2>0, <2>2 DEF Private, SessionType,
         Sound, Whole, Placed, Recorded, Chosen, OnPath, Using, BeforeRoute
  <2> QED BY <1>31, <2>1, <2>2, Zenon DEF CreateAssociation
<1>32. CASE AssociateTimeout(s)
  BY <1>32
     DEF AssociateTimeout, Refusing, Private, SessionType,
         Sound, Whole, Placed, Recorded, Chosen, OnPath, Using, BeforeRoute
<1>33. CASE ControlEnds(s)
  <2>1. \E outcome : sess' = [sess EXCEPT ![s] = Over(s, "Report", outcome)]
    BY <1>33, Zenon DEF ControlEnds, Refuse, Private
  <2>2. r.phase \notin {"Closed", "Done"} /\ r.started
    BY <1>33, Zenon DEF ControlEnds, Sound, Recorded
  <2> QED BY <1>o, <2>1, <2>2, Zenon
<1>34. CASE RecordSession(s)
  BY <1>34
     DEF RecordSession, Private, SessionType,
         Sound, Whole, Placed, Recorded, Chosen, OnPath, Using, BeforeRoute
<1>35. CASE Cancel(s)
  <2>1. \E phase \in {"Report", "Done"} :
          /\ sess' = [sess EXCEPT ![s] = Over(s, phase, "Cancelled")]
          /\ phase = "Done" => r.protocol # "http2"
    BY <1>35, Zenon DEF Cancel, WithLease
  <2>2. r.started /\ r.phase \notin {"Closed", "Done"}
    BY <1>35, Zenon DEF Cancel, Awaits, AwaitsClient
  <2> QED BY <1>o, <2>1, <2>2, Zenon
<1> QED
  BY <1>1, <1>2, <1>3, <1>4, <1>5, <1>6, <1>7, <1>8, <1>9, <1>10, <1>11, <1>12, <1>13,
     <1>14, <1>15, <1>16, <1>17, <1>18, <1>19, <1>20, <1>21, <1>22, <1>23, <1>24,
     <1>25, <1>26, <1>27, <1>28, <1>29, <1>30, <1>31, <1>32, <1>33, <1>34, <1>35, Zenon
     DEF Step, Login, Routed

-----------------------------------------------------------------------------
(* The step of session s leaves the lease of its request where the session *)
(* it becomes may have it.                                                 *)
Carried(s) ==
    /\ sess'[s].request = sess[s].request
    /\ \E st \in LeaseOf(sess'[s]) : state' = [state EXCEPT ![Lease(s)] = st]

(* A function that owns the lease ends: the lease is dropped, if there is one. *)
LEMMA Dropping ==
    ASSUME NEW s \in Sessions, LeaseShape, DropLease(s)
    PROVE  \E st \in {"Unused", "Dropped"} : state' = [state EXCEPT ![Lease(s)] = st]
<1>1. CASE state[Lease(s)] \in {"Unused", "Dropped"} /\ UNCHANGED leaseVars
  <2>1. state' = [state EXCEPT ![Lease(s)] = state[Lease(s)]]
    BY <1>1 DEF LeaseShape, leaseVars
  <2> QED BY <1>1, <2>1, Zenon
<1>2. CASE DropPending(Lease(s)) \/ DropActive(Lease(s))
  BY <1>2, Zenon DEF DropPending, DropActive
<1> QED BY <1>1, <1>2, Zenon DEF DropLease

(* A session whose frames are gone has no lease left. *)
LEMMA OverCarried ==
    ASSUME NEW s \in Sessions, SessionType, Sound(sess[s]),
           NEW phase \in {"Report", "Done"}, NEW outcome,
           sess' = [sess EXCEPT ![s] = Over(s, phase, outcome)],
           \E st \in {"Unused", "Dropped"} : state' = [state EXCEPT ![Lease(s)] = st]
    PROVE  Carried(s)
<1>1. sess'[s] = Over(s, phase, outcome)
  BY DEF SessionType
<1>2. Over(s, phase, outcome).request = sess[s].request /\ Over(s, phase, outcome).phase = phase
  BY DEF Over, Fresh
<1>3. LeaseOf(sess'[s]) = {"Unused", "Dropped"}
  BY <1>1, <1>2, Zenon DEF LeaseOf, Using
<1> QED BY <1>1, <1>2, <1>3, Zenon DEF Carried

(* Every step but the one to the next request carries the lease along.     *)
LEMMA StepCarries ==
    ASSUME NEW s \in Sessions, SessionType, LeaseShape, Sound(sess[s]), Owned(s), Step(s)
    PROVE  Carried(s) \/ NextRequest(s)
<1> DEFINE r == sess[s]
<1>l. state[Lease(s)] \in LeaseOf(r)
  BY Zenon DEF Owned
<1>k. ASSUME UNCHANGED vars PROVE state' = [state EXCEPT ![Lease(s)] = state[Lease(s)]]
  BY <1>k DEF LeaseShape, vars
<1>p. ASSUME NEW q, Private(s, q), q.request = r.request, state[Lease(s)] \in LeaseOf(q)
      PROVE  Carried(s)
  <2>1. sess'[s] = q
    BY <1>p DEF Private, SessionType
  <2>2. state' = [state EXCEPT ![Lease(s)] = state[Lease(s)]]
    BY <1>k, <1>p, Zenon DEF Private
  <2> QED BY <1>p, <2>1, <2>2, Zenon DEF Carried
<1>u. ASSUME NEW phase \in {"Report", "Done"}, NEW outcome,
             Private(s, Over(s, phase, outcome)),
             state[Lease(s)] \in {"Unused", "Dropped"}
      PROVE  Carried(s)
  <2>1. state' = [state EXCEPT ![Lease(s)] = state[Lease(s)]]
    BY <1>k, <1>u, Zenon DEF Private
  <2> QED BY <1>u, <2>1, OverCarried, Zenon DEF Private
<1>d. ASSUME NEW phase \in {"Report", "Done"}, NEW outcome, DropLease(s),
             WithLease(s, Over(s, phase, outcome))
      PROVE  Carried(s)
  BY <1>d, Dropping, OverCarried, Zenon DEF WithLease
<1>r. ASSUME NEW outcome, Refusing(s, outcome), r.phase \in {"Route", "Associate"} \cup Using
      PROVE  Carried(s)
  <2> DEFINE q == [sess[s] EXCEPT !.phase = "Refuse", !.outcome = outcome]
  <2>1. q.phase = "Refuse" /\ q.request = r.request
    BY DEF Sound, Whole
  <2>2. state[Lease(s)] \in LeaseOf(q)
    BY <1>l, <1>r, <2>1 DEF LeaseOf, Using
  <2> QED BY <1>p, <1>r, <2>1, <2>2, Zenon DEF Refusing
<1>1. CASE \E peer \in Peers, protocol \in config.protocols : Accept(s, peer, protocol)
  <2>1. PICK peer \in Peers, protocol \in config.protocols : Accept(s, peer, protocol)
    BY <1>1
  <2> DEFINE q == [Fresh EXCEPT !.phase = "Accept", !.peer = peer, !.protocol = protocol,
                               !.started = Shape[protocol].reply # "early"]
  <2>2. q.phase = "Accept" /\ q.request = 1
    BY DEF Fresh
  <2>3. r.phase = "Closed"
    BY <2>1 DEF Accept
  <2>4. r.request = 1
    BY <2>3, Zenon DEF Sound, Placed
  <2>5. state[Lease(s)] \in LeaseOf(q)
    BY <1>l, <2>2, <2>3 DEF LeaseOf, Using
  <2> QED BY <1>p, <2>1, <2>2, <2>4, <2>5, Zenon DEF Accept
<1>2. CASE \E u \in Upstreams : SelectUpstream(s, u)
  <2>1. PICK u \in Upstreams : SelectUpstream(s, u)
    BY <1>2
  <2>2. sess'[s].phase = "Connect" /\ sess'[s].chain = ChainOf[u] /\ sess'[s].request = r.request
    BY <2>1 DEF SelectUpstream, WithLease, SessionType, Sound, Whole
  <2>3. LeaseOf(sess'[s]) = {"Pending"}
    BY <2>2, SessionAssumption, Zenon DEF LeaseOf
  <2> QED BY <2>1, <2>2, <2>3, Zenon DEF SelectUpstream, NewPending, Carried
<1>3. CASE LookupPeer(s)
  <2>1. sess'[s].phase = "Login" /\ sess'[s].request = r.request /\ r.phase = "Accept"
    BY <1>3 DEF LookupPeer, SessionType, Sound, Whole
  <2>2. state[Lease(s)] \in LeaseOf(sess'[s])
    BY <1>l, <2>1, Zenon DEF LeaseOf, Using
  <2> QED BY <1>3, <1>k, <2>1, <2>2, Zenon DEF LookupPeer, Carried
<1>4. CASE LoginFromCache(s) \/ LoginWithCredentials(s) \/ LoginOpen(s)
  <2>1. /\ sess' = [sess EXCEPT ![s] = Admitted(s)] /\ UNCHANGED vars /\ r.phase = "Login"
    BY <1>4, Zenon DEF LoginFromCache, LoginWithCredentials, LoginOpen, Admit
  <2>2. Admitted(s).phase \in {"Greet", "Request", "Route"} /\ Admitted(s).request = r.request
    BY DEF Admitted, Sound, Whole
  <2>3. sess'[s] = Admitted(s)
    BY <2>1 DEF SessionType
  <2>4. state[Lease(s)] \in LeaseOf(sess'[s])
    BY <1>l, <2>1, <2>2, <2>3, Zenon DEF LeaseOf, Using
  <2> QED BY <1>k, <2>1, <2>2, <2>3, <2>4, Zenon DEF Carried
<1>5. CASE LoginFails(s)
  <2>1. \E phase \in {"Report", "Done"} : \E outcome : Private(s, Over(s, phase, outcome))
    BY <1>5, Zenon DEF LoginFails
  <2>2. state[Lease(s)] \in {"Unused", "Dropped"}
    BY <1>5, <1>l, Zenon DEF LoginFails, LeaseOf, Using
  <2> QED BY <1>u, <2>1, <2>2, Zenon
<1>6. CASE AcceptKeyed(s)
  <2>1. state[Lease(s)] = "Unused"
    BY <1>6, <1>l DEF AcceptKeyed, LeaseOf, Using
  <2> DEFINE q == [sess[s] EXCEPT
              !.peer = "None",
              !.phase = IF Shape[sess[s].protocol].run = "echo" THEN "Echo" ELSE "Route"]
  <2>2. q.phase \in {"Echo", "Route"} /\ q.request = r.request
    BY DEF Sound, Whole
  <2>3. state[Lease(s)] \in LeaseOf(q)
    BY <2>1, <2>2 DEF LeaseOf, Using
  <2> QED BY <1>6, <1>p, <1>u, <2>1, <2>2, <2>3, Zenon DEF AcceptKeyed, Refuse
<1>7. CASE ReadRequest(s)
  <2> DEFINE q == [sess[s] EXCEPT
          !.phase = IF Shape[sess[s].protocol].run = "udp" THEN "Associate" ELSE "Route"]
  <2>1. q.request = r.request /\ state[Lease(s)] \in LeaseOf(q)
    BY <1>7, <1>l DEF ReadRequest, LeaseOf, Using, Sound, Whole, Placed, Chosen, BeforeRoute, OnPath
  <2> QED BY <1>7, <1>p, <2>1, Zenon DEF ReadRequest
<1>8. CASE Malformed(s)
  <2>1. \E outcome : Private(s, Over(s, "Report", outcome))
    BY <1>8, Zenon DEF Malformed, Refuse
  <2>2. state[Lease(s)] \in {"Unused", "Dropped"}
    BY <1>8, <1>l, Zenon DEF Malformed, AwaitsClient, LeaseOf, Using
  <2> QED BY <1>u, <2>1, <2>2, Zenon
<1>9. CASE HandshakeTimeout(s)
  <2>1. \E outcome : Private(s, Over(s, "Report", outcome))
    BY <1>9, Zenon DEF HandshakeTimeout, Refuse
  <2>2. state[Lease(s)] \in {"Unused", "Dropped"}
    BY <1>9, <1>l, Zenon DEF HandshakeTimeout, AwaitsClient, LeaseOf, Using
  <2> QED BY <1>u, <2>1, <2>2, Zenon
<1>10. CASE SendEarlySuccess(s)
  <2> DEFINE q == [sess[s] EXCEPT !.phase = "Route", !.reply = "Success", !.started = TRUE]
  <2>1. q.request = r.request /\ state[Lease(s)] \in LeaseOf(q)
    BY <1>10, <1>l DEF SendEarlySuccess, LeaseOf, Using, Sound, Whole, Placed, Chosen, BeforeRoute, OnPath
  <2> QED BY <1>10, <1>p, <2>1, Zenon DEF SendEarlySuccess
<1>11. CASE GiveUp(s)
  <2>1. \E outcome : Private(s, Over(s, "Done", outcome))
    BY <1>11, Zenon DEF GiveUp
  <2>2. state[Lease(s)] \in {"Unused", "Dropped"}
    BY <1>11, <1>l, Zenon DEF GiveUp, AwaitsClient, LeaseOf, Using
  <2> QED BY <1>u, <2>1, <2>2, Zenon
<1>12. CASE SelectDirect(s)
  <2> DEFINE q == [sess[s] EXCEPT !.phase = "Connect", !.chain = <<>>]
  <2>1. q.request = r.request /\ state[Lease(s)] \in LeaseOf(q)
    BY <1>12, <1>l DEF SelectDirect, LeaseOf, Using, Sound, Whole, Placed, Chosen, BeforeRoute, OnPath
  <2> QED BY <1>12, <1>p, <2>1, Zenon DEF SelectDirect
<1>13. CASE RouteRefused(s) \/ ExpectationFailed(s) \/ AssociateTimeout(s)
  BY <1>13, <1>r, Zenon DEF RouteRefused, ExpectationFailed, AssociateTimeout
<1>14. CASE SendFailure(s) \/ SuccessNotSent(s) \/ RelayEnds(s) \/ ForwardEnds(s)
  BY <1>14, <1>d, Zenon DEF SendFailure, SuccessNotSent, RelayEnds, ForwardEnds, Return
<1>15. CASE ConnectDirect(s)
  <2> DEFINE q == [sess[s] EXCEPT !.path = <<1>>, !.phase = "Reply"]
  <2>1. q.request = r.request /\ state[Lease(s)] \in LeaseOf(q)
    BY <1>15, <1>l DEF ConnectDirect, LeaseOf, Using, Sound, Whole, Placed, Chosen, BeforeRoute, OnPath
  <2> QED BY <1>15, <1>p, <2>1, Zenon DEF ConnectDirect
<1>16. CASE OpenFirstHop(s)
  <2> DEFINE q == [sess[s] EXCEPT
          !.path = IF "h3" \in sess[s].chain[1] THEN <<1, 2>> ELSE <<1>>]
  <2>1. q.request = r.request /\ state[Lease(s)] \in LeaseOf(q)
    BY <1>16, <1>l DEF OpenFirstHop, LeaseOf, Using, Sound, Whole, Placed, Chosen, BeforeRoute, OnPath
  <2> QED BY <1>16, <1>p, <2>1, Zenon DEF OpenFirstHop
<1>17. CASE HopHandshake(s)
  <2> DEFINE hop == sess[s].hop
             path == IF ApplicationProtocols(sess[s].chain[hop]) = {} THEN sess[s].path
                     ELSE Append(sess[s].path, hop + 1)
             q == [sess[s] EXCEPT !.path = path, !.hop = hop + 1,
                      !.phase = IF hop = Len(sess[s].chain) THEN "Opened" ELSE "Connect"]
  <2>1. Private(s, q) /\ r.phase = "Connect" /\ r.path # <<>>
    BY <1>17, Zenon DEF HopHandshake
  <2> HIDE DEF path
  <2>2. q.phase \in {"Opened", "Connect"} /\ q.request = r.request /\ q.chain = r.chain
    BY DEF Sound, Whole
  <2>3. r.chain # <<>>
    BY <2>1 DEF Sound, Whole, Chosen, Chains
  <2>4. state[Lease(s)] \in LeaseOf(q)
    BY <1>l, <2>1, <2>2, <2>3 DEF LeaseOf
  <2> QED BY <1>p, <2>1, <2>2, <2>4, Zenon
<1>18. CASE LeaveInFlight(s)
  <2>1. sess'[s] = r /\ r.phase = "Opened"
    BY <1>18 DEF LeaveInFlight, WithLease, SessionType
  <2>2. "Transferred" \in LeaseOf(sess'[s])
    BY <2>1, Zenon DEF LeaseOf
  <2> QED BY <1>18, <2>1, <2>2, Zenon DEF LeaveInFlight, EstablishedSub, Carried
<1>19. CASE EnterActive(s)
  <2>1. sess'[s].phase = "Reply" /\ sess'[s].chain = r.chain /\ sess'[s].request = r.request
    BY <1>19 DEF EnterActive, WithLease, SessionType, Sound, Whole
  <2>2. r.chain # <<>>
    BY <1>19 DEF EnterActive, Sound, Chosen
  <2>3. "Active" \in LeaseOf(sess'[s])
    BY <2>1, <2>2, Zenon DEF LeaseOf, Using
  <2> QED BY <1>19, <2>1, <2>3, Zenon DEF EnterActive, EstablishedAdd, Carried
<1>20. CASE OpenFails(s)
  <2>1. sess'[s].phase = "Refuse" /\ sess'[s].request = r.request
    BY <1>20 DEF OpenFails, WithLease, SessionType, Sound, Whole
  <2>2. LeaseOf(sess'[s]) = {"Unused", "Active", "Dropped"}
    BY <2>1, Zenon DEF LeaseOf, Using
  <2>3. \E st \in {"Unused", "Dropped"} : state' = [state EXCEPT ![Lease(s)] = st]
    BY <1>20, Dropping, Zenon DEF OpenFails
  <2> QED BY <2>1, <2>2, <2>3, Zenon DEF Carried
<1>21. CASE SendSuccess(s)
  <2>1. UNCHANGED vars /\ r.phase = "Reply"
    BY <1>21, Zenon DEF SendSuccess, Private
  <2>2. sess'[s].request = r.request /\ sess'[s].chain = r.chain
    BY <1>21 DEF SendSuccess, Private, SessionType, Sound, Whole
  <2>3. \/ sess'[s].phase \in {"Upload", "Relay"}
        \/ sess'[s].phase = "Udp" /\ Shape[r.protocol].run = "udp"
    BY <1>21, Zenon DEF SendSuccess, Private, SessionType, Sound, Whole
  <2>4. sess'[s].phase = "Udp" => r.chain = <<>>
    BY <2>1, <2>3, Zenon DEF Sound, Chosen
  <2>5. state[Lease(s)] \in LeaseOf(sess'[s])
    BY <1>l, <2>1, <2>2, <2>3, <2>4, Zenon DEF LeaseOf, Using
  <2> QED BY <1>k, <2>1, <2>2, <2>5, Zenon DEF Carried
<1>22. CASE UploadRequest(s)
  <2> DEFINE q == [sess[s] EXCEPT !.phase = "Response"]
  <2>1. r.phase = "Upload"
    BY <1>22 DEF UploadRequest
  <2>2. q.phase \in Using /\ q.request = r.request /\ q.chain = r.chain
    BY DEF Using, Sound, Whole
  <2>3. state[Lease(s)] \in LeaseOf(q)
    BY <1>l, <2>1, <2>2 DEF LeaseOf, Using
  <2> QED BY <1>22, <1>d, <1>p, <1>r, <2>1, <2>2, <2>3, Zenon DEF UploadRequest, Return, Using
<1>23. CASE ForwardResponse(s)
  <2> DEFINE q == [sess[s] EXCEPT !.phase = "Idle", !.reply = "Success"]
  <2>1. r.phase = "Response"
    BY <1>23 DEF ForwardResponse
  <2>2. q.phase \in Using /\ q.request = r.request /\ q.chain = r.chain
    BY DEF Using, Sound, Whole
  <2>3. state[Lease(s)] \in LeaseOf(q)
    BY <1>l, <2>1, <2>2 DEF LeaseOf, Using
  <2> QED BY <1>23, <1>d, <1>p, <1>r, <2>1, <2>2, <2>3, Zenon DEF ForwardResponse, Return, Using
<1>24. CASE CreateAssociation(s)
  <2> DEFINE q == [sess[s] EXCEPT !.phase = "Reply"]
  <2>1. r.phase = "Associate"
    BY <1>24 DEF CreateAssociation
  <2>2. q.phase = "Reply" /\ q.request = r.request /\ q.chain = <<>>
    BY <2>1 DEF Sound, Whole, Chosen, OnPath, Using
  <2>3. state[Lease(s)] \in LeaseOf(q)
    BY <1>l, <2>1, <2>2 DEF LeaseOf, Using
  <2> QED BY <1>24, <1>p, <1>r, <2>1, <2>2, <2>3, Zenon DEF CreateAssociation
<1>25. CASE ControlEnds(s)
  <2>1. \E outcome : Private(s, Over(s, "Report", outcome))
    BY <1>25, Zenon DEF ControlEnds, Refuse
  <2>2. state[Lease(s)] \in {"Unused", "Dropped"}
    BY <1>25, <1>l, Zenon DEF ControlEnds, AwaitsClient, LeaseOf, Using
  <2> QED BY <1>u, <2>1, <2>2, Zenon
<1>26. CASE RecordSession(s)
  <2> DEFINE q == [sess[s] EXCEPT !.phase = "Done", !.recorded = sess[s].recorded + 1, !.outcome = "None"]
  <2>1. q.request = r.request /\ state[Lease(s)] \in LeaseOf(q)
    BY <1>26, <1>l DEF RecordSession, LeaseOf, Using, Sound, Whole, Placed, Chosen, BeforeRoute, OnPath
  <2> QED BY <1>26, <1>p, <2>1, Zenon DEF RecordSession
<1>27. CASE Cancel(s)
  <2>1. \E phase \in {"Report", "Done"} : WithLease(s, Over(s, phase, "Cancelled"))
    BY <1>27, Zenon DEF Cancel
  <2> QED BY <1>27, <1>d, <2>1, Zenon DEF Cancel
<1> QED
  BY <1>1, <1>2, <1>3, <1>4, <1>5, <1>6, <1>7, <1>8, <1>9, <1>10, <1>11, <1>12, <1>13,
     <1>14, <1>15, <1>16, <1>17, <1>18, <1>19, <1>20, <1>21, <1>22, <1>23, <1>24,
     <1>25, <1>26, <1>27, Zenon
     DEF Step, Login, Routed
-----------------------------------------------------------------------------
(* A step of session s touches no other session, and of the leases only    *)
(* the one of its current request.                                         *)
Moves(s) ==
    /\ config' = config /\ DOMAIN sess' = Sessions
    /\ \A t \in Sessions \ {s} : sess'[t] = sess[t]
    /\ UNCHANGED leaseVars \/ LeaseStep(Lease(s))

(* No action of a session writes another session's record, and each drives *)
(* at most the lease of the request it serves.                             *)
LEMMA StepMoves ==
    ASSUME NEW s \in Sessions, SessionType, Step(s)
    PROVE  Moves(s)
<1>1. ASSUME NEW q, sess' = [sess EXCEPT ![s] = q]
      PROVE  DOMAIN sess' = Sessions /\ \A t \in Sessions \ {s} : sess'[t] = sess[t]
  BY <1>1 DEF SessionType
<1>2. ASSUME NEW q, Private(s, q) PROVE Moves(s)
  BY <1>1, <1>2, Zenon DEF Moves, Private, vars, leaseVars
<1>3. ASSUME NEW q, WithLease(s, q), UNCHANGED leaseVars \/ LeaseStep(Lease(s)) PROVE Moves(s)
  BY <1>1, <1>3, Zenon DEF Moves, WithLease
<1>4. DropLease(s) => UNCHANGED leaseVars \/ LeaseStep(Lease(s))
  BY Zenon DEF DropLease, LeaseStep
<1>5. CASE LookupPeer(s)
  <2>1. DOMAIN sess' = Sessions /\ \A t \in Sessions \ {s} : sess'[t] = sess[t]
    BY <1>5 DEF LookupPeer, SessionType
  <2> QED BY <1>5, <2>1, Zenon DEF LookupPeer, Moves, vars, leaseVars
<1>6. CASE LoginFromCache(s) \/ LoginWithCredentials(s) \/ LoginOpen(s)
  <2>1. config' = config /\ UNCHANGED vars /\ sess' = [sess EXCEPT ![s] = Admitted(s)]
    BY <1>6, Zenon DEF LoginFromCache, LoginWithCredentials, LoginOpen, Admit
  <2> QED BY <1>1, <2>1, Zenon DEF Moves, vars, leaseVars
<1>7. CASE \/ \E peer \in Peers, protocol \in config.protocols : Accept(s, peer, protocol)
           \/ LoginFails(s) \/ AcceptKeyed(s) \/ ReadRequest(s) \/ Malformed(s)
           \/ HandshakeTimeout(s) \/ SendEarlySuccess(s) \/ GiveUp(s)
  BY <1>2, <1>7, Zenon
     DEF Accept, LoginFails, AcceptKeyed, ReadRequest, Malformed, HandshakeTimeout,
         SendEarlySuccess, GiveUp, Refuse
<1>8. CASE \/ SelectDirect(s) \/ RouteRefused(s) \/ ExpectationFailed(s) \/ ConnectDirect(s)
           \/ OpenFirstHop(s) \/ HopHandshake(s) \/ SendSuccess(s)
           \/ CreateAssociation(s) \/ AssociateTimeout(s) \/ ControlEnds(s) \/ RecordSession(s)
  BY <1>2, <1>8, Zenon
     DEF SelectDirect, RouteRefused, ExpectationFailed, ConnectDirect, OpenFirstHop,
         HopHandshake, SendSuccess, CreateAssociation, AssociateTimeout, ControlEnds,
         RecordSession, Refusing, Refuse
<1>9. CASE \/ \E u \in Upstreams : SelectUpstream(s, u)
           \/ LeaveInFlight(s) \/ EnterActive(s)
  BY <1>3, <1>9, Zenon DEF SelectUpstream, LeaveInFlight, EnterActive, LeaseStep
<1>10. CASE \/ SendFailure(s) \/ SuccessNotSent(s) \/ RelayEnds(s) \/ ForwardEnds(s)
            \/ OpenFails(s) \/ NextRequest(s) \/ Cancel(s)
  BY <1>3, <1>4, <1>10, Zenon
     DEF SendFailure, SuccessNotSent, RelayEnds, ForwardEnds, OpenFails, NextRequest, Cancel, Return
<1>11. CASE UploadRequest(s) \/ ForwardResponse(s)
  BY <1>2, <1>3, <1>4, <1>11, Zenon DEF UploadRequest, ForwardResponse, Refusing, Return
<1> QED
  BY <1>5, <1>6, <1>7, <1>8, <1>9, <1>10, <1>11, Zenon DEF Step, Login, Routed

(* A lease belongs to one session: no other session's step can disturb it. *)
LEMMA OthersOwned ==
    ASSUME NEW s \in Sessions, NEW t \in Sessions, t # s, LeaseShape, Owned(t), Moves(s),
           NEW st, state' = [state EXCEPT ![Lease(s)] = st]
    PROVE  Owned(t)'
<1>1. \A n : <<t, n>> # Lease(s)
  BY DEF Lease
<1>2. \A n \in 1..MaxRequests : state'[<<t, n>>] = state[<<t, n>>]
  BY <1>1, SessionAssumption, Zenon DEF LeaseShape
<1>3. sess'[t] = sess[t]
  BY Zenon DEF Moves
<1>4. Lease(t)' = Lease(t) /\ state'[Lease(t)] = state[Lease(t)]
  BY <1>1, <1>3 DEF Lease, LeaseShape
<1>5. state'[Lease(t)'] \in LeaseOf(sess'[t])
  BY <1>3, <1>4, Zenon DEF Owned
<1> QED BY <1>2, <1>3, <1>5, Zenon DEF Owned

(* The stepping session owns what the session it becomes may own.          *)
LEMMA MoverOwned ==
    ASSUME NEW s \in Sessions, LeaseShape, Whole(sess[s]), Owned(s), Carried(s)
    PROVE  Owned(s)' /\ \E st : state' = [state EXCEPT ![Lease(s)] = st]
<1>1. PICK st \in LeaseOf(sess'[s]) : state' = [state EXCEPT ![Lease(s)] = st]
  BY Zenon DEF Carried
<1>2. Lease(s)' = Lease(s) /\ Lease(s) \in Leases
  BY SessionAssumption, Zenon DEF Lease, Carried, Whole
<1>3. state'[Lease(s)'] \in LeaseOf(sess'[s])
  BY <1>1, <1>2, Zenon DEF LeaseShape
<1>4. \A n \in 1..MaxRequests : n # sess[s].request => state'[<<s, n>>] = state[<<s, n>>]
  BY <1>1, SessionAssumption, Zenon DEF Lease, LeaseShape
<1>5. \A n \in 1..MaxRequests :
         /\ n < sess'[s].request => state'[<<s, n>>] \in {"Unused", "Dropped"}
         /\ n > sess'[s].request => state'[<<s, n>>] = "Unused"
  <2>1. sess'[s].request = sess[s].request /\ sess[s].request \in 1..MaxRequests
    BY Zenon DEF Carried, Whole
  <2>2. \A n, m \in 1..MaxRequests : (n < m => n # m) /\ (n > m => n # m)
    OBVIOUS
  <2> QED BY <1>4, <2>1, <2>2, Zenon DEF Owned
<1> QED BY <1>1, <1>3, <1>5, Zenon DEF Owned

(* The next request starts with a lease nobody has used, and the last      *)
(* one's is dropped.                                                       *)
LEMMA NextRequestOwned ==
    ASSUME NEW s \in Sessions, SessionType, LeaseShape, Sound(sess[s]), Owned(s), NextRequest(s)
    PROVE  Owned(s)' /\ \E st : state' = [state EXCEPT ![Lease(s)] = st]
<1>1. PICK st \in {"Unused", "Dropped"} : state' = [state EXCEPT ![Lease(s)] = st]
  BY Dropping, Zenon DEF NextRequest
<1>2. /\ sess'[s].phase = "Route" /\ sess'[s].chain = <<>>
      /\ sess'[s].request = sess[s].request + 1 /\ sess[s].request < MaxRequests
  BY DEF NextRequest, WithLease, SessionType, Sound, Whole
<1>3. sess[s].request \in 1..MaxRequests /\ sess'[s].request \in 1..MaxRequests
  <2>1. sess[s].request \in 1..MaxRequests
    BY Zenon DEF Sound, Whole
  <2>2. \A n \in 1..MaxRequests : n < MaxRequests => n + 1 \in 1..MaxRequests
    BY SessionAssumption
  <2> QED BY <1>2, <2>1, <2>2, Zenon
<1>4. Lease(s) \in Leases /\ Lease(s)' = <<s, sess'[s].request>>
  BY <1>3, SessionAssumption, Zenon DEF Lease
<1>5. \A n \in 1..MaxRequests :
         state'[<<s, n>>] = IF n = sess[s].request THEN st ELSE state[<<s, n>>]
  BY <1>1, <1>4, SessionAssumption, Zenon DEF Lease, LeaseShape
<1>6. LeaseOf(sess'[s]) = {"Unused"}
  BY <1>2, Zenon DEF LeaseOf, Using
<1>0. \A n \in 1..MaxRequests :
         /\ n < sess'[s].request => n = sess[s].request \/ n < sess[s].request
         /\ n >= sess'[s].request => n # sess[s].request /\ n > sess[s].request
  <2>1. \A n, m \in 1..MaxRequests : /\ n < m + 1 => n = m \/ n < m
                                     /\ n >= m + 1 => n # m /\ n > m
    OBVIOUS
  <2>2. PICK m \in 1..MaxRequests : m = sess[s].request /\ m + 1 = sess'[s].request
    BY <1>2, <1>3, Zenon
  <2>3. \A n \in 1..MaxRequests : /\ n < m + 1 => n = m \/ n < m
                                  /\ n >= m + 1 => n # m /\ n > m
    BY <2>1, Zenon
  <2> QED BY <2>2, <2>3, Zenon
<1>a. \A n \in 1..MaxRequests :
         /\ n < sess[s].request => state[<<s, n>>] \in {"Unused", "Dropped"}
         /\ n > sess[s].request => state[<<s, n>>] = "Unused"
  BY Zenon DEF Owned
<1>b. /\ sess'[s].request >= sess'[s].request
      /\ \A n \in 1..MaxRequests : n > sess'[s].request => n >= sess'[s].request
  BY <1>3
<1>7. state'[Lease(s)'] = "Unused"
  BY <1>0, <1>a, <1>b, <1>3, <1>4, <1>5, Zenon
<1>8. \A n \in 1..MaxRequests :
         /\ n < sess'[s].request => state'[<<s, n>>] \in {"Unused", "Dropped"}
         /\ n > sess'[s].request => state'[<<s, n>>] = "Unused"
  BY <1>0, <1>a, <1>b, <1>5, Zenon
<1> QED BY <1>1, <1>6, <1>7, <1>8, Zenon DEF Owned
-----------------------------------------------------------------------------
(* The inductive invariant of the sessions and their leases. *)
SessionInv ==
    /\ SessionType /\ LeaseShape /\ AccountingExact
    /\ \A s \in Sessions : Sound(sess[s]) /\ Owned(s)

(* A connection that has not been accepted holds nothing. *)
LEMMA FreshSound == Sound(Fresh) /\ LeaseOf(Fresh) = {"Unused"} /\ Fresh.request = 1
<1>1. 1 \in 1..MaxRequests
  BY SessionAssumption
<1>2. Sound(Fresh)
  <2>1. Whole(Fresh)
    BY <1>1, EmptyTyped, Zenon DEF Fresh, Whole
  <2>2. Placed(Fresh)
    BY Zenon DEF Fresh, Placed, OnPath, Using, BeforeRoute
  <2>3. Recorded(Fresh)
    <3>1. /\ Fresh.phase = "Closed" /\ Fresh.recorded = 0
      BY Zenon DEF Fresh
    <3>2. /\ 0 \in {0, 1} /\ 0 # 1 /\ "Closed" \notin {"Accept", "Login"} /\ "Closed" # "Done"
          /\ "Closed" \in {"Closed", "Accept", "Login", "Greet", "Done"}
      OBVIOUS
    <3> QED BY <3>1, <3>2, Zenon DEF Recorded
  <2>4. Chosen(Fresh)
    BY Zenon DEF Fresh, Chosen, OnPath, Using, BeforeRoute
  <2> QED BY <2>1, <2>2, <2>3, <2>4 DEF Sound
<1>3. LeaseOf(Fresh) = {"Unused"} /\ Fresh.request = 1
  BY Zenon DEF Fresh, LeaseOf, Using
<1> QED BY <1>2, <1>3

(* SessionInv holds when the listener starts. *)
LEMMA InitSessionInv == SessionInit => SessionInv
<1> SUFFICES ASSUME SessionInit PROVE SessionInv
  OBVIOUS
<1>1. LeaseShape
  BY DEF SessionInit, LeaseInit, LeaseShape, LeaseStates
<1>2. AccountingExact
  <2>1. \A u \in Upstreams : Held("Pending", u) = {} /\ Held("Active", u) = {}
    BY Zenon DEF SessionInit, LeaseInit, Held
  <2>2. \A u \in Upstreams : in_flight[u] = 0 /\ active[u] = 0
    BY Zenon DEF SessionInit, LeaseInit
  <2> QED BY <2>1, <2>2, FS_EmptySet, Zenon DEF AccountingExact
<1>3. SessionType
  BY Zenon DEF SessionInit, SessionType
<1>4. ASSUME NEW s \in Sessions PROVE Sound(sess[s]) /\ Owned(s)
  <2>1. sess[s] = Fresh
    BY DEF SessionInit
  <2>2. \A n \in 1..MaxRequests : state[<<s, n>>] = "Unused"
    BY SessionAssumption, Zenon DEF SessionInit, LeaseInit
  <2>3. state[Lease(s)] = "Unused"
    BY <2>1, <2>2, FreshSound, SessionAssumption DEF Lease
  <2> QED BY <2>1, <2>2, <2>3, FreshSound, Zenon DEF Owned
<1> QED BY <1>1, <1>2, <1>3, <1>4 DEF SessionInv

(* Every step of every session, and of the clock, keeps SessionInv. *)
LEMMA NextSessionInv == SessionInv /\ [SessionNext]_allVars => SessionInv'
<1> SUFFICES ASSUME SessionInv, [SessionNext]_allVars PROVE SessionInv'
  OBVIOUS
<1>1. ASSUME NEW s \in Sessions, Step(s) PROVE SessionInv'
  <2>1. /\ SessionType /\ LeaseShape /\ AccountingExact /\ Sound(sess[s]) /\ Owned(s)
        /\ Whole(sess[s])
    BY DEF SessionInv, Sound
  <2>2. Moves(s)
    BY <1>1, <2>1, StepMoves, Zenon
  <2>3. Lease(s) \in Leases
    BY <2>1, SessionAssumption, Zenon DEF Lease, Whole
  <2>4. LeaseShape' /\ AccountingExact'
    BY <2>1, <2>2, <2>3, LeaseStepExact, LeasesStayExact, Zenon DEF Moves
  <2>5. Owned(s)' /\ \E st : state' = [state EXCEPT ![Lease(s)] = st]
    BY <1>1, <2>1, StepCarries, MoverOwned, NextRequestOwned, Zenon
  <2>6. Sound(sess'[s])
    BY <1>1, <2>1, StepSound, Zenon
  <2>7. ASSUME NEW t \in Sessions, t # s PROVE Sound(sess'[t]) /\ Owned(t)'
    <3>1. Sound(sess[t]) /\ Owned(t)
      BY Zenon DEF SessionInv
    <3>2. Owned(t)'
      BY <2>1, <2>2, <2>5, <2>7, <3>1, OthersOwned, Zenon
    <3> QED BY <2>2, <2>7, <3>1, <3>2, Zenon DEF Moves
  <2>8. SessionType'
    BY <2>1, <2>2, Zenon DEF SessionType, Moves
  <2> QED BY <2>4, <2>5, <2>6, <2>7, <2>8, Zenon DEF SessionInv
<1>2. ASSUME UNCHANGED <<vars, config, sess>> PROVE SessionInv'
  <2>1. SessionType'
    BY <1>2 DEF SessionInv, SessionType
  <2>2. LeaseShape' /\ AccountingExact'
    BY <1>2, LeasesStayExact DEF SessionInv, vars, leaseVars
  <2>3. \A s \in Sessions : Sound(sess[s])' /\ Owned(s)'
    BY <1>2, Zenon DEF SessionInv, Owned, Lease, vars
  <2> QED BY <1>2, <2>1, <2>2, <2>3 DEF SessionInv
<1>3. CASE Clock
  BY <1>2, <1>3 DEF Clock, sessionVars
<1>4. CASE UNCHANGED allVars
  BY <1>2, <1>4 DEF allVars, sessionVars
<1> QED BY <1>1, <1>3, <1>4 DEF SessionNext

(* For any number of sessions, every session's record agrees with its      *)
(* phase, and the lease of its request is where the phase says.            *)
THEOREM SessionInductive == SessionSpec => []SessionInv
  BY InitSessionInv, NextSessionInv, PTL DEF SessionSpec

(* For any number of sessions, requests and upstreams, a lease lives       *)
(* exactly as long as the part of the session that needs it, and the       *)
(* counters of the upstreams are exact.                                    *)
THEOREM LeasesFollowSessions == SessionSpec => []LeaseFollowsSession
<1>1. SessionInv => LeaseFollowsSession
  <2> SUFFICES ASSUME SessionInv PROVE LeaseFollowsSession
    OBVIOUS
  <2>1. ASSUME NEW l \in Leases, state[l] \in {"Pending", "Transferred", "Active"}
        PROVE  /\ l = Lease(l[1])
               /\ sess[l[1]].phase \in Using \cup {"Connect", "Opened", "Refuse"}
    <3>1. PICK s \in Sessions, n \in 1..MaxRequests : l = <<s, n>>
      BY SessionAssumption
    <3>2. Owned(s) /\ sess[s].request \in 1..MaxRequests
      BY Zenon DEF SessionInv, Sound, Whole
    <3>3. n = sess[s].request
      <4>1. \A i, j \in 1..MaxRequests : i = j \/ i < j \/ i > j
        OBVIOUS
      <4>2. state[<<s, n>>] \notin {"Unused", "Dropped"} /\ state[<<s, n>>] # "Unused"
        BY <2>1, <3>1
      <4> QED BY <3>2, <4>1, <4>2, Zenon DEF Owned
    <3>4. state[Lease(s)] \in LeaseOf(sess[s]) /\ l = Lease(s) /\ l[1] = s
      BY <3>1, <3>2, <3>3, Zenon DEF Owned, Lease
    <3> QED BY <2>1, <3>4, Zenon DEF LeaseOf
  <2>2. ASSUME NEW s \in Sessions, sess[s].chain # <<>>
        PROVE  /\ sess[s].phase = "Connect" => state[Lease(s)] = "Pending"
               /\ sess[s].phase \in Using => state[Lease(s)] = "Active"
    BY <2>2, Zenon DEF SessionInv, Owned, LeaseOf, Using
  <2> QED BY <2>1, <2>2, Zenon DEF LeaseFollowsSession, SessionInv
<1> QED BY <1>1, SessionInductive, PTL

(* For any number of sessions, a session that was counted and is over was  *)
(* recorded exactly once, unless connection_cancel dropped it, and one     *)
(* that was not counted is never recorded (record_session).                *)
THEOREM AlwaysReportedOnce == SessionSpec => []ReportedOnce
<1>1. SessionInv => ReportedOnce
  <2> SUFFICES ASSUME SessionInv, NEW s \in Sessions PROVE
        /\ sess[s].recorded <= 1
        /\ sess[s].recorded = 1 => sess[s].started /\ sess[s].phase = "Done"
        /\ sess[s].phase = "Done" /\ sess[s].started =>
              \/ sess[s].recorded = 1
              \/ sess[s].outcome = "Cancelled" /\ sess[s].protocol # "http2"
    BY Zenon DEF ReportedOnce
  <2>1. Recorded(sess[s])
    BY Zenon DEF SessionInv, Sound
  <2>2. sess[s].recorded <= 1
    <3>1. sess[s].recorded \in {0, 1}
      BY <2>1, Zenon DEF Recorded
    <3>2. \A n \in {0, 1} : n <= 1
      OBVIOUS
    <3> QED BY <3>1, <3>2, Zenon
  <2> QED BY <2>1, <2>2, Zenon DEF Recorded
<1> QED BY <1>1, SessionInductive, PTL
-----------------------------------------------------------------------------
(* The first n nodes of a path. *)
Upto(n) == [i \in 1..n |-> i]

(* How far a session's path reaches if its chain names every node: as far  *)
(* as the hops that have made their handshake, and to the destination once *)
(* the chain is opened.  A client whose success comes late is told of it   *)
(* only then.                                                              *)
Reach(r) ==
    /\ r.phase = "Connect" /\ r.path # <<>> =>
          r.path = Upto(IF r.hop = 1 /\ "h3" \in r.chain[1] THEN 2 ELSE r.hop)
    /\ r.phase = "Opened" => r.path = Upto(Len(r.chain) + 1)
    /\ r.phase \in Using =>
          r.path = Upto(Len(r.chain) + 1) \/ (r.phase = "Reply" /\ Shape[r.protocol].run = "udp")

Opening(r) ==
    /\ NamesEveryNode(r.chain) => Reach(r)
    /\ r.phase = "Greet" => Shape[r.protocol].reply = "early"
    /\ r.phase \in {"Upload", "Response", "Idle"} => Shape[r.protocol].run = "forward"
    /\ r.reply = "Success" /\ Shape[r.protocol].reply = "late" =>
          r.phase \in {"Relay", "Idle"} \/ (r.phase = "Udp" /\ Shape[r.protocol].run = "udp")

(* The paths execute_with_metadata can start with. *)
LEMMA UptoSmall == <<>> = Upto(0) /\ <<1>> = Upto(1) /\ <<1, 2>> = Upto(2)
  BY DEF Upto

(* Naming the next node to a path extends it by that node. *)
LEMMA UptoAppend ==
    ASSUME NEW n \in Nat
    PROVE  Append(Upto(n), n + 1) = Upto(n + 1)
<1>1. Upto(n) \in Seq(Nat) /\ Len(Upto(n)) = n
  BY DEF Upto
<1>2. /\ Append(Upto(n), n + 1) \in Seq(Nat) /\ Len(Append(Upto(n), n + 1)) = n + 1
      /\ \A i \in 1..n : Append(Upto(n), n + 1)[i] = Upto(n)[i]
      /\ Append(Upto(n), n + 1)[n + 1] = n + 1
  BY <1>1
<1>3. \A i \in 1..(n + 1) : Append(Upto(n), n + 1)[i] = i
  BY <1>2 DEF Upto
<1> QED BY <1>2, <1>3 DEF Upto

(* A session that has told of no success, or told of it early, goes on     *)
(* with its path as far open as its next phase says.                       *)
LEMMA GoesOn ==
    ASSUME NEW r, NEW q, Opening(r), r.phase \notin {"Relay", "Idle", "Udp"},
           q.reply = r.reply, q.protocol = r.protocol,
           q.phase \in {"Login", "Greet", "Request", "Route", "Connect", "Opened", "Reply", "Refuse"},
           q.phase = "Greet" => Shape[q.protocol].reply = "early",
           NamesEveryNode(q.chain) =>
              /\ q.phase = "Connect" /\ q.path # <<>> =>
                    q.path = Upto(IF q.hop = 1 /\ "h3" \in q.chain[1] THEN 2 ELSE q.hop)
              /\ q.phase \in {"Opened", "Reply"} => q.path = Upto(Len(q.chain) + 1)
    PROVE  Opening(q)
<1>1. r.reply = "Success" => Shape[r.protocol].reply # "late"
  BY Zenon DEF Opening
<1> QED BY <1>1, Zenon DEF Opening, Reach, Using

(* A session without a chain that is told nothing has nothing to open.     *)
LEMMA StartsOver ==
    ASSUME NEW q, q.chain = <<>>, q.reply = "None",
           q.phase \notin {"Connect", "Opened", "Greet"} \cup Using
    PROVE  Opening(q)
  BY DEF Opening, Reach, Using

(* A session that is told of success, or forwards, has the path it had     *)
(* when the reply was due.                                                 *)
LEMMA Tells ==
    ASSUME NEW r, NEW q, Opening(r), r.phase = "Reply",
           q.chain = r.chain, q.path = r.path, q.protocol = r.protocol,
           q.phase = IF Shape[r.protocol].run = "forward" THEN "Upload"
                     ELSE IF Shape[r.protocol].run = "udp" THEN "Udp" ELSE "Relay",
           q.reply = IF Shape[r.protocol].reply = "late" /\ Shape[r.protocol].run # "forward"
                     THEN "Success" ELSE r.reply
    PROVE  Opening(q)
<1>1. /\ NamesEveryNode(r.chain) =>
            r.path = Upto(Len(r.chain) + 1) \/ Shape[r.protocol].run = "udp"
      /\ r.reply = "Success" => Shape[r.protocol].reply # "late"
  BY Zenon DEF Opening, Reach, Using
<1> QED BY <1>1, Zenon DEF Opening, Reach, Using

(* A session whose frames are gone has no path. *)
LEMMA OverOpens ==
    ASSUME NEW s \in Sessions, NEW phase \in {"Report", "Done"}, NEW outcome
    PROVE  Opening(Over(s, phase, outcome))
<1>1. /\ Over(s, phase, outcome).phase = phase /\ Over(s, phase, outcome).chain = <<>>
      /\ Over(s, phase, outcome).reply = "None"
  BY DEF Over, Fresh
<1> QED BY <1>1, StartsOver, Zenon DEF Using

(* Every step extends the path by the node that was named, and tells of    *)
(* success only when it is whole.                                          *)
LEMMA StepOpens ==
    ASSUME NEW s \in Sessions, SessionType, Sound(sess[s]), Opening(sess[s]), Step(s)
    PROVE  Opening(sess'[s])
<1> DEFINE r == sess[s]
<1>o. ASSUME NEW phase \in {"Report", "Done"}, NEW outcome,
             sess' = [sess EXCEPT ![s] = Over(s, phase, outcome)]
      PROVE  Opening(sess'[s])
  <2>1. sess'[s] = Over(s, phase, outcome)
    BY <1>o DEF SessionType
  <2> QED BY <2>1, OverOpens, Zenon
<1>r. ASSUME NEW outcome, Refusing(s, outcome), r.phase \in {"Route", "Associate", "Upload", "Response"}
      PROVE  Opening(sess'[s])
  <2>1. sess'[s].phase = "Refuse" /\ sess'[s].reply = r.reply /\ sess'[s].protocol = r.protocol
    BY <1>r DEF Refusing, Private, SessionType, Sound, Whole
  <2>2. r.phase \notin {"Relay", "Idle", "Udp"}
    BY <1>r
  <2> QED BY <2>1, <2>2, GoesOn, Zenon
<1>1. CASE \E peer \in Peers, protocol \in config.protocols : Accept(s, peer, protocol)
  <2>1. PICK peer \in Peers, protocol \in config.protocols : Accept(s, peer, protocol)
    BY <1>1, Zenon
  <2>2. sess'[s].phase = "Accept" /\ sess'[s].chain = <<>> /\ sess'[s].reply = "None"
    BY <2>1 DEF Accept, Private, Fresh, SessionType
  <2> QED BY <2>2, StartsOver, Zenon DEF Using
<1>2. CASE \E u \in Upstreams : SelectUpstream(s, u)
  <2>1. PICK u \in Upstreams : SelectUpstream(s, u)
    BY <1>2
  <2>2. /\ sess'[s].phase = "Connect" /\ sess'[s].chain = ChainOf[u] /\ sess'[s].path = <<>>
        /\ sess'[s].reply = r.reply /\ sess'[s].protocol = r.protocol /\ r.phase = "Route"
    BY <2>1 DEF SelectUpstream, WithLease, SessionType, Sound, Whole, Chosen, BeforeRoute
  <2> QED BY <2>2, GoesOn, Zenon
<1>3. CASE LookupPeer(s)
  <2>1. /\ sess'[s].phase = "Login" /\ sess'[s].reply = r.reply /\ sess'[s].protocol = r.protocol
        /\ r.phase = "Accept"
    BY <1>3 DEF LookupPeer, SessionType, Sound, Whole
  <2> QED BY <2>1, GoesOn, Zenon
<1>4. CASE LoginFromCache(s) \/ LoginWithCredentials(s) \/ LoginOpen(s)
  <2>1. sess' = [sess EXCEPT ![s] = Admitted(s)] /\ r.phase = "Login"
    BY <1>4, Zenon DEF LoginFromCache, LoginWithCredentials, LoginOpen, Admit
  <2>2. /\ sess'[s].phase \in {"Greet", "Request", "Route"}
        /\ sess'[s].phase = "Greet" => Shape[r.protocol].reply = "early"
        /\ sess'[s].chain = r.chain /\ sess'[s].reply = r.reply /\ sess'[s].protocol = r.protocol
    BY <2>1, Zenon DEF Admitted, SessionType, Sound, Whole
  <2> QED BY <2>1, <2>2, GoesOn
<1>5. CASE LoginFails(s)
  <2>1. \E phase \in {"Report", "Done"} : \E outcome :
          sess' = [sess EXCEPT ![s] = Over(s, phase, outcome)]
    BY <1>5, Zenon DEF LoginFails, Private
  <2> QED BY <1>o, <2>1, Zenon
<1>6. CASE AcceptKeyed(s)
  <2>1. CASE Refuse(s, "AuthenticationFailed")
    BY <1>o, <2>1, Zenon DEF Refuse, Private
  <2>2. CASE Private(s, [sess[s] EXCEPT
              !.peer = "None",
              !.phase = IF Shape[sess[s].protocol].run = "echo" THEN "Echo" ELSE "Route"])
    BY <1>6, <2>2 DEF AcceptKeyed, Private, SessionType, Sound, Whole, Placed, Chosen,
         Opening, Reach, OnPath, Using, BeforeRoute
  <2> QED BY <1>6, <2>1, <2>2, Zenon DEF AcceptKeyed
<1>7. CASE ReadRequest(s)
  BY <1>7 DEF ReadRequest, Private, SessionType, Sound, Whole, Placed, Chosen,
         Opening, Reach, OnPath, Using, BeforeRoute
<1>8. CASE Malformed(s) \/ HandshakeTimeout(s) \/ GiveUp(s) \/ ControlEnds(s)
  BY <1>8, <1>o, Zenon
     DEF Malformed, HandshakeTimeout, GiveUp, ControlEnds, Refuse, Private
<1>9. CASE SendEarlySuccess(s)
  BY <1>9 DEF SendEarlySuccess, Private, SessionType, Sound, Whole, Placed, Chosen,
         Opening, Reach, OnPath, Using, BeforeRoute
<1>10. CASE SelectDirect(s)
  <2>1. /\ sess'[s].phase = "Connect" /\ sess'[s].reply = r.reply
        /\ sess'[s].protocol = r.protocol /\ sess'[s].path = r.path /\ r.phase = "Route"
    BY <1>10 DEF SelectDirect, Private, SessionType, Sound, Whole
  <2>2. r.path = <<>>
    BY <2>1 DEF Sound, Whole, Chosen, BeforeRoute, OnPath
  <2> QED BY <2>1, <2>2, GoesOn, Zenon
<1>11. CASE RouteRefused(s) \/ ExpectationFailed(s) \/ AssociateTimeout(s)
  BY <1>11, <1>r, Zenon DEF RouteRefused, ExpectationFailed, AssociateTimeout
<1>12. CASE SendFailure(s) \/ SuccessNotSent(s) \/ RelayEnds(s) \/ ForwardEnds(s)
  BY <1>12, <1>o, Zenon
     DEF SendFailure, SuccessNotSent, RelayEnds, ForwardEnds, Return, WithLease
<1>13. CASE ConnectDirect(s)
  <2>1. /\ sess'[s].phase = "Reply" /\ sess'[s].path = <<1>> /\ sess'[s].chain = <<>>
        /\ sess'[s].reply = r.reply /\ sess'[s].protocol = r.protocol /\ r.phase = "Connect"
    BY <1>13 DEF ConnectDirect, Private, SessionType, Sound, Whole
  <2>2. sess'[s].path = Upto(Len(sess'[s].chain) + 1) /\ Len(sess'[s].chain) = 0
    BY <2>1, UptoSmall
  <2> QED BY <2>1, <2>2, GoesOn
<1>14. CASE OpenFirstHop(s)
  <2>1. /\ sess'[s].phase = "Connect" /\ r.phase = "Connect" /\ r.hop = 1
        /\ sess'[s].path = IF "h3" \in r.chain[1] THEN <<1, 2>> ELSE <<1>>
        /\ sess'[s].hop = r.hop /\ sess'[s].chain = r.chain
        /\ sess'[s].reply = r.reply /\ sess'[s].protocol = r.protocol
    BY <1>14 DEF OpenFirstHop, Private, SessionType, Sound, Whole, Chosen
  <2>2. sess'[s].path = Upto(IF "h3" \in r.chain[1] THEN 2 ELSE 1)
    BY <2>1, UptoSmall, Zenon
  <2> QED BY <2>1, <2>2, GoesOn, Zenon
<1>15. CASE HopHandshake(s)
  <2> DEFINE hop == sess[s].hop
             path == IF ApplicationProtocols(sess[s].chain[hop]) = {} THEN sess[s].path
                     ELSE Append(sess[s].path, hop + 1)
             phase == IF hop = Len(sess[s].chain) THEN "Opened" ELSE "Connect"
  <2>1. r.phase = "Connect" /\ r.path # <<>> /\ hop \in 1..Len(r.chain) /\ Len(r.chain) \in Nat
    BY <1>15 DEF HopHandshake, Sound, Whole, Chosen, Chains
  <2>2. sess' = [sess EXCEPT ![s] = [sess[s] EXCEPT !.path = path, !.hop = hop + 1, !.phase = phase]]
    BY <1>15, Zenon DEF HopHandshake, Private
  <2>3. ASSUME NamesEveryNode(r.chain) PROVE path = Upto(hop + 1)
    <3>0. /\ r.path = Upto(IF hop = 1 /\ "h3" \in r.chain[1] THEN 2 ELSE hop)
          /\ hop \in DOMAIN r.chain /\ hop \in Nat /\ 1 + 1 = 2
      <4>1. r.path = Upto(IF hop = 1 /\ "h3" \in r.chain[1] THEN 2 ELSE hop)
        BY <2>1, <2>3, Zenon DEF Opening, Reach
      <4>2. DOMAIN r.chain = 1..Len(r.chain)
        BY DEF Sound, Whole, Chains
      <4> QED BY <2>1, <4>1, <4>2
    <3>1. CASE ApplicationProtocols(r.chain[hop]) = {}
      <4>1. hop = 1 /\ "h3" \in r.chain[1]
        BY <2>3, <3>0, <3>1, Zenon DEF NamesEveryNode
      <4> QED BY <3>0, <3>1, <4>1, Zenon
    <3>2. CASE ApplicationProtocols(r.chain[hop]) # {}
      <4>1. ~(hop = 1 /\ "h3" \in r.chain[1])
        BY <2>3, <3>0, <3>2, Zenon DEF NamesEveryNode
      <4>2. r.path = Upto(hop)
        BY <3>0, <4>1, Zenon
      <4> QED BY <3>0, <3>2, <4>2, UptoAppend, Zenon
    <3> QED BY <3>1, <3>2, Zenon
  <2>4. phase = "Opened" => hop + 1 = Len(r.chain) + 1
    BY Zenon
  <2>5. phase \in {"Opened", "Connect"} /\ hop + 1 # 1
    BY <2>1
  <2> HIDE DEF path, phase
  <2>6. /\ sess'[s].phase = phase /\ sess'[s].path = path /\ sess'[s].hop = hop + 1
        /\ sess'[s].chain = r.chain /\ sess'[s].reply = r.reply /\ sess'[s].protocol = r.protocol
    BY <2>2 DEF SessionType, Sound, Whole
  <2> DEFINE q == sess'[s]
  <2>8. NamesEveryNode(q.chain) =>
        /\ q.phase = "Connect" /\ q.path # <<>> =>
              q.path = Upto(IF q.hop = 1 /\ "h3" \in q.chain[1] THEN 2 ELSE q.hop)
        /\ q.phase \in {"Opened", "Reply"} => q.path = Upto(Len(q.chain) + 1)
    BY <2>3, <2>4, <2>5, <2>6, Zenon
  <2>9. /\ q.reply = r.reply /\ q.protocol = r.protocol
        /\ q.phase \in {"Opened", "Connect"} /\ r.phase = "Connect"
    BY <2>1, <2>5, <2>6, Zenon
  <2> HIDE DEF q
  <2>10. Opening(q)
    BY <2>8, <2>9, GoesOn, Zenon
  <2> QED BY <2>10, Zenon DEF q
<1>16. CASE LeaveInFlight(s)
  <2>1. sess'[s] = r
    BY <1>16 DEF LeaveInFlight, WithLease, SessionType
  <2> QED BY <2>1
<1>17. CASE EnterActive(s)
  BY <1>17 DEF EnterActive, WithLease, SessionType, Sound, Whole, Placed, Chosen,
         Opening, Reach, OnPath, Using, BeforeRoute
<1>18. CASE OpenFails(s)
  BY <1>18 DEF OpenFails, WithLease, SessionType, Sound, Whole, Placed, Chosen,
         Opening, Reach, OnPath, Using, BeforeRoute
<1>19. CASE SendSuccess(s)
  <2> DEFINE shape == Shape[sess[s].protocol]
  <2>1. /\ r.phase = "Reply"
        /\ sess'[s].phase = IF shape.run = "forward" THEN "Upload"
                            ELSE IF shape.run = "udp" THEN "Udp" ELSE "Relay"
        /\ sess'[s].reply = IF shape.reply = "late" /\ shape.run # "forward"
                            THEN "Success" ELSE r.reply
        /\ sess'[s].path = r.path /\ sess'[s].chain = r.chain /\ sess'[s].protocol = r.protocol
    BY <1>19, Zenon DEF SendSuccess, Private, SessionType, Sound, Whole
  <2> QED BY <2>1, Tells, Zenon
<1>20. CASE UploadRequest(s)
  <2>1. CASE Private(s, [sess[s] EXCEPT !.phase = "Response"])
    BY <1>20, <2>1 DEF UploadRequest, Private, SessionType, Sound, Whole, Placed, Chosen,
         Opening, Reach, OnPath, Using, BeforeRoute
  <2> QED BY <1>20, <1>o, <1>r, <2>1, Zenon DEF UploadRequest, Return, WithLease
<1>21. CASE ForwardResponse(s)
  <2>1. CASE Private(s, [sess[s] EXCEPT !.phase = "Idle", !.reply = "Success"])
    BY <1>21, <2>1 DEF ForwardResponse, Private, SessionType, Sound, Whole, Placed, Chosen,
         Opening, Reach, OnPath, Using, BeforeRoute
  <2> QED BY <1>21, <1>o, <1>r, <2>1, Zenon DEF ForwardResponse, Return, WithLease
<1>22. CASE NextRequest(s)
  <2>1. sess'[s].phase = "Route" /\ sess'[s].chain = <<>> /\ sess'[s].reply = "None"
    BY <1>22 DEF NextRequest, WithLease, SessionType, Sound, Whole
  <2> QED BY <2>1, StartsOver, Zenon DEF Using
<1>23. CASE CreateAssociation(s)
  <2>1. CASE Private(s, [sess[s] EXCEPT !.phase = "Reply"])
    BY <1>23, <2>1 DEF CreateAssociation, Private, SessionType, Sound, Whole, Placed, Chosen,
         Opening, Reach, OnPath, Using, BeforeRoute
  <2> QED BY <1>23, <1>r, <2>1, Zenon DEF CreateAssociation
<1>24. CASE RecordSession(s)
  BY <1>24 DEF RecordSession, Private, SessionType, Sound, Whole, Placed, Chosen,
         Opening, Reach, OnPath, Using, BeforeRoute
<1>25. CASE Cancel(s)
  <2>1. \E phase \in {"Report", "Done"} : sess' = [sess EXCEPT ![s] = Over(s, phase, "Cancelled")]
    BY <1>25, Zenon DEF Cancel, WithLease
  <2> QED BY <1>o, <2>1, Zenon
<1> QED
  BY <1>1, <1>2, <1>3, <1>4, <1>5, <1>6, <1>7, <1>8, <1>9, <1>10, <1>11, <1>12, <1>13,
     <1>14, <1>15, <1>16, <1>17, <1>18, <1>19, <1>20, <1>21, <1>22, <1>23, <1>24,
     <1>25, Zenon
     DEF Step, Login, Routed

(* Every session's path is as far open as its phase says. *)
Opened == \A s \in Sessions : Opening(sess[s])

(* Every step keeps every session's path as far open as its phase says. *)
LEMMA NextOpened ==
    SessionInv /\ Opened /\ [SessionNext]_allVars => Opened'
<1> SUFFICES ASSUME SessionInv, Opened, [SessionNext]_allVars PROVE Opened'
  OBVIOUS
<1>1. ASSUME NEW s \in Sessions, Step(s) PROVE Opened'
  <2>1. SessionType /\ Sound(sess[s]) /\ Opening(sess[s])
    BY DEF SessionInv, Opened
  <2>2. Opening(sess'[s])
    BY <1>1, <2>1, StepOpens, Zenon
  <2>3. \A t \in Sessions \ {s} : sess'[t] = sess[t]
    BY <1>1, <2>1, StepMoves, Zenon DEF Moves
  <2> QED BY <2>2, <2>3 DEF Opened
<1>2. CASE Clock \/ UNCHANGED allVars
  BY <1>2 DEF Clock, allVars, sessionVars, Opened
<1> QED BY <1>1, <1>2 DEF SessionNext

(* For any number of sessions and any chains, a client that is told of     *)
(* success over a chain whose every hop names the node after it has a      *)
(* stream through every hop to its target.  Over the other chains the      *)
(* parser lets through, of which a run has one, it need not have.          *)
THEOREM SuccessAlwaysConnected == SessionSpec => []SuccessMeansConnected
<1>1. SessionInit => Opened
  <2>1. Opening(Fresh)
    <3>1. PICK f : f = Fresh
      BY Zenon
    <3>2. f.phase = "Closed" /\ f.chain = <<>> /\ f.path = <<>> /\ f.reply = "None"
      BY <3>1, Zenon DEF Fresh
    <3>4. Opening(f)
      BY <3>2, Zenon DEF Opening, Reach, Using
    <3> QED BY <3>1, <3>4, Zenon
  <2> QED BY <2>1, Zenon DEF SessionInit, Opened
<1>2. SessionInv /\ Opened => SuccessMeansConnected
  BY Zenon DEF Opened, Opening, Reach, SuccessMeansConnected, WholePath, Destination, Upto, Using
<1> QED BY <1>1, <1>2, SessionInductive, NextOpened, PTL DEF SessionSpec
-----------------------------------------------------------------------------
(* What the cache holds of a peer is what the peer last proved, and it     *)
(* holds no more than it may.                                              *)
Fits == DOMAIN entries \subseteq Peers /\ Cardinality(DOMAIN entries) <= MaxEntries

Proven ==
    /\ DOMAIN proof = Peers /\ now \in Nat
    /\ \A ip \in DOMAIN entries :
          /\ entries[ip].identity = proof[ip].identity
          /\ entries[ip].last_authenticated = proof[ip].at
          /\ proof[ip].at \in Nat

Remembers == Fits /\ Proven

(* record keeps the cache within max_entries; but for the peer it records  *)
(* it only takes entries away, and a live one only when all are alive.     *)
LEMMA RecordKeeps ==
    ASSUME Remembers, NEW ip \in Peers, NEW identity, Record(ip, identity)
    PROVE  /\ DOMAIN entries' \subseteq Peers /\ ip \in DOMAIN entries'
           /\ EvictsDeadFirst
           /\ entries'[ip] = [identity |-> identity, last_authenticated |-> now]
           /\ \A p \in DOMAIN entries' \ {ip} : p \in DOMAIN entries /\ entries'[p] = entries[p]
           /\ now' = now
<1> DEFINE D == DOMAIN entries
           sweep == Full(D) /\ now - last_sweep >= SweepInterval
           kept == IF sweep THEN {p \in D : ~Expired(entries[p])} ELSE D
           entry == [identity |-> identity, last_authenticated |-> now]
<1>1. PICK victims \in Victims(kept, ip) :
         entries' = [p \in (kept \ victims) \cup {ip} |-> IF p = ip THEN entry ELSE entries[p]]
  BY Zenon DEF Record
<1>2. kept \subseteq D /\ D \subseteq Peers /\ \A p \in D \ kept : ~Hit(p)
  BY Zenon DEF Remembers, Fits, Hit
<1>3. now' = now
  BY Zenon DEF Record
<1> HIDE DEF sweep
<1>4. /\ IsFiniteSet(D) /\ IsFiniteSet(kept) /\ Cardinality(D) \in Nat /\ Cardinality(kept) \in Nat
      /\ Cardinality(kept) <= Cardinality(D) /\ (Cardinality(D) = Cardinality(kept) => D = kept)
      /\ Cardinality(D) <= MaxEntries /\ MaxEntries \in Nat \ {0}
  <2>1. IsFiniteSet(Peers) /\ MaxEntries \in Nat \ {0}
    BY CacheAssumption
  <2>2. IsFiniteSet(D)
    BY <1>2, <2>1, FS_Subset, Zenon
  <2>3. /\ IsFiniteSet(kept) /\ Cardinality(kept) <= Cardinality(D)
        /\ (Cardinality(D) = Cardinality(kept) => D = kept)
    BY <1>2, <2>2, FS_Subset, Zenon
  <2>4. Cardinality(D) \in Nat /\ Cardinality(kept) \in Nat
    BY <2>2, <2>3, FS_CardinalityType, Zenon
  <2>5. Cardinality(D) <= MaxEntries
    BY Zenon DEF Remembers, Fits
  <2> QED BY <2>1, <2>2, <2>3, <2>4, <2>5, Zenon
<1> HIDE DEF kept, D, entry
<1>5. \/ Full(kept) /\ ip \notin kept /\ \E victim \in Oldest(kept) : victims = {victim}
      \/ ~(Full(kept) /\ ip \notin kept) /\ victims = {}
  BY <1>1 DEF Victims
<1>6. DOMAIN entries' = (kept \ victims) \cup {ip}
  BY <1>1
<1>7. Cardinality(DOMAIN entries') <= MaxEntries /\ Cardinality(DOMAIN entries') \in Nat
  <2>1. ASSUME NEW victim \in Oldest(kept), victims = {victim}, ip \notin kept
        PROVE  Cardinality(DOMAIN entries') = Cardinality(kept)
    <3>1. victim \in kept
      BY <2>1 DEF Oldest
    <3>2. IsFiniteSet(kept \ {victim}) /\ Cardinality(kept \ {victim}) = Cardinality(kept) - 1
      BY <1>4, <3>1, FS_RemoveElement, Zenon
    <3>3. Cardinality((kept \ {victim}) \cup {ip}) = Cardinality(kept \ {victim}) + 1
      BY <2>1, <3>2, FS_AddElement, Zenon
    <3> QED BY <1>4, <1>6, <2>1, <3>2, <3>3
  <2>2. ASSUME victims = {}, ip \in kept
        PROVE  Cardinality(DOMAIN entries') = Cardinality(kept)
    <3>1. DOMAIN entries' = kept
      BY <1>6, <2>2
    <3> QED BY <3>1
  <2>3. ASSUME victims = {}, ip \notin kept, ~Full(kept)
        PROVE  Cardinality(DOMAIN entries') = Cardinality(kept) + 1 /\ Cardinality(kept) < MaxEntries
    <3>1. DOMAIN entries' = kept \cup {ip}
      BY <1>6, <2>3
    <3>2. Cardinality(kept \cup {ip}) = Cardinality(kept) + 1
      BY <1>4, <2>3, FS_AddElement, Zenon
    <3> QED BY <1>4, <2>3, <3>1, <3>2 DEF Full
  <2>4. \/ Cardinality(DOMAIN entries') = Cardinality(kept)
        \/ Cardinality(DOMAIN entries') = Cardinality(kept) + 1 /\ Cardinality(kept) < MaxEntries
    BY <1>5, <2>1, <2>2, <2>3, Zenon
  <2> QED BY <1>4, <2>4
<1>8. ASSUME NEW p \in D \ DOMAIN entries', Hit(p), NEW other \in D PROVE Hit(other)
  <2>1. p \in kept /\ p \in victims
    BY <1>2, <1>6, <1>8
  <2>2. Full(kept) /\ p \in Oldest(kept)
    BY <1>5, <2>1, Zenon
  <2>3. kept = D
    BY <1>4, <2>2 DEF Full
  <2>4. entries[p].last_authenticated <= entries[other].last_authenticated
    BY <1>8, <2>2, <2>3, Zenon DEF Oldest
  <2>5. /\ entries[p].last_authenticated \in Nat /\ entries[other].last_authenticated \in Nat
        /\ now \in Nat /\ Timeout \in Nat
    BY <1>8, CacheAssumption, Zenon DEF Remembers, Proven, D
  <2> QED BY <1>8, <2>4, <2>5 DEF Hit, Expired, D
<1>9. EvictsDeadFirst
  BY <1>4, <1>7, <1>8 DEF EvictsDeadFirst, D
<1>10. DOMAIN entries' \subseteq Peers /\ ip \in DOMAIN entries'
  BY <1>2, <1>6
<1>11. entries'[ip] = entry
  BY <1>1
<1>12. \A p \in DOMAIN entries' \ {ip} : p \in DOMAIN entries /\ entries'[p] = entries[p]
  BY <1>1, <1>2, <1>6, Zenon DEF D
<1>13. entry = [identity |-> identity, last_authenticated |-> now]
  BY Zenon DEF entry
<1> QED BY <1>3, <1>9, <1>10, <1>11, <1>12, <1>13, Zenon

(* lookup only takes away an entry that has expired.                       *)
LEMMA LookupKeeps ==
    ASSUME Remembers, NEW ip \in Peers, Lookup(ip)
    PROVE  /\ DOMAIN entries' \subseteq DOMAIN entries /\ EvictsDeadFirst
           /\ \A p \in DOMAIN entries' : entries'[p] = entries[p]
           /\ now' = now
<1>1. /\ DOMAIN entries' \subseteq DOMAIN entries /\ now' = now
      /\ \A p \in DOMAIN entries' : entries'[p] = entries[p]
      /\ \A p \in DOMAIN entries \ DOMAIN entries' : ~Hit(p)
  BY DEF Lookup, Restrict, Hit
<1>2. IsFiniteSet(DOMAIN entries)
  BY CacheAssumption, FS_Subset, Zenon DEF Remembers, Fits
<1>3. Cardinality(DOMAIN entries') <= Cardinality(DOMAIN entries) /\ IsFiniteSet(DOMAIN entries')
  BY <1>1, <1>2, FS_Subset, Zenon
<1>4. Cardinality(DOMAIN entries') \in Nat /\ Cardinality(DOMAIN entries) \in Nat
  BY <1>2, <1>3, FS_CardinalityType, Zenon
<1>5. ~(Cardinality(DOMAIN entries') > MaxEntries)
  BY <1>3, <1>4, CacheAssumption DEF Remembers, Fits, Proven
<1> QED BY <1>1, <1>5, Zenon DEF EvictsDeadFirst

(* What a step may do to the cache: nothing, a lookup, or a login that     *)
(* records the peer.                                                       *)
Untouched(s) ==
    /\ UNCHANGED <<cacheVars, proof>>
    /\ sess'[s].cached \in {sess[s].cached, "None"}

LoggedIn(s) ==
    /\ sess'[s].cached = "None" /\ sess[s].peer \in Peers
    /\ \E identity : /\ Record(sess[s].peer, identity)
                     /\ proof' = [proof EXCEPT ![sess[s].peer] = [identity |-> identity, at |-> now]]

(* Only the lookup at accept and a successful login touch the cache. *)
LEMMA StepCaches ==
    ASSUME NEW s \in Sessions, SessionType, Sound(sess[s]), Step(s)
    PROVE  Untouched(s) \/ LookupPeer(s) \/ LoggedIn(s)
<1>p. ASSUME NEW q, Private(s, q) \/ WithLease(s, q), q.cached \in {sess[s].cached, "None"}
      PROVE  Untouched(s)
  <2>1. sess'[s] = q
    BY <1>p, Zenon DEF Private, WithLease, SessionType
  <2> QED BY <1>p, <2>1, Zenon DEF Private, WithLease, Untouched
<1>o. ASSUME NEW phase, NEW outcome,
             Private(s, Over(s, phase, outcome)) \/ WithLease(s, Over(s, phase, outcome))
      PROVE  Untouched(s)
  <2>1. Over(s, phase, outcome).cached = "None"
    BY DEF Over, Fresh
  <2> QED BY <1>o, <1>p, <2>1, Zenon
<1>r. ASSUME NEW outcome, Refusing(s, outcome) PROVE Untouched(s)
  <2>1. [sess[s] EXCEPT !.phase = "Refuse", !.outcome = outcome].cached = sess[s].cached
    BY DEF Sound, Whole
  <2> QED BY <1>p, <1>r, <2>1, Zenon DEF Refusing
<1>1. CASE \E peer \in Peers, protocol \in config.protocols : Accept(s, peer, protocol)
  <2>1. sess'[s].cached = "None"
    BY <1>1 DEF Accept, Private, Fresh, SessionType
  <2> QED BY <1>1, <2>1, Zenon DEF Accept, Private, Untouched
<1>2. CASE LoginFromCache(s) \/ LoginWithCredentials(s) \/ LoginOpen(s)
  <2>1. PICK identity, record : Admit(s, identity, record)
    BY <1>2, Zenon DEF LoginFromCache, LoginWithCredentials, LoginOpen
  <2>2. sess'[s].cached = "None"
    <3>1. sess'[s] = Admitted(s)
      BY <2>1, Zenon DEF Admit, SessionType
    <3> QED BY <3>1 DEF Admitted, Sound, Whole
  <2>3. sess[s].peer \in Peers
    <3>1. sess[s].phase = "Login"
      BY <1>2, Zenon DEF LoginFromCache, LoginWithCredentials, LoginOpen
    <3> QED BY <3>1, Zenon DEF Sound, Placed
  <2> QED BY <2>1, <2>2, <2>3, Zenon DEF Admit, Untouched, LoggedIn
<1>3. CASE LoginFails(s) \/ Malformed(s) \/ HandshakeTimeout(s) \/ GiveUp(s) \/ ControlEnds(s)
  BY <1>3, <1>o, Zenon DEF LoginFails, Malformed, HandshakeTimeout, GiveUp, ControlEnds, Refuse
<1>4. CASE SendFailure(s) \/ SuccessNotSent(s) \/ RelayEnds(s) \/ ForwardEnds(s) \/ Cancel(s)
  BY <1>4, <1>o, Zenon DEF SendFailure, SuccessNotSent, RelayEnds, ForwardEnds, Cancel, Return
<1>5. CASE RouteRefused(s) \/ ExpectationFailed(s) \/ AssociateTimeout(s)
  BY <1>5, <1>r, Zenon DEF RouteRefused, ExpectationFailed, AssociateTimeout
<1>6. CASE AcceptKeyed(s)
  <2> DEFINE q == [sess[s] EXCEPT
              !.peer = "None",
              !.phase = IF Shape[sess[s].protocol].run = "echo" THEN "Echo" ELSE "Route"]
  <2>1. q.cached = sess[s].cached
    BY DEF Sound, Whole
  <2> QED BY <1>6, <1>o, <1>p, <2>1, Zenon DEF AcceptKeyed, Refuse
<1>q. ASSUME UNCHANGED <<cacheVars, proof>>, sess'[s].cached = sess[s].cached
      PROVE  Untouched(s)
  BY <1>q, Zenon DEF Untouched
<1>7. CASE ReadRequest(s)
  <2>1. UNCHANGED <<cacheVars, proof>>
    BY <1>7, Zenon DEF ReadRequest, Private
  <2>2. sess'[s].cached = sess[s].cached
    BY <1>7 DEF ReadRequest, Private, SessionType, Sound, Whole
  <2> QED BY <1>q, <2>1, <2>2, Zenon
<1>8. CASE SendEarlySuccess(s)
  <2>1. UNCHANGED <<cacheVars, proof>>
    BY <1>8, Zenon DEF SendEarlySuccess, Private
  <2>2. sess'[s].cached = sess[s].cached
    BY <1>8 DEF SendEarlySuccess, Private, SessionType, Sound, Whole
  <2> QED BY <1>q, <2>1, <2>2, Zenon
<1>9. CASE SelectDirect(s)
  <2>1. UNCHANGED <<cacheVars, proof>>
    BY <1>9, Zenon DEF SelectDirect, Private
  <2>2. sess'[s].cached = sess[s].cached
    BY <1>9 DEF SelectDirect, Private, SessionType, Sound, Whole
  <2> QED BY <1>q, <2>1, <2>2, Zenon
<1>10. CASE ConnectDirect(s)
  <2>1. UNCHANGED <<cacheVars, proof>>
    BY <1>10, Zenon DEF ConnectDirect, Private
  <2>2. sess'[s].cached = sess[s].cached
    BY <1>10 DEF ConnectDirect, Private, SessionType, Sound, Whole
  <2> QED BY <1>q, <2>1, <2>2, Zenon
<1>11. CASE OpenFirstHop(s)
  <2>1. UNCHANGED <<cacheVars, proof>>
    BY <1>11, Zenon DEF OpenFirstHop, Private
  <2>2. sess'[s].cached = sess[s].cached
    BY <1>11 DEF OpenFirstHop, Private, SessionType, Sound, Whole
  <2> QED BY <1>q, <2>1, <2>2, Zenon
<1>12. CASE HopHandshake(s)
  <2>1. UNCHANGED <<cacheVars, proof>>
    BY <1>12, Zenon DEF HopHandshake, Private
  <2>2. sess'[s].cached = sess[s].cached
    BY <1>12 DEF HopHandshake, Private, SessionType, Sound, Whole
  <2> QED BY <1>q, <2>1, <2>2, Zenon
<1>13. CASE SendSuccess(s)
  <2>1. UNCHANGED <<cacheVars, proof>>
    BY <1>13, Zenon DEF SendSuccess, Private
  <2>2. sess'[s].cached = sess[s].cached
    BY <1>13 DEF SendSuccess, Private, SessionType, Sound, Whole
  <2> QED BY <1>q, <2>1, <2>2, Zenon
<1>14. CASE RecordSession(s)
  <2>1. UNCHANGED <<cacheVars, proof>>
    BY <1>14, Zenon DEF RecordSession, Private
  <2>2. sess'[s].cached = sess[s].cached
    BY <1>14 DEF RecordSession, Private, SessionType, Sound, Whole
  <2> QED BY <1>q, <2>1, <2>2, Zenon
<1>15. CASE LeaveInFlight(s)
  <2>1. UNCHANGED <<cacheVars, proof>>
    BY <1>15, Zenon DEF LeaveInFlight, WithLease
  <2>2. sess'[s].cached = sess[s].cached
    BY <1>15, Zenon DEF LeaveInFlight, WithLease, SessionType, Sound, Whole
  <2> QED BY <1>q, <2>1, <2>2, Zenon
<1>16. CASE EnterActive(s)
  <2>1. UNCHANGED <<cacheVars, proof>>
    BY <1>16, Zenon DEF EnterActive, WithLease
  <2>2. sess'[s].cached = sess[s].cached
    BY <1>16 DEF EnterActive, WithLease, SessionType, Sound, Whole
  <2> QED BY <1>q, <2>1, <2>2, Zenon
<1>17. CASE OpenFails(s)
  <2>1. UNCHANGED <<cacheVars, proof>>
    BY <1>17, Zenon DEF OpenFails, WithLease
  <2>2. sess'[s].cached = sess[s].cached
    BY <1>17 DEF OpenFails, WithLease, SessionType, Sound, Whole
  <2> QED BY <1>q, <2>1, <2>2, Zenon
<1>18. CASE NextRequest(s)
  <2>1. UNCHANGED <<cacheVars, proof>>
    BY <1>18, Zenon DEF NextRequest, WithLease
  <2>2. sess'[s].cached = sess[s].cached
    BY <1>18 DEF NextRequest, WithLease, SessionType, Sound, Whole
  <2> QED BY <1>q, <2>1, <2>2, Zenon
<1>19. CASE \E u \in Upstreams : SelectUpstream(s, u)
  <2>1. UNCHANGED <<cacheVars, proof>>
    BY <1>19, Zenon DEF SelectUpstream, WithLease
  <2>2. sess'[s].cached = sess[s].cached
    BY <1>19 DEF SelectUpstream, WithLease, SessionType, Sound, Whole
  <2> QED BY <1>q, <2>1, <2>2, Zenon
<1>20. CASE UploadRequest(s) \/ ForwardResponse(s) \/ CreateAssociation(s)
  <2>1. \/ \E outcome : Refusing(s, outcome) \/ Return(s, outcome)
        \/ Private(s, [sess[s] EXCEPT !.phase = "Response"])
        \/ Private(s, [sess[s] EXCEPT !.phase = "Idle", !.reply = "Success"])
        \/ Private(s, [sess[s] EXCEPT !.phase = "Reply"])
    BY <1>20, Zenon DEF UploadRequest, ForwardResponse, CreateAssociation
  <2>2. /\ [sess[s] EXCEPT !.phase = "Response"].cached = sess[s].cached
        /\ [sess[s] EXCEPT !.phase = "Idle", !.reply = "Success"].cached = sess[s].cached
        /\ [sess[s] EXCEPT !.phase = "Reply"].cached = sess[s].cached
    BY DEF Sound, Whole
  <2> QED BY <1>o, <1>p, <1>r, <2>1, <2>2, Zenon DEF Return
<1> QED
  BY <1>1, <1>2, <1>3, <1>4, <1>5, <1>6, <1>20,
     <1>7, <1>8, <1>9, <1>10, <1>11, <1>12, <1>13,
     <1>14, <1>15, <1>16, <1>17, <1>18, <1>19, Zenon
     DEF Step, Login, Routed

(* The cache remembers the last proof through every step, and no step      *)
(* takes from it or lets in what it should not.                            *)
LEMMA NextRemembers ==
    SessionInv /\ Remembers /\ [SessionNext]_allVars
      => Remembers' /\ ((ReuseIsFresh /\ EvictsDeadFirst) \/ UNCHANGED allVars)
<1> SUFFICES ASSUME SessionInv, Remembers, SessionNext \/ UNCHANGED allVars
             PROVE  Remembers' /\ ((ReuseIsFresh /\ EvictsDeadFirst) \/ UNCHANGED allVars)
  OBVIOUS
<1>k. ASSUME entries' = entries PROVE EvictsDeadFirst
  <2>1. IsFiniteSet(DOMAIN entries)
    BY CacheAssumption, FS_Subset, Zenon DEF Remembers, Fits
  <2>2. Cardinality(DOMAIN entries) \in Nat
    BY <2>1, FS_CardinalityType, Zenon
  <2>3. MaxEntries \in Nat
    BY CacheAssumption
  <2>4. ~(Cardinality(DOMAIN entries) > MaxEntries)
    BY <2>2, <2>3 DEF Remembers, Fits
  <2> QED BY <1>k, <2>4, Zenon DEF EvictsDeadFirst
<1>f. ASSUME EvictsDeadFirst, DOMAIN entries' \subseteq Peers PROVE Fits'
  <2>1. IsFiniteSet(DOMAIN entries')
    BY <1>f, CacheAssumption, FS_Subset, Zenon
  <2>2. Cardinality(DOMAIN entries') \in Nat
    BY <2>1, FS_CardinalityType, Zenon
  <2>3. ~(Cardinality(DOMAIN entries') > MaxEntries) /\ MaxEntries \in Nat
    BY <1>f, CacheAssumption DEF EvictsDeadFirst
  <2>4. Cardinality(DOMAIN entries') <= MaxEntries
    BY <2>2, <2>3
  <2> QED BY <1>f, <2>4 DEF Fits
<1>1. ASSUME NEW s \in Sessions, Step(s) PROVE Remembers' /\ ReuseIsFresh /\ EvictsDeadFirst
  <2>1. SessionType /\ Sound(sess[s])
    BY DEF SessionInv
  <2>2. \A t \in Sessions \ {s} : sess'[t] = sess[t]
    BY <1>1, <2>1, StepMoves, Zenon DEF Moves
  <2>3. ASSUME sess'[s].cached \in {sess[s].cached, "None"} PROVE ReuseIsFresh
    BY <2>2, <2>3, Zenon DEF ReuseIsFresh
  <2>4. CASE Untouched(s)
    <3>1. Remembers'
      BY <2>4, Zenon DEF Untouched, cacheVars, Remembers, Fits, Proven
    <3> QED BY <1>k, <2>3, <2>4, <3>1, Zenon DEF Untouched, cacheVars
  <2>5. CASE LookupPeer(s)
    <3>1. sess[s].peer \in Peers /\ proof' = proof
      BY <2>1, <2>5, Zenon DEF LookupPeer, Sound, Placed
    <3>2. ReuseIsFresh
      <4>1. sess'[s].cached # "None" =>
              /\ Hit(sess[s].peer) /\ sess'[s].cached = entries[sess[s].peer].identity
        BY <2>1, <2>5, Zenon DEF LookupPeer, SessionType, Sound, Whole
      <4>2. ASSUME Hit(sess[s].peer)
            PROVE  /\ proof[sess[s].peer].identity = entries[sess[s].peer].identity
                   /\ now - proof[sess[s].peer].at <= Timeout
        BY <4>2, CacheAssumption DEF Hit, Expired, Remembers, Proven
      <4>3. sess'[s].cached # "None" =>
              LET last == proof[sess[s].peer] IN
              last.identity = sess'[s].cached /\ now - last.at <= Timeout
        BY <4>1, <4>2, Zenon
      <4> QED BY <2>2, <4>3, Zenon DEF ReuseIsFresh
    <3>3. CASE UsesCache(s)
      <4>1. Lookup(sess[s].peer)
        BY <2>5, <3>3, Zenon DEF LookupPeer
      <4>2. /\ DOMAIN entries' \subseteq DOMAIN entries /\ EvictsDeadFirst
            /\ \A p \in DOMAIN entries' : entries'[p] = entries[p]
            /\ now' = now
        BY <3>1, <4>1, LookupKeeps, Zenon
      <4>3. Fits'
        BY <1>f, <4>2 DEF Remembers, Fits
      <4>4. Remembers'
        BY <3>1, <4>2, <4>3, Zenon DEF Remembers, Proven
      <4> QED BY <3>2, <4>2, <4>4
    <3>4. CASE ~UsesCache(s)
      <4>1. UNCHANGED cacheVars
        BY <2>5, <3>4, Zenon DEF LookupPeer
      <4>2. Remembers'
        BY <3>1, <4>1, Zenon DEF cacheVars, Remembers, Fits, Proven
      <4> QED BY <1>k, <3>2, <4>1, <4>2 DEF cacheVars
    <3> QED BY <3>3, <3>4
  <2>6. CASE LoggedIn(s)
    <3>1. PICK identity :
            /\ Record(sess[s].peer, identity)
            /\ proof' = [proof EXCEPT ![sess[s].peer] = [identity |-> identity, at |-> now]]
      BY <2>6, Zenon DEF LoggedIn
    <3>2. sess[s].peer \in Peers
      BY <2>6, Zenon DEF LoggedIn
    <3> DEFINE ip == sess[s].peer
    <3>3. /\ DOMAIN entries' \subseteq Peers /\ ip \in DOMAIN entries'
          /\ EvictsDeadFirst
          /\ entries'[ip] = [identity |-> identity, last_authenticated |-> now]
          /\ \A p \in DOMAIN entries' \ {ip} : p \in DOMAIN entries /\ entries'[p] = entries[p]
          /\ now' = now
      BY <3>1, <3>2, RecordKeeps, Zenon
    <3>4. Fits'
      BY <1>f, <3>3, Zenon
    <3>5. /\ DOMAIN proof' = Peers
          /\ proof'[ip] = [identity |-> identity, at |-> now]
          /\ \A p \in Peers \ {ip} : proof'[p] = proof[p]
      BY <3>1, <3>2, Zenon DEF Remembers, Proven
    <3> HIDE DEF ip
    <3>6. Proven'
      <4>1. now' \in Nat /\ DOMAIN proof' = Peers
        BY <3>3, <3>5, Zenon DEF Remembers, Proven
      <4>2. PICK e, p : e = entries'[ip] /\ p = proof'[ip]
        BY Zenon
      <4>3. /\ e = [identity |-> identity, last_authenticated |-> now]
            /\ p = [identity |-> identity, at |-> now]
        BY <3>3, <3>5, <4>2, Zenon
      <4>4. e.identity = p.identity /\ e.last_authenticated = p.at /\ p.at = now
        BY <4>3, Zenon
      <4>5. now \in Nat
        BY <3>3, <4>1, Zenon
      <4>6. \A q \in DOMAIN entries' \ {ip} : /\ entries'[q].identity = proof'[q].identity
                                              /\ entries'[q].last_authenticated = proof'[q].at
                                              /\ proof'[q].at \in Nat
        BY <3>3, <3>5, Zenon DEF Remembers, Proven
      <4> QED BY <4>1, <4>2, <4>4, <4>5, <4>6, Zenon DEF Proven
    <3>7. sess'[s].cached \in {sess[s].cached, "None"}
      BY <2>6, Zenon DEF LoggedIn
    <3> QED BY <2>3, <3>3, <3>4, <3>6, <3>7, Zenon DEF Remembers
  <2> QED BY <1>1, <2>1, <2>4, <2>5, <2>6, StepCaches, Zenon
<1>2. CASE Clock
  <2>1. entries' = entries /\ proof' = proof /\ sess' = sess /\ now' = now + 1
    BY <1>2 DEF Clock, Tick, sessionVars
  <2>2. Remembers'
    BY <2>1 DEF Remembers, Fits, Proven
  <2>3. ReuseIsFresh
    BY <2>1, Zenon DEF ReuseIsFresh
  <2> QED BY <1>k, <2>1, <2>2, <2>3
<1>3. CASE UNCHANGED allVars
  BY <1>3, Zenon DEF allVars, cacheVars, sessionVars, Remembers, Fits, Proven
<1> QED BY <1>1, <1>2, <1>3 DEF SessionNext

(* For any number of peers, sessions and entries, no client is let in with *)
(* an identity that is not fresh, the cache never exceeds max_entries, and *)
(* a live entry is evicted only when every entry is alive.                 *)
THEOREM CacheAlwaysSound == SessionSpec => CacheSound
<1>1. SessionInit => Remembers
  <2> SUFFICES ASSUME SessionInit PROVE Remembers
    OBVIOUS
  <2>1. PICK ips \in Earlier :
          entries = [ip \in ips |-> [identity |-> "Username", last_authenticated |-> 0]]
    BY Zenon DEF SessionInit, CacheInit
  <2>2. ips \subseteq Peers /\ Cardinality(ips) <= MaxEntries /\ DOMAIN entries = ips
    BY <2>1, CacheAssumption, Zenon
  <2>3. /\ DOMAIN proof = Peers
        /\ \A ip \in ips : proof[ip].identity = "Username" /\ proof[ip].at = 0
    BY <2>2, Zenon DEF SessionInit
  <2> QED BY <2>1, <2>2, <2>3, Zenon DEF Remembers, Fits, Proven, SessionInit, CacheInit
<1> QED BY <1>1, SessionInductive, NextRemembers, PTL DEF SessionSpec, CacheSound
=============================================================================
