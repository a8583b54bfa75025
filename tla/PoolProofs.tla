----------------------------- MODULE PoolProofs -----------------------------
(***************************************************************************)
(* Proofs about the tables that connections share and that have limits:    *)
(* the HTTP/2 pool (H2Pool), the associations of a UDP listener            *)
(* (UdpAssociations) and the flows of a UDP relay (UdpRelay).  They hold   *)
(* for any finite sets of callers, requests, clients and flow keys, any    *)
(* pools and connections, any listeners, limits and channel capacity.      *)
(*                                                                         *)
(* The pool.  A call reads active_streams, takes a slot by                 *)
(* compare-and-exchange if the count has not changed, finds out afterwards *)
(* whether the connection was retired meanwhile, and gives the slot back   *)
(* on one of many paths, some of them the drop of a cancelled future.      *)
(* Accounted is inductive with the types and with what a call knows at     *)
(* each of its program counters (Consistent): where it has a slot, it has  *)
(* exactly one, of the connection it names.  Each step is shown to change  *)
(* one caller and at most one counter, and the counter by as much as the   *)
(* set of holders (SlotStep, PermitStep).                                  *)
(*                                                                         *)
(* Associations.  A relay that runs was in the registry when it was        *)
(* spawned, but Drain and RelayRemoves take associations out of it.        *)
(* EveryRelayReachable needs to know that a slot is also there between     *)
(* Create and SpawnRelay (Slots), that an association whose relay removes  *)
(* it is past its creation (NotYet), and that close_all does not lose what *)
(* it took earlier because it runs once (Once).                            *)
(*                                                                         *)
(* Relays.  A flow is checked against the limits before an await and       *)
(* enters its table after it.  What makes that safe is that the loop is    *)
(* one task: the flow being opened is not in a table (Serving) and the     *)
(* room it was promised is still there when it arrives (RoomKept).  The    *)
(* gauge needs that a flow in use keeps its client fresh (InUse), so that  *)
(* a clean-up drops a client only with flows it has counted.               *)
(***************************************************************************)
EXTENDS H2Pool, UdpAssociations, UdpRelay, FiniteSetTheorems, TLAPS
-----------------------------------------------------------------------------
(* The HTTP/2 pool. *)
Pcs == {"out", "probe", "cas", "recheck", "request", "awaiting", "retireRetry", "retireFail",
        "permit", "handshake", "first", "open", "stamp"}

Calls == [pc : Pcs, pool : 0..PoolMax, list : Seq(Entries), entry : 0..EntryMax, seen : Int]

Reapers == [pc : {"none", "sleeping", "scan", "mark"}, i : Nat]

(* The program counters at which a call has a pool, and a connection. *)
WithEntry == {"cas", "recheck", "request", "awaiting", "retireRetry", "retireFail", "first",
              "open", "stamp"}

Slotted == {"recheck", "request", "awaiting", "first", "open"}

HoldsSlot(r, e) == r.entry = e /\ r.pc \in Slotted

HoldsPermit(r, p) == r.pool = p /\ r.pc \in {"handshake", "first"}

(* What a call knows where it is. *)
Consistent(r) ==
    /\ r.pc # "out" => r.pool \in Pools
    /\ r.pc \in WithEntry => r.entry \in Entries
    /\ r.pc \in {"cas", "recheck"} => r.list # <<>>
    /\ r.pc = "cas" => r.seen < MaxStreams

PoolTypes ==
    /\ registered \in 0..PoolMax
    /\ entries \in [Pools -> Seq(Entries)] /\ permits \in [Pools -> Int]
    /\ reaper \in [Pools -> Reapers]
    /\ active \in [Entries -> Int] /\ leaked \in [Entries -> Int]
    /\ retired \in [Entries -> BOOLEAN] /\ idle \in [Entries -> BOOLEAN]
    /\ caller \in [Callers -> Calls]

Scans ==
    \A p \in Pools : /\ Scanning(p) => reaper[p].i >= 1
                     /\ reaper[p].pc = "mark" => reaper[p].i <= Len(entries[p])

PoolInv == PoolTypes /\ Scans /\ (\A t \in Callers : Consistent(caller[t])) /\ Accounted
-----------------------------------------------------------------------------
(* The call of t goes on as r. *)
Becomes(t, r) == r \in Calls /\ caller' = [caller EXCEPT ![t] = r]

(* One caller moves and the others stay where they are. *)
LEMMA Moved ==
    ASSUME caller \in [Callers -> Calls], NEW t \in Callers, NEW r, Becomes(t, r)
    PROVE  /\ caller' \in [Callers -> Calls] /\ caller'[t] = r
           /\ \A u \in Callers \ {t} : caller'[u] = caller[u]
  BY Zenon DEF Becomes

(* Only its program counter changes. *)
GoesTo(t, r, pc) ==
    /\ Becomes(t, r) /\ r.pc = pc
    /\ r.pool = caller[t].pool /\ r.list = caller[t].list
    /\ r.entry = caller[t].entry /\ r.seen = caller[t].seen

(* A record whose program counter changes. *)
LEMMA GotoBecomes ==
    ASSUME caller \in [Callers -> Calls], NEW t \in Callers, NEW pc \in Pcs, Goto(t, pc)
    PROVE  \E r : GoesTo(t, r, pc)
<1> DEFINE r == [caller[t] EXCEPT !.pc = pc]
<1>1. caller[t] \in Calls
  BY Zenon
<1>2. /\ r \in Calls /\ r.pc = pc
      /\ r.pool = caller[t].pool /\ r.list = caller[t].list
      /\ r.entry = caller[t].entry /\ r.seen = caller[t].seen
  BY <1>1, Zenon DEF Calls
<1>3. caller' = [caller EXCEPT ![t] = r]
  BY Zenon DEF Goto
<1> HIDE DEF r
<1> QED BY <1>2, <1>3, Zenon DEF Becomes, GoesTo

(* A call that ends. *)
LEMMA LeaveBecomes ==
    ASSUME NEW t \in Callers, LeavePool(t)
    PROVE  Becomes(t, NoCall)
<1>1. <<>> \in Seq(Entries) /\ 0 \in 0..PoolMax /\ 0 \in 0..EntryMax /\ 0 \in Int /\ "out" \in Pcs
  BY H2Assumption DEF Pcs
<1>2. NoCall \in Calls
  BY <1>1, Zenon DEF Calls, NoCall
<1> QED BY <1>2, Zenon DEF LeavePool, Becomes

(* A call that goes on to the next connection of its snapshot. *)
LEMMA NextEntryBecomes ==
    ASSUME caller \in [Callers -> Calls], NEW t \in Callers, caller[t].list # <<>>, NextEntry(t)
    PROVE  \E r : /\ Becomes(t, r) /\ r.pc = "probe" /\ r.pool = caller[t].pool
                  /\ r.entry = 0 /\ r.seen = 0
<1> DEFINE s == caller[t]
<1> DEFINE r == [s EXCEPT !.pc = "probe", !.entry = 0, !.seen = 0, !.list = Tail(@)]
<1>1. s \in Calls
  BY Zenon
<1>2. Tail(s.list) \in Seq(Entries) /\ 0 \in 0..EntryMax /\ 0 \in Int /\ "probe" \in Pcs
  <2>1. s.list \in Seq(Entries) /\ s.list # <<>>
    BY <1>1, Zenon DEF Calls
  <2> HIDE DEF s
  <2> QED BY <2>1, H2Assumption DEF Pcs
<1>3. caller' = [caller EXCEPT ![t] = r]
  BY Zenon DEF NextEntry
<1> HIDE DEF s
<1>4. r \in Calls /\ r.pc = "probe" /\ r.pool = s.pool /\ r.entry = 0 /\ r.seen = 0
  BY <1>1, <1>2, Zenon DEF Calls
<1> HIDE DEF r
<1> QED BY <1>3, <1>4, Zenon DEF Becomes, s
-----------------------------------------------------------------------------
(* The holders of a slot, and of a permit, by what their records say. *)
LEMMA HoldersAre ==
    /\ \A e : Holders(e) = {t \in Callers : HoldsSlot(caller[t], e)}
    /\ \A p : Creators(p) = {t \in Callers : HoldsPermit(caller[t], p)}
  BY Zenon DEF Holders, HoldsSlot, Slotted, Creators, HoldsPermit

(* They are finitely many. *)
LEMMA HoldersFinite ==
    /\ \A e : IsFiniteSet(Holders(e)) /\ Cardinality(Holders(e)) \in Nat
    /\ \A p : IsFiniteSet(Creators(p)) /\ Cardinality(Creators(p)) \in Nat
<1>1. \A e : Holders(e) \subseteq Callers
  BY Zenon DEF Holders
<1>2. \A p : Creators(p) \subseteq Callers
  BY Zenon DEF Creators
<1>3. IsFiniteSet(Callers)
  BY H2Assumption, Zenon
<1>4. \A S : S \subseteq Callers => IsFiniteSet(S) /\ Cardinality(S) \in Nat
  BY <1>3, FS_Subset, FS_CardinalityType, Zenon
<1> QED BY <1>1, <1>2, <1>4, Zenon

(* One member more, one member less. *)
LEMMA OneMore ==
    ASSUME NEW S, IsFiniteSet(S), NEW T, NEW t, t \notin S, T = S \cup {t}
    PROVE  Cardinality(T) = Cardinality(S) + 1
  BY FS_AddElement, Zenon

(* One element less. *)
LEMMA OneLess ==
    ASSUME NEW S, IsFiniteSet(S), NEW T, NEW t, t \in S, T = S \ {t}
    PROVE  Cardinality(T) = Cardinality(S) - 1
  BY FS_RemoveElement, Zenon

(* How a move of one caller changes who holds a slot of e. *)
LEMMA SlotMoves ==
    ASSUME NEW t \in Callers, NEW e, \A u \in Callers \ {t} : caller'[u] = caller[u]
    PROVE  /\ (HoldsSlot(caller'[t], e) <=> HoldsSlot(caller[t], e)) => Holders(e)' = Holders(e)
           /\ HoldsSlot(caller'[t], e) /\ ~HoldsSlot(caller[t], e) =>
                 Cardinality(Holders(e))' = Cardinality(Holders(e)) + 1
           /\ ~HoldsSlot(caller'[t], e) /\ HoldsSlot(caller[t], e) =>
                 Cardinality(Holders(e))' = Cardinality(Holders(e)) - 1
<1>1. Holders(e) = {u \in Callers : HoldsSlot(caller[u], e)}
  BY HoldersAre, Zenon
<1>2. Holders(e)' = {u \in Callers : HoldsSlot(caller'[u], e)}
  BY Zenon DEF Holders, HoldsSlot, Slotted
<1>3. (HoldsSlot(caller'[t], e) <=> HoldsSlot(caller[t], e)) => Holders(e)' = Holders(e)
  BY <1>1, <1>2
<1>4. ASSUME HoldsSlot(caller'[t], e), ~HoldsSlot(caller[t], e)
      PROVE  Cardinality(Holders(e))' = Cardinality(Holders(e)) + 1
  <2>1. t \notin Holders(e) /\ Holders(e)' = Holders(e) \cup {t}
    BY <1>1, <1>2, <1>4
  <2> QED BY <2>1, HoldersFinite, OneMore, Zenon
<1>5. ASSUME ~HoldsSlot(caller'[t], e), HoldsSlot(caller[t], e)
      PROVE  Cardinality(Holders(e))' = Cardinality(Holders(e)) - 1
  <2>1. t \in Holders(e) /\ Holders(e)' = Holders(e) \ {t}
    BY <1>1, <1>2, <1>5
  <2> QED BY <2>1, HoldersFinite, OneLess, Zenon
<1> QED BY <1>3, <1>4, <1>5, Zenon

(* The same for the permits of p. *)
LEMMA PermitMoves ==
    ASSUME NEW t \in Callers, NEW p, \A u \in Callers \ {t} : caller'[u] = caller[u]
    PROVE  /\ (HoldsPermit(caller'[t], p) <=> HoldsPermit(caller[t], p)) => Creators(p)' = Creators(p)
           /\ HoldsPermit(caller'[t], p) /\ ~HoldsPermit(caller[t], p) =>
                 Cardinality(Creators(p))' = Cardinality(Creators(p)) + 1
           /\ ~HoldsPermit(caller'[t], p) /\ HoldsPermit(caller[t], p) =>
                 Cardinality(Creators(p))' = Cardinality(Creators(p)) - 1
<1>1. Creators(p) = {u \in Callers : HoldsPermit(caller[u], p)}
  BY HoldersAre, Zenon
<1>2. Creators(p)' = {u \in Callers : HoldsPermit(caller'[u], p)}
  BY Zenon DEF Creators, HoldsPermit
<1>3. (HoldsPermit(caller'[t], p) <=> HoldsPermit(caller[t], p)) => Creators(p)' = Creators(p)
  BY <1>1, <1>2
<1>4. ASSUME HoldsPermit(caller'[t], p), ~HoldsPermit(caller[t], p)
      PROVE  Cardinality(Creators(p))' = Cardinality(Creators(p)) + 1
  <2>1. t \notin Creators(p) /\ Creators(p)' = Creators(p) \cup {t}
    BY <1>1, <1>2, <1>4
  <2> QED BY <2>1, HoldersFinite, OneMore, Zenon
<1>5. ASSUME ~HoldsPermit(caller'[t], p), HoldsPermit(caller[t], p)
      PROVE  Cardinality(Creators(p))' = Cardinality(Creators(p)) - 1
  <2>1. t \in Creators(p) /\ Creators(p)' = Creators(p) \ {t}
    BY <1>1, <1>2, <1>5
  <2> QED BY <2>1, HoldersFinite, OneLess, Zenon
<1> QED BY <1>3, <1>4, <1>5, Zenon
-----------------------------------------------------------------------------
(* What a step of t, which goes on as r, does to the slots: nothing, take, *)
(* give back or lose one of e, or start e with one.                        *)
SlotsKept(t, r) ==
    /\ active' = active /\ leaked' = leaked
    /\ \A e \in Entries : HoldsSlot(r, e) <=> HoldsSlot(caller[t], e)

SlotOnly(t, r, e) == \A f \in Entries \ {e} : HoldsSlot(r, f) <=> HoldsSlot(caller[t], f)

SlotTaken(t, r, e) ==
    /\ active' = [active EXCEPT ![e] = @ + 1] /\ leaked' = leaked
    /\ active[e] < MaxStreams
    /\ HoldsSlot(r, e) /\ ~HoldsSlot(caller[t], e) /\ SlotOnly(t, r, e)

SlotBack(t, r, e) ==
    /\ active' = [active EXCEPT ![e] = @ - 1] /\ leaked' = leaked
    /\ ~HoldsSlot(r, e) /\ HoldsSlot(caller[t], e) /\ SlotOnly(t, r, e)

SlotLost(t, r, e) ==
    /\ active' = active /\ leaked' = [leaked EXCEPT ![e] = @ + 1]
    /\ ~HoldsSlot(r, e) /\ HoldsSlot(caller[t], e) /\ SlotOnly(t, r, e)

SlotFirst(t, r, e) ==
    /\ active' = [active EXCEPT ![e] = 1] /\ leaked' = [leaked EXCEPT ![e] = 0]
    /\ HoldsSlot(r, e) /\ Holders(e) = {} /\ SlotOnly(t, r, e)

SlotEffect(t, r) ==
    \/ SlotsKept(t, r)
    \/ \E e \in Entries : \/ SlotTaken(t, r, e) \/ SlotBack(t, r, e)
                          \/ SlotLost(t, r, e) \/ SlotFirst(t, r, e)

SlotsExact ==
    /\ active \in [Entries -> Int] /\ leaked \in [Entries -> Int]
    /\ \A e \in Entries : active[e] <= MaxStreams
    /\ \A e \in Entries : active[e] = Cardinality(Holders(e)) + leaked[e]

(* Every such step keeps the counts exact. *)
LEMMA SlotStep ==
    ASSUME SlotsExact, NEW t \in Callers, NEW r, caller'[t] = r,
           \A u \in Callers \ {t} : caller'[u] = caller[u], SlotEffect(t, r)
    PROVE  SlotsExact'
<1>0. \A e \in Entries : /\ active[e] \in Int /\ leaked[e] \in Int /\ active[e] <= MaxStreams
                         /\ active[e] = Cardinality(Holders(e)) + leaked[e]
                         /\ Cardinality(Holders(e)) \in Nat
  BY HoldersFinite, Zenon DEF SlotsExact
<1>1. \A f \in Entries :
         (HoldsSlot(r, f) <=> HoldsSlot(caller[t], f)) => Cardinality(Holders(f))' = Cardinality(Holders(f))
  BY SlotMoves, Zenon
<1>2. CASE SlotsKept(t, r)
  BY <1>1, <1>2, Zenon DEF SlotsKept, SlotsExact
<1>3. ASSUME NEW e \in Entries, SlotOnly(t, r, e),
             \A f \in Entries \ {e} : active'[f] = active[f] /\ leaked'[f] = leaked[f],
             active' \in [Entries -> Int], leaked' \in [Entries -> Int],
             active'[e] <= MaxStreams,
             active'[e] = Cardinality(Holders(e))' + leaked'[e]
      PROVE  SlotsExact'
  BY <1>1, <1>3, Zenon DEF SlotsExact, SlotOnly
<1>4. ASSUME NEW e \in Entries, SlotTaken(t, r, e) PROVE SlotsExact'
  <2>n. /\ active[e] \in Int /\ leaked[e] \in Int /\ active[e] <= MaxStreams
        /\ active[e] = Cardinality(Holders(e)) + leaked[e] /\ Cardinality(Holders(e)) \in Nat
    BY <1>0, Zenon
  <2>0. active[e] + 1 \in Int /\ active[e] - 1 \in Int /\ leaked[e] + 1 \in Int
    BY <2>n
  <2>1. Cardinality(Holders(e))' = Cardinality(Holders(e)) + 1 /\ SlotOnly(t, r, e)
    BY <1>4, SlotMoves, Zenon DEF SlotTaken
  <2>2. /\ active' \in [Entries -> Int] /\ leaked' \in [Entries -> Int]
        /\ \A f \in Entries \ {e} : active'[f] = active[f] /\ leaked'[f] = leaked[f]
        /\ active'[e] = active[e] + 1 /\ leaked'[e] = leaked[e] /\ active[e] < MaxStreams
    BY <1>4, <2>0, Zenon DEF SlotTaken, SlotsExact
  <2>3. active'[e] <= MaxStreams /\ active'[e] = Cardinality(Holders(e))' + leaked'[e]
    BY <2>n, <2>1, <2>2, H2Assumption
  <2> QED BY <1>3, <2>1, <2>2, <2>3, Zenon
<1>5. ASSUME NEW e \in Entries, SlotBack(t, r, e) PROVE SlotsExact'
  <2>n. /\ active[e] \in Int /\ leaked[e] \in Int /\ active[e] <= MaxStreams
        /\ active[e] = Cardinality(Holders(e)) + leaked[e] /\ Cardinality(Holders(e)) \in Nat
    BY <1>0, Zenon
  <2>0. active[e] + 1 \in Int /\ active[e] - 1 \in Int /\ leaked[e] + 1 \in Int
    BY <2>n
  <2>1. Cardinality(Holders(e))' = Cardinality(Holders(e)) - 1 /\ SlotOnly(t, r, e)
    BY <1>5, SlotMoves, Zenon DEF SlotBack
  <2>2. /\ active' \in [Entries -> Int] /\ leaked' \in [Entries -> Int]
        /\ \A f \in Entries \ {e} : active'[f] = active[f] /\ leaked'[f] = leaked[f]
        /\ active'[e] = active[e] - 1 /\ leaked'[e] = leaked[e]
    BY <1>5, <2>0, Zenon DEF SlotBack, SlotsExact
  <2>3. active'[e] <= MaxStreams /\ active'[e] = Cardinality(Holders(e))' + leaked'[e]
    BY <2>n, <2>1, <2>2, H2Assumption
  <2> QED BY <1>3, <2>1, <2>2, <2>3, Zenon
<1>6. ASSUME NEW e \in Entries, SlotLost(t, r, e) PROVE SlotsExact'
  <2>n. /\ active[e] \in Int /\ leaked[e] \in Int /\ active[e] <= MaxStreams
        /\ active[e] = Cardinality(Holders(e)) + leaked[e] /\ Cardinality(Holders(e)) \in Nat
    BY <1>0, Zenon
  <2>0. active[e] + 1 \in Int /\ active[e] - 1 \in Int /\ leaked[e] + 1 \in Int
    BY <2>n
  <2>1. Cardinality(Holders(e))' = Cardinality(Holders(e)) - 1 /\ SlotOnly(t, r, e)
    BY <1>6, SlotMoves, Zenon DEF SlotLost
  <2>2. /\ active' \in [Entries -> Int] /\ leaked' \in [Entries -> Int]
        /\ \A f \in Entries \ {e} : active'[f] = active[f] /\ leaked'[f] = leaked[f]
        /\ active'[e] = active[e] /\ leaked'[e] = leaked[e] + 1
    BY <1>6, <2>0, Zenon DEF SlotLost, SlotsExact
  <2>3. active'[e] <= MaxStreams /\ active'[e] = Cardinality(Holders(e))' + leaked'[e]
    BY <2>n, <2>1, <2>2, H2Assumption
  <2> QED BY <1>3, <2>1, <2>2, <2>3, Zenon
<1>7. ASSUME NEW e \in Entries, SlotFirst(t, r, e) PROVE SlotsExact'
  <2>0. 0 \in Int /\ 1 \in Int
    OBVIOUS
  <2>1. Cardinality(Holders(e)) = 0 /\ ~HoldsSlot(caller[t], e)
    BY <1>7, FS_EmptySet, HoldersAre, Zenon DEF SlotFirst
  <2>2. Cardinality(Holders(e))' = 0 + 1 /\ SlotOnly(t, r, e)
    BY <1>7, <2>1, SlotMoves, Zenon DEF SlotFirst
  <2>3. /\ active' \in [Entries -> Int] /\ leaked' \in [Entries -> Int]
        /\ \A f \in Entries \ {e} : active'[f] = active[f] /\ leaked'[f] = leaked[f]
        /\ active'[e] = 1 /\ leaked'[e] = 0
    BY <1>7, <2>0, Zenon DEF SlotFirst, SlotsExact
  <2>4. 1 <= MaxStreams /\ 1 = (0 + 1) + 0
    BY H2Assumption
  <2>5. active'[e] <= MaxStreams /\ active'[e] = Cardinality(Holders(e))' + leaked'[e]
    BY <2>2, <2>3, <2>4, Zenon
  <2> QED BY <1>3, <2>2, <2>3, <2>5, Zenon
<1> QED BY <1>2, <1>4, <1>5, <1>6, <1>7, Zenon DEF SlotEffect

(* What it does to the permits. *)
PermitsKept(t, r) ==
    permits' = permits /\ \A p \in Pools : HoldsPermit(r, p) <=> HoldsPermit(caller[t], p)

PermitOnly(t, r, p) == \A q \in Pools \ {p} : HoldsPermit(r, q) <=> HoldsPermit(caller[t], q)

PermitTaken(t, r, p) ==
    /\ permits' = [permits EXCEPT ![p] = @ - 1]
    /\ HoldsPermit(r, p) /\ ~HoldsPermit(caller[t], p) /\ PermitOnly(t, r, p)

PermitBack(t, r, p) ==
    /\ permits' = [permits EXCEPT ![p] = @ + 1]
    /\ ~HoldsPermit(r, p) /\ HoldsPermit(caller[t], p) /\ PermitOnly(t, r, p)

PermitsNew(t, r, p) ==
    /\ permits' = [permits EXCEPT ![p] = PoolSize]
    /\ ~HoldsPermit(r, p) /\ Creators(p) = {} /\ PermitOnly(t, r, p)

PermitEffect(t, r) ==
    \/ PermitsKept(t, r)
    \/ \E p \in Pools : PermitTaken(t, r, p) \/ PermitBack(t, r, p) \/ PermitsNew(t, r, p)

PermitsExact ==
    /\ permits \in [Pools -> Int]
    /\ \A p \in Pools : permits[p] + Cardinality(Creators(p)) = PoolSize

(* Every such step keeps the permits accounted for. *)
LEMMA PermitStep ==
    ASSUME PermitsExact, NEW t \in Callers, NEW r, caller'[t] = r,
           \A u \in Callers \ {t} : caller'[u] = caller[u], PermitEffect(t, r)
    PROVE  PermitsExact'
<1>0. \A p \in Pools : /\ permits[p] \in Int /\ Cardinality(Creators(p)) \in Nat
                       /\ permits[p] + Cardinality(Creators(p)) = PoolSize
  BY HoldersFinite, Zenon DEF PermitsExact
<1>1. \A q \in Pools : (HoldsPermit(r, q) <=> HoldsPermit(caller[t], q)) =>
         Cardinality(Creators(q))' = Cardinality(Creators(q))
  BY PermitMoves, Zenon
<1>2. CASE PermitsKept(t, r)
  BY <1>1, <1>2, Zenon DEF PermitsKept, PermitsExact
<1>3. ASSUME NEW p \in Pools, PermitOnly(t, r, p), permits' \in [Pools -> Int],
             \A q \in Pools \ {p} : permits'[q] = permits[q],
             permits'[p] + Cardinality(Creators(p))' = PoolSize
      PROVE  PermitsExact'
  <2>1. \A q \in Pools \ {p} : /\ permits'[q] = permits[q]
                                /\ Cardinality(Creators(q))' = Cardinality(Creators(q))
    BY <1>1, <1>3, Zenon DEF PermitOnly
  <2>2. \A q \in Pools \ {p} : permits'[q] + Cardinality(Creators(q))' = PoolSize
    BY <1>0, <2>1, Zenon
  <2>3. \A q \in Pools : permits'[q] + Cardinality(Creators(q))' = PoolSize
    BY <1>3, <2>2, Zenon
  <2> QED BY <1>3, <2>3, Zenon DEF PermitsExact
<1>4. ASSUME NEW p \in Pools, PermitTaken(t, r, p) PROVE PermitsExact'
  <2>1. /\ permits[p] \in Int /\ Cardinality(Creators(p)) \in Nat
        /\ permits[p] + Cardinality(Creators(p)) = PoolSize
    BY <1>0, Zenon
  <2>2. permits[p] - 1 \in Int
    BY <2>1
  <2>3. Cardinality(Creators(p))' = Cardinality(Creators(p)) + 1 /\ PermitOnly(t, r, p)
    BY <1>4, PermitMoves, Zenon DEF PermitTaken
  <2>4. /\ permits' \in [Pools -> Int] /\ permits'[p] = permits[p] - 1
        /\ \A q \in Pools \ {p} : permits'[q] = permits[q]
    BY <1>4, <2>2, Zenon DEF PermitTaken, PermitsExact
  <2>5. permits'[p] + Cardinality(Creators(p))' = PoolSize
    BY <2>1, <2>3, <2>4
  <2> QED BY <1>3, <2>3, <2>4, <2>5, Zenon
<1>5. ASSUME NEW p \in Pools, PermitBack(t, r, p) PROVE PermitsExact'
  <2>1. /\ permits[p] \in Int /\ Cardinality(Creators(p)) \in Nat
        /\ permits[p] + Cardinality(Creators(p)) = PoolSize
    BY <1>0, Zenon
  <2>2. permits[p] + 1 \in Int
    BY <2>1
  <2>3. Cardinality(Creators(p))' = Cardinality(Creators(p)) - 1 /\ PermitOnly(t, r, p)
    BY <1>5, PermitMoves, Zenon DEF PermitBack
  <2>4. /\ permits' \in [Pools -> Int] /\ permits'[p] = permits[p] + 1
        /\ \A q \in Pools \ {p} : permits'[q] = permits[q]
    BY <1>5, <2>2, Zenon DEF PermitBack, PermitsExact
  <2>5. permits'[p] + Cardinality(Creators(p))' = PoolSize
    BY <2>1, <2>3, <2>4
  <2> QED BY <1>3, <2>3, <2>4, <2>5, Zenon
<1>6. ASSUME NEW p \in Pools, PermitsNew(t, r, p) PROVE PermitsExact'
  <2>1. ~HoldsPermit(caller[t], p) /\ Cardinality(Creators(p)) = 0
    BY <1>6, FS_EmptySet, HoldersAre, Zenon DEF PermitsNew
  <2>2. Cardinality(Creators(p))' = 0 /\ PermitOnly(t, r, p)
    BY <1>6, <2>1, PermitMoves, Zenon DEF PermitsNew
  <2>3. PoolSize \in Int /\ PoolSize + 0 = PoolSize
    BY H2Assumption
  <2>4. /\ permits' \in [Pools -> Int] /\ permits'[p] = PoolSize
        /\ \A q \in Pools \ {p} : permits'[q] = permits[q]
    BY <1>6, <2>3, Zenon DEF PermitsNew, PermitsExact
  <2>5. permits'[p] + Cardinality(Creators(p))' = PoolSize
    BY <2>2, <2>3, <2>4, Zenon
  <2> QED BY <1>3, <2>2, <2>4, <2>5, Zenon
<1> QED BY <1>2, <1>4, <1>5, <1>6, Zenon DEF PermitEffect
-----------------------------------------------------------------------------
(* The callers that were given a stream on e. *)
InStream(r, e) == HoldsSlot(r, e) /\ r.pc # "recheck"

(* What every step of a call does. *)
CallEffect(t, r) ==
    /\ Becomes(t, r) /\ Consistent(r) /\ SlotEffect(t, r) /\ PermitEffect(t, r)
    /\ \A e \in Entries : InStream(r, e) /\ ~InStream(caller[t], e) => ~(retired[e] /\ retired'[e])

(* The rest of the state keeps its type. *)
RestTyped ==
    /\ registered' \in 0..PoolMax /\ entries' \in [Pools -> Seq(Entries)]
    /\ retired' \in [Entries -> BOOLEAN] /\ idle' \in [Entries -> BOOLEAN]
    /\ reaper' \in [Pools -> Reapers]
    /\ Scans'

Ready == PoolTypes /\ Scans /\ \A t \in Callers : Consistent(caller[t])

(* A step that takes, gives back and loses nothing. *)
LEMMA NothingHeld ==
    ASSUME NEW t \in Callers, NEW r, r.pc \notin Slotted, caller[t].pc \notin Slotted
    PROVE  /\ \A e \in Entries : HoldsSlot(r, e) <=> HoldsSlot(caller[t], e)
           /\ \A e \in Entries : ~InStream(r, e)
  BY Zenon DEF HoldsSlot, InStream

(* A call that does not connect has no permit, before the step or after. *)
LEMMA NoPermitHeld ==
    ASSUME NEW t \in Callers, NEW r, r.pc \notin {"handshake", "first"},
           caller[t].pc \notin {"handshake", "first"}
    PROVE  \A p \in Pools : HoldsPermit(r, p) <=> HoldsPermit(caller[t], p)
  BY Zenon DEF HoldsPermit

(* The slot of a call that gives it up. *)
LEMMA SlotOfCall ==
    ASSUME Ready, NEW t \in Callers, caller[t].pc \in Slotted, NEW r, r.pc \notin Slotted
    PROVE  /\ caller[t].entry \in Entries
           /\ HoldsSlot(caller[t], caller[t].entry) /\ ~HoldsSlot(r, caller[t].entry)
           /\ SlotOnly(t, r, caller[t].entry)
           /\ \A e \in Entries : ~InStream(r, e)
<1>1. caller[t].pc \in WithEntry
  BY DEF Slotted, WithEntry
<1>2. caller[t].entry \in Entries
  BY <1>1, Zenon DEF Ready, Consistent
<1> QED BY <1>2, Zenon DEF HoldsSlot, SlotOnly, InStream

(* The permit of a call that gives it up. *)
LEMMA PermitOfCall ==
    ASSUME Ready, NEW t \in Callers, caller[t].pc \in {"handshake", "first"},
           NEW r, r.pc \notin {"handshake", "first"}
    PROVE  /\ caller[t].pool \in Pools
           /\ HoldsPermit(caller[t], caller[t].pool) /\ ~HoldsPermit(r, caller[t].pool)
           /\ PermitOnly(t, r, caller[t].pool)
<1>1. caller[t].pc # "out"
  OBVIOUS
<1>2. caller[t].pool \in Pools
  BY <1>1, Zenon DEF Ready, Consistent
<1> QED BY <1>2, Zenon DEF HoldsPermit, PermitOnly

(* A call that ends is consistent. *)
LEMMA NoCallFits ==
    NoCall.pc = "out" /\ Consistent(NoCall) /\ "out" \notin Slotted
  BY DEF NoCall, Consistent, WithEntry, Slotted

(* The rest of the state, when only flags of connections change. *)
LEMMA RestKept ==
    ASSUME Ready, UNCHANGED <<registered, entries, reaper>>,
           retired' \in [Entries -> BOOLEAN], idle' \in [Entries -> BOOLEAN]
    PROVE  RestTyped
  BY Zenon DEF Ready, RestTyped, PoolTypes, Scans, Scanning

(* A step between places where nothing is held. *)
LEMMA PlainStep ==
    ASSUME NEW t \in Callers, NEW r, Becomes(t, r), Consistent(r),
           r.pc \in {"out", "probe", "cas", "permit", "retireRetry", "retireFail", "stamp"},
           caller[t].pc \in {"out", "probe", "cas", "permit", "retireRetry", "retireFail", "stamp"},
           active' = active, leaked' = leaked, permits' = permits
    PROVE  CallEffect(t, r)
<1>1. /\ r.pc \notin Slotted /\ caller[t].pc \notin Slotted
      /\ r.pc \notin {"handshake", "first"} /\ caller[t].pc \notin {"handshake", "first"}
  BY DEF Slotted
<1>2. SlotsKept(t, r) /\ \A e \in Entries : ~InStream(r, e)
  BY <1>1, NothingHeld, Zenon DEF SlotsKept
<1>3. PermitsKept(t, r)
  BY <1>1, NoPermitHeld, Zenon DEF PermitsKept
<1> QED BY <1>2, <1>3, Zenon DEF CallEffect, SlotEffect, PermitEffect

(* The snapshot a call starts with. *)
LEMMA GetPoolEffect ==
    ASSUME Ready, NEW t \in Callers, GetPool(t)
    PROVE  RestTyped /\ \E r : CallEffect(t, r)
<1> DEFINE s == caller[t]
<1>0. s \in Calls /\ s.pc = "out" /\ "probe" \in Pcs /\ "probe" # "out"
  BY DEF Ready, PoolTypes, GetPool, Pcs
<1>1. UNCHANGED <<reaper, active, retired, idle, leaked>>
  BY Zenon DEF GetPool
<1>2. "probe" \notin WithEntry /\ "probe" \notin {"cas", "recheck"} /\ "probe" \notin Slotted
      /\ "out" \notin Slotted
  BY DEF WithEntry, Slotted
<1>3. CASE /\ registered # 0 /\ ~Scanning(registered)
           /\ caller' = [caller EXCEPT ![t].pc = "probe", ![t].pool = registered,
                                       ![t].list = entries[registered]]
           /\ UNCHANGED <<registered, entries, permits>>
  <2> DEFINE r == [s EXCEPT !.pc = "probe", !.pool = registered, !.list = entries[registered]]
  <2>1. registered \in Pools /\ registered \in 0..PoolMax
    BY <1>3 DEF Ready, PoolTypes, Pools
  <2>2. entries[registered] \in Seq(Entries)
    BY <2>1, Zenon DEF Ready, PoolTypes
  <2>3. caller' = [caller EXCEPT ![t] = r]
    BY <1>3, Zenon
  <2> HIDE DEF s
  <2>4. r \in Calls /\ r.pc = "probe" /\ r.pool = registered
    BY <1>0, <2>1, <2>2, Zenon DEF Calls
  <2> HIDE DEF r
  <2>5. Consistent(r)
    BY <1>2, <2>1, <2>4, Zenon DEF Consistent
  <2>6. CallEffect(t, r)
    BY <1>0, <1>1, <1>3, <2>3, <2>4, <2>5, PlainStep, Zenon DEF Becomes, s
  <2>7. RestTyped
    BY <1>1, <1>3, RestKept, Zenon DEF Ready, PoolTypes
  <2> QED BY <2>6, <2>7, Zenon
<1>4. ASSUME NEW p \in Pools, Unused(p), registered' = p,
             entries' = [entries EXCEPT ![p] = <<>>],
             permits' = [permits EXCEPT ![p] = PoolSize],
             caller' = [caller EXCEPT ![t].pc = "probe", ![t].pool = p]
      PROVE  RestTyped /\ \E r : CallEffect(t, r)
  <2> DEFINE r == [s EXCEPT !.pc = "probe", !.pool = p]
  <2>1. p \in 0..PoolMax /\ <<>> \in Seq(Entries)
    BY DEF Pools
  <2>2. caller' = [caller EXCEPT ![t] = r]
    BY <1>4, Zenon
  <2> HIDE DEF s
  <2>3. r \in Calls /\ r.pc = "probe" /\ r.pool = p
    BY <1>0, <2>1, Zenon DEF Calls
  <2> HIDE DEF r
  <2>4. Consistent(r)
    BY <1>2, <2>3, Zenon DEF Consistent
  <2>5. SlotsKept(t, r) /\ \A e \in Entries : ~InStream(r, e)
    BY <1>0, <1>1, <1>2, <2>3, NothingHeld, Zenon DEF SlotsKept, s
  <2>6. \A u \in Callers : caller[u].pool # p
    BY <1>4, Zenon DEF Unused, PoolAlive
  <2>7. Creators(p) = {}
    BY <2>6 DEF Creators
  <2>8. r.pc \notin {"handshake", "first"} /\ s.pc \notin {"handshake", "first"}
    BY <1>0, <2>3
  <2>9. PermitsNew(t, r, p)
    BY <1>4, <2>7, <2>8, NoPermitHeld, Zenon DEF PermitsNew, PermitOnly, HoldsPermit, s
  <2>10. CallEffect(t, r)
    BY <2>2, <2>3, <2>4, <2>5, <2>9, Zenon DEF CallEffect, Becomes, SlotEffect, PermitEffect
  <2>11. entries' \in [Pools -> Seq(Entries)] /\ \A q \in Pools \ {p} : entries'[q] = entries[q]
    BY <1>4, <2>1, Zenon DEF Ready, PoolTypes
  <2>12. reaper[p].pc # "mark" /\ ~Scanning(p)
    BY <1>4, Zenon DEF Unused, PoolAlive, Scanning
  <2>13. Scans'
    BY <1>1, <2>11, <2>12, Zenon DEF Ready, Scans, Scanning
  <2>14. RestTyped
    BY <1>1, <1>4, <2>1, <2>11, <2>13, Zenon DEF Ready, RestTyped, PoolTypes
  <2> QED BY <2>10, <2>14, Zenon
<1> QED BY <1>3, <1>4, Zenon DEF GetPool

(* A count below the limit is compared and exchanged; a full connection is *)
(* passed by.                                                              *)
LEMMA WithCountEffect ==
    ASSUME Ready, NEW t \in Callers, NEW e \in Entries, caller[t].pc \in {"probe", "cas"},
           caller[t].list # <<>>, WithCount(t, e),
           active' = active, leaked' = leaked, permits' = permits
    PROVE  \E r : CallEffect(t, r)
<1> DEFINE s == caller[t]
<1>0. s \in Calls /\ caller \in [Callers -> Calls] /\ s.pool \in Pools /\ active[e] \in Int
  <2>1. s.pc # "out"
    OBVIOUS
  <2> QED BY <2>1, Zenon DEF Ready, PoolTypes, Consistent
<1>1. CASE NextEntry(t)
  <2>1. PICK r : Becomes(t, r) /\ r.pc = "probe" /\ r.pool = s.pool
    BY <1>0, <1>1, NextEntryBecomes, Zenon
  <2>2. "probe" \notin WithEntry /\ "probe" \notin {"cas", "recheck"} /\ "probe" # "cas"
    BY DEF WithEntry
  <2>3. Consistent(r)
    BY <1>0, <2>1, <2>2, Zenon DEF Consistent
  <2> QED BY <2>1, <2>3, PlainStep, Zenon
<1>2. CASE /\ ~(active[e] >= MaxStreams)
           /\ caller' = [caller EXCEPT ![t].pc = "cas", ![t].entry = e, ![t].seen = active[e]]
  <2> DEFINE r == [s EXCEPT !.pc = "cas", !.entry = e, !.seen = active[e]]
  <2>1. e \in 0..EntryMax /\ "cas" \in Pcs /\ active[e] < MaxStreams
    BY <1>0, <1>2, H2Assumption DEF Entries, Pcs
  <2>2. caller' = [caller EXCEPT ![t] = r]
    BY <1>2, Zenon
  <2>3. s.list # <<>>
    BY Zenon
  <2> HIDE DEF s
  <2>4. r \in Calls /\ r.pc = "cas" /\ r.entry = e /\ r.seen = active[e]
        /\ r.pool = s.pool /\ r.list = s.list
    BY <1>0, <2>1, Zenon DEF Calls
  <2> HIDE DEF r
  <2>5. Consistent(r)
    BY <1>0, <2>1, <2>3, <2>4, Zenon DEF Consistent
  <2> QED BY <2>2, <2>4, <2>5, PlainStep, Zenon DEF Becomes
<1> QED BY <1>1, <1>2, Zenon DEF WithCount

(* The loads of try_acquire. *)
LEMMA ProbeEffect ==
    ASSUME Ready, NEW t \in Callers, Probe(t) \/ Exhausted(t)
    PROVE  RestTyped /\ \E r : CallEffect(t, r)
<1>0. /\ caller \in [Callers -> Calls] /\ caller[t] \in Calls
      /\ caller[t].pc = "probe"
      /\ UNCHANGED <<registered, entries, permits, reaper, active, retired, idle, leaked>>
  BY Zenon DEF Ready, PoolTypes, Probe, Exhausted
<1>1. RestTyped
  BY <1>0, RestKept, Zenon DEF Ready, PoolTypes
<1>2. caller[t].pool \in Pools /\ caller[t].list \in Seq(Entries)
  <2>1. caller[t].pc # "out"
    BY <1>0
  <2> QED BY <1>0, <2>1, Zenon DEF Ready, Consistent, Calls
<1>3. /\ {"probe", "permit"} \cap WithEntry = {} /\ "probe" \notin {"cas", "recheck"}
      /\ "permit" \notin {"cas", "recheck"} /\ "permit" \in Pcs
      /\ "probe" # "cas" /\ "permit" # "cas"
  BY DEF WithEntry, Pcs
<1>4. CASE Exhausted(t)
  <2>0. Goto(t, "permit")
    BY <1>4, Zenon DEF Exhausted
  <2>a. PICK r : GoesTo(t, r, "permit")
    BY <1>0, <1>3, <2>0, GotoBecomes, Zenon
  <2>1. Becomes(t, r) /\ r.pc = "permit" /\ r.pool = caller[t].pool
    BY <2>a, Zenon DEF GoesTo
  <2>2. Consistent(r)
    BY <1>2, <1>3, <2>1, Zenon DEF Consistent
  <2> QED BY <1>0, <1>1, <2>1, <2>2, PlainStep, Zenon
<1>5. ASSUME caller[t].list # <<>>, NextEntry(t)
      PROVE  \E r : CallEffect(t, r)
  <2>1. PICK r : Becomes(t, r) /\ r.pc = "probe" /\ r.pool = caller[t].pool
    BY <1>0, <1>5, NextEntryBecomes, Zenon
  <2>2. Consistent(r)
    BY <1>2, <1>3, <2>1, Zenon DEF Consistent
  <2> QED BY <1>0, <2>1, <2>2, PlainStep, Zenon
<1>6. CASE Probe(t)
  <2>1. caller[t].list # <<>> /\ (NextEntry(t) \/ WithCount(t, Head(caller[t].list)))
    BY <1>6, Zenon DEF Probe
  <2>2. Head(caller[t].list) \in Entries
    BY <1>2, <2>1
  <2>3. CASE WithCount(t, Head(caller[t].list))
    <3>1. PICK e \in Entries : e = Head(caller[t].list)
      BY <2>2, Zenon
    <3> QED BY <1>0, <1>1, <2>1, <2>3, <3>1, WithCountEffect, Zenon
  <2> QED BY <1>1, <1>5, <2>1, <2>3, Zenon
<1> QED BY <1>4, <1>6, Zenon

(* compare_exchange_weak. *)
LEMMA ExchangeEffect ==
    ASSUME Ready, NEW t \in Callers, CompareExchange(t)
    PROVE  RestTyped /\ \E r : CallEffect(t, r)
<1> DEFINE s == caller[t]
<1>0. /\ caller \in [Callers -> Calls] /\ s \in Calls /\ s.pc = "cas"
      /\ UNCHANGED <<registered, entries, permits, reaper, retired, idle, leaked>>
  BY Zenon DEF Ready, PoolTypes, CompareExchange
<1>1. RestTyped
  BY <1>0, RestKept, Zenon DEF Ready, PoolTypes
<1>2. s.pool \in Pools /\ s.entry \in Entries /\ s.list # <<>> /\ s.seen < MaxStreams
  <2>1. s.pc # "out" /\ s.pc \in WithEntry /\ s.pc \in {"cas", "recheck"}
    BY <1>0 DEF WithEntry
  <2> QED BY <1>0, <2>1, Zenon DEF Ready, Consistent
<1>3. PICK e \in Entries : e = s.entry
  BY <1>2, Zenon
<1>4. CASE active[e] = s.seen
  <2> DEFINE r == [s EXCEPT !.pc = "recheck", !.seen = 0]
  <2>1. active' = [active EXCEPT ![e] = @ + 1] /\ caller' = [caller EXCEPT ![t] = r]
    BY <1>3, <1>4, Zenon DEF CompareExchange
  <2>2. 0 \in Int /\ "recheck" \in Pcs /\ "recheck" \in Slotted /\ "cas" \notin Slotted
        /\ "recheck" # "out" /\ "recheck" # "cas"
    BY DEF Pcs, Slotted
  <2> HIDE DEF s
  <2>3. r \in Calls /\ r.pc = "recheck" /\ r.pool = s.pool /\ r.entry = e /\ r.list = s.list
    BY <1>0, <1>3, <2>2, Zenon DEF Calls
  <2> HIDE DEF r
  <2>4. Consistent(r)
    BY <1>2, <2>2, <2>3, Zenon DEF Consistent
  <2>5. HoldsSlot(r, e) /\ ~HoldsSlot(caller[t], e) /\ SlotOnly(t, r, e)
    BY <1>0, <2>2, <2>3, Zenon DEF HoldsSlot, SlotOnly, s
  <2>6. SlotTaken(t, r, e)
    BY <1>0, <1>2, <1>4, <2>1, <2>5, Zenon DEF SlotTaken
  <2>7. r.pc \notin {"handshake", "first"} /\ caller[t].pc \notin {"handshake", "first"}
    BY <1>0, <2>3 DEF s
  <2>8. PermitsKept(t, r)
    BY <1>0, <2>7, NoPermitHeld, Zenon DEF PermitsKept
  <2>9. \A f \in Entries : ~InStream(r, f)
    BY <2>3, Zenon DEF InStream
  <2>10. CallEffect(t, r)
    BY <2>1, <2>3, <2>4, <2>6, <2>8, <2>9, Zenon
       DEF CallEffect, Becomes, SlotEffect, PermitEffect
  <2> QED BY <1>1, <2>10, Zenon
<1>5. CASE active[e] # s.seen
  <2>1. WithCount(t, e) /\ active' = active
    BY <1>3, <1>5, Zenon DEF CompareExchange
  <2>2. caller[t].pc \in {"probe", "cas"}
    BY <1>0
  <2>3. \E r : CallEffect(t, r)
    BY <1>0, <1>2, <2>1, <2>2, WithCountEffect, Zenon
  <2> QED BY <1>1, <2>3, Zenon
<1> QED BY <1>4, <1>5, Zenon

(* A call that keeps its slot and goes on. *)
LEMMA KeepsSlot ==
    ASSUME Ready, NEW t \in Callers, NEW r, Becomes(t, r),
           caller[t].pc \in {"recheck", "request", "awaiting"},
           r.pc \in {"request", "awaiting", "open"},
           r.pool = caller[t].pool, r.entry = caller[t].entry,
           caller[t].pc = "recheck" => ~retired[caller[t].entry],
           active' = active, leaked' = leaked, permits' = permits
    PROVE  CallEffect(t, r)
<1>a. /\ r.pc \in Slotted /\ r.pc # "out" /\ r.pc \notin {"cas", "recheck"} /\ r.pc # "cas"
      /\ r.pc \notin {"handshake", "first"}
  BY DEF Slotted
<1>b. /\ caller[t].pc \in Slotted /\ caller[t].pc \in WithEntry /\ caller[t].pc # "out"
      /\ caller[t].pc \notin {"handshake", "first"}
  BY Zenon DEF Slotted, WithEntry
<1>1. /\ r.pc \in Slotted /\ caller[t].pc \in Slotted /\ caller[t].pc \in WithEntry
      /\ r.pc # "out" /\ caller[t].pc # "out" /\ r.pc \notin {"cas", "recheck"} /\ r.pc # "cas"
      /\ r.pc \notin {"handshake", "first"} /\ caller[t].pc \notin {"handshake", "first"}
  BY <1>a, <1>b, Zenon
<1>2. caller[t].pool \in Pools /\ caller[t].entry \in Entries
  BY <1>1, Zenon DEF Ready, Consistent
<1>3. Consistent(r)
  BY <1>1, <1>2, Zenon DEF Consistent
<1>4. SlotsKept(t, r)
  BY <1>1, Zenon DEF SlotsKept, HoldsSlot
<1>5. PermitsKept(t, r)
  BY <1>1, NoPermitHeld, Zenon DEF PermitsKept
<1>6. \A e \in Entries : InStream(r, e) /\ ~InStream(caller[t], e) => ~retired[e]
  BY <1>1, Zenon DEF InStream, HoldsSlot
<1> QED BY <1>3, <1>4, <1>5, <1>6, Zenon DEF CallEffect, SlotEffect, PermitEffect

(* A call that gives its slot back. *)
LEMMA GivesSlotBack ==
    ASSUME Ready, NEW t \in Callers, NEW r, Becomes(t, r), Consistent(r),
           caller[t].pc \in {"recheck", "request", "awaiting", "open"},
           r.pc \in {"probe", "retireRetry", "retireFail", "stamp"},
           active' = [active EXCEPT ![caller[t].entry] = @ - 1], leaked' = leaked,
           permits' = permits
    PROVE  CallEffect(t, r)
<1>1. /\ r.pc \notin Slotted /\ caller[t].pc \in Slotted
      /\ r.pc \notin {"handshake", "first"} /\ caller[t].pc \notin {"handshake", "first"}
  BY DEF Slotted
<1>2. /\ caller[t].entry \in Entries /\ \A e \in Entries : ~InStream(r, e)
      /\ SlotBack(t, r, caller[t].entry)
  BY <1>1, SlotOfCall, Zenon DEF SlotBack
<1>3. PermitsKept(t, r)
  BY <1>1, NoPermitHeld, Zenon DEF PermitsKept
<1> QED BY <1>2, <1>3, Zenon DEF CallEffect, SlotEffect, PermitEffect

(* The second load of retired. *)
LEMMA RecheckEffect ==
    ASSUME Ready, NEW t \in Callers, Recheck(t)
    PROVE  RestTyped /\ \E r : CallEffect(t, r)
<1> DEFINE s == caller[t]
<1>0. /\ caller \in [Callers -> Calls] /\ s \in Calls /\ s.pc = "recheck"
      /\ UNCHANGED <<registered, entries, permits, reaper, retired, leaked>>
      /\ idle \in [Entries -> BOOLEAN] /\ retired \in [Entries -> BOOLEAN]
  BY Zenon DEF Ready, PoolTypes, Recheck
<1>1. s.pool \in Pools /\ s.entry \in Entries /\ s.list # <<>>
  <2>1. s.pc # "out" /\ s.pc \in WithEntry /\ s.pc \in {"cas", "recheck"}
    BY <1>0 DEF WithEntry
  <2> QED BY <1>0, <2>1, Zenon DEF Ready, Consistent
<1>2. CASE retired[s.entry]
  <2>1. active' = [active EXCEPT ![s.entry] = @ - 1] /\ NextEntry(t) /\ idle' = idle
    BY <1>2, Zenon DEF Recheck
  <2>2. PICK r : Becomes(t, r) /\ r.pc = "probe" /\ r.pool = s.pool
    BY <1>0, <1>1, <2>1, NextEntryBecomes, Zenon
  <2>3. "probe" \notin WithEntry /\ "probe" \notin {"cas", "recheck"} /\ "probe" # "cas"
    BY DEF WithEntry
  <2>4. Consistent(r)
    BY <1>1, <2>2, <2>3, Zenon DEF Consistent
  <2>5. CallEffect(t, r)
    BY <1>0, <2>1, <2>2, <2>4, GivesSlotBack, Zenon
  <2>6. RestTyped
    BY <1>0, <2>1, RestKept, Zenon
  <2> QED BY <2>5, <2>6, Zenon
<1>3. CASE ~retired[s.entry]
  <2> DEFINE r == [s EXCEPT !.pc = "request", !.list = <<>>]
  <2>1. /\ idle' = [idle EXCEPT ![s.entry] = FALSE] /\ active' = active
        /\ caller' = [caller EXCEPT ![t] = r]
    BY <1>3, Zenon DEF Recheck, Granted
  <2>2. <<>> \in Seq(Entries) /\ "request" \in Pcs
    BY DEF Pcs
  <2> HIDE DEF s
  <2>3. r \in Calls /\ r.pc = "request" /\ r.pool = s.pool /\ r.entry = s.entry
    BY <1>0, <2>2, Zenon DEF Calls
  <2> HIDE DEF r
  <2>4. CallEffect(t, r)
    BY <1>0, <1>3, <2>1, <2>3, KeepsSlot, Zenon DEF Becomes, s
  <2>5. idle' \in [Entries -> BOOLEAN]
    BY <1>0, <2>1, Zenon
  <2>6. RestTyped
    BY <1>0, <2>5, RestKept, Zenon
  <2> QED BY <2>4, <2>6, Zenon
<1> QED BY <1>2, <1>3, Zenon

(* try_pooled_connection with its slot: the sends and answers. *)
LEMMA PooledEffect ==
    ASSUME Ready, NEW t \in Callers,
           SendOk(t) \/ ResponseOk(t) \/ SendFails(t) \/ ResponseFails(t) \/ Release(t)
    PROVE  RestTyped /\ \E r : CallEffect(t, r)
<1>0. /\ caller \in [Callers -> Calls] /\ caller[t].pc \in {"request", "awaiting", "open"}
      /\ UNCHANGED <<registered, entries, permits, reaper, retired, idle, leaked>>
  BY Zenon DEF Ready, PoolTypes, SendOk, ResponseOk, SendFails, ResponseFails, Release, GiveBack
<1>1. RestTyped
  BY <1>0, RestKept, Zenon DEF Ready, PoolTypes
<1>2. caller[t].pool \in Pools /\ caller[t].entry \in Entries
  <2>1. caller[t].pc # "out" /\ caller[t].pc \in WithEntry
    BY <1>0 DEF WithEntry
  <2> QED BY <2>1, Zenon DEF Ready, Consistent
<1>3. ASSUME NEW pc \in {"awaiting", "open"}, caller[t].pc \in {"request", "awaiting"},
             Goto(t, pc), active' = active
      PROVE  \E r : CallEffect(t, r)
  <2>1. pc \in Pcs
    BY DEF Pcs
  <2>2. PICK r : GoesTo(t, r, pc)
    BY <1>0, <1>3, <2>1, GotoBecomes, Zenon
  <2>3. /\ Becomes(t, r) /\ r.pc \in {"request", "awaiting", "open"}
        /\ r.pool = caller[t].pool /\ r.entry = caller[t].entry
    BY <1>3, <2>2, Zenon DEF GoesTo
  <2>4. caller[t].pc \in {"recheck", "request", "awaiting"} /\ caller[t].pc # "recheck"
    BY <1>3
  <2> QED BY <1>0, <1>3, <2>3, <2>4, KeepsSlot, Zenon
<1>4. ASSUME NEW pc \in {"retireRetry", "retireFail", "stamp"}, Goto(t, pc),
             active' = [active EXCEPT ![caller[t].entry] = @ - 1]
      PROVE  \E r : CallEffect(t, r)
  <2>1. pc \in Pcs /\ pc \notin {"cas", "recheck"} /\ pc # "cas"
    BY DEF Pcs
  <2>2. PICK r : GoesTo(t, r, pc)
    BY <1>0, <1>4, <2>1, GotoBecomes, Zenon
  <2>3. /\ Becomes(t, r) /\ r.pc = pc /\ r.pool = caller[t].pool /\ r.entry = caller[t].entry
    BY <2>2, Zenon DEF GoesTo
  <2>4. Consistent(r)
    BY <1>2, <2>1, <2>3, Zenon DEF Consistent
  <2>5. r.pc \in {"probe", "retireRetry", "retireFail", "stamp"}
    BY <1>4, <2>3, Zenon
  <2>6. caller[t].pc \in {"recheck", "request", "awaiting", "open"}
    BY <1>0, Zenon
  <2> QED BY <1>0, <1>4, <2>3, <2>4, <2>5, <2>6, GivesSlotBack, Zenon
<1>5. CASE SendOk(t) \/ ResponseOk(t)
  BY <1>1, <1>3, <1>5, Zenon DEF SendOk, ResponseOk
<1>6. CASE SendFails(t) \/ ResponseFails(t) \/ Release(t)
  BY <1>1, <1>4, <1>6, Zenon DEF SendFails, ResponseFails, GiveBack, Release
<1> QED BY <1>5, <1>6, Zenon

(* The steps after the slot was given back, and the wait for a permit. *)
LEMMA TailEffect ==
    ASSUME Ready, NEW t \in Callers, Retire(t) \/ PermitAbandoned(t) \/ Stamp(t)
    PROVE  RestTyped /\ \E r : CallEffect(t, r)
<1>0. /\ caller \in [Callers -> Calls] /\ caller[t] \in Calls
      /\ caller[t].pc \in {"permit", "retireRetry", "retireFail", "stamp"}
      /\ UNCHANGED <<registered, entries, permits, reaper, active, leaked>>
  BY Zenon DEF Ready, PoolTypes, Retire, PermitAbandoned, Stamp
<1>1. RestTyped
  <2>1. retired' \in [Entries -> BOOLEAN] /\ idle' \in [Entries -> BOOLEAN]
    BY Zenon DEF Ready, PoolTypes, Retire, PermitAbandoned, Stamp
  <2> QED BY <1>0, <2>1, RestKept, Zenon
<1>2. CASE LeavePool(t)
  <2>1. Becomes(t, NoCall) /\ NoCall.pc = "out" /\ Consistent(NoCall)
    BY <1>2, LeaveBecomes, NoCallFits, Zenon
  <2>2. CallEffect(t, NoCall)
    BY <1>0, <2>1, PlainStep, Zenon
  <2> QED BY <1>1, <2>2, Zenon
<1>3. CASE caller' = [caller EXCEPT ![t].pc = "permit", ![t].entry = 0]
  <2> DEFINE s == caller[t]
  <2> DEFINE r == [s EXCEPT !.pc = "permit", !.entry = 0]
  <2>1. caller' = [caller EXCEPT ![t] = r]
    BY <1>3, Zenon
  <2>2. 0 \in 0..EntryMax /\ "permit" \in Pcs /\ "permit" # "out" /\ "permit" \notin WithEntry
        /\ "permit" \notin {"cas", "recheck"} /\ "permit" # "cas"
    BY H2Assumption DEF Pcs, WithEntry
  <2>3. s.pool \in Pools
    <3>1. s.pc # "out"
      BY <1>0
    <3> QED BY <3>1, Zenon DEF Ready, Consistent
  <2> HIDE DEF s
  <2>4. r \in Calls /\ r.pc = "permit" /\ r.pool = s.pool
    BY <1>0, <2>2, Zenon DEF Calls, s
  <2> HIDE DEF r
  <2>5. Consistent(r)
    BY <2>2, <2>3, <2>4, Zenon DEF Consistent
  <2>6. CallEffect(t, r)
    BY <1>0, <2>1, <2>4, <2>5, PlainStep, Zenon DEF Becomes
  <2> QED BY <1>1, <2>6, Zenon
<1> QED BY <1>2, <1>3, Zenon DEF Retire, PermitAbandoned, Stamp

(* The call ends and its slot stays counted. *)
LEMMA LostEffect ==
    ASSUME Ready, NEW t \in Callers, PooledLost(t) \/ FirstFails(t)
    PROVE  RestTyped /\ \E r : CallEffect(t, r)
<1>0. /\ caller[t].pc \in {"request", "awaiting", "first"} /\ active' = active
      /\ UNCHANGED <<registered, entries, reaper, idle>> /\ LeavePool(t)
      /\ leaked' = [leaked EXCEPT ![caller[t].entry] = @ + 1]
      /\ retired \in [Entries -> BOOLEAN] /\ idle \in [Entries -> BOOLEAN]
  BY Zenon DEF Ready, PoolTypes, PooledLost, FirstFails
<1>1. RestTyped
  <2>1. retired' \in [Entries -> BOOLEAN]
    BY <1>0, Zenon DEF PooledLost, FirstFails
  <2> QED BY <1>0, <2>1, RestKept, Zenon
<1>2. Becomes(t, NoCall) /\ NoCall.pc = "out" /\ Consistent(NoCall) /\ "out" \notin Slotted
  BY <1>0, LeaveBecomes, NoCallFits, Zenon
<1>3. caller[t].pc \in Slotted /\ "out" \notin {"handshake", "first"}
  BY <1>0, Zenon DEF Slotted
<1>4. /\ caller[t].entry \in Entries /\ \A e \in Entries : ~InStream(NoCall, e)
      /\ SlotLost(t, NoCall, caller[t].entry)
  BY <1>0, <1>2, <1>3, SlotOfCall, Zenon DEF SlotLost
<1>5. CASE PooledLost(t)
  <2>1. permits' = permits /\ caller[t].pc \in {"request", "awaiting"}
    BY <1>5, Zenon DEF PooledLost
  <2>2. caller[t].pc \notin {"handshake", "first"}
    BY <2>1
  <2>3. PermitsKept(t, NoCall)
    BY <1>2, <1>3, <2>1, <2>2, NoPermitHeld, Zenon DEF PermitsKept
  <2>4. CallEffect(t, NoCall)
    BY <1>2, <1>4, <2>3, Zenon DEF CallEffect, SlotEffect, PermitEffect
  <2> QED BY <1>1, <2>4, Zenon
<1>6. CASE FirstFails(t)
  <2>1. permits' = [permits EXCEPT ![caller[t].pool] = @ + 1] /\ caller[t].pc = "first"
    BY <1>6, Zenon DEF FirstFails, ReturnPermit
  <2>2. caller[t].pc \in {"handshake", "first"}
    BY <2>1, Zenon
  <2>3. caller[t].pool \in Pools /\ PermitBack(t, NoCall, caller[t].pool)
    BY <1>2, <1>3, <2>1, <2>2, PermitOfCall, Zenon DEF PermitBack
  <2>4. CallEffect(t, NoCall)
    BY <1>2, <1>4, <2>3, Zenon DEF CallEffect, SlotEffect, PermitEffect
  <2> QED BY <1>1, <2>4, Zenon
<1> QED BY <1>5, <1>6, Zenon

(* The permit around the creation of a connection. *)
LEMMA PermitCallEffect ==
    ASSUME Ready, NEW t \in Callers, AcquirePermit(t) \/ HandshakeFails(t) \/ FirstOk(t)
    PROVE  RestTyped /\ \E r : CallEffect(t, r)
<1>0. /\ caller \in [Callers -> Calls] /\ caller[t] \in Calls
      /\ UNCHANGED <<registered, entries, reaper, active, retired, idle, leaked>>
      /\ caller[t].pc \in {"permit", "handshake", "first"}
  BY Zenon DEF Ready, PoolTypes, AcquirePermit, HandshakeFails, FirstOk
<1>1. RestTyped
  BY <1>0, RestKept, Zenon DEF Ready, PoolTypes
<1>2. caller[t].pool \in Pools
  <2>1. caller[t].pc # "out"
    BY <1>0
  <2> QED BY <2>1, Zenon DEF Ready, Consistent
<1>3. /\ "permit" \notin Slotted /\ "handshake" \notin Slotted /\ "first" \in Slotted
      /\ "open" \in Slotted /\ "handshake" \in Pcs /\ "open" \in Pcs
      /\ "handshake" \notin WithEntry /\ "first" \in WithEntry
  BY DEF Slotted, WithEntry, Pcs
<1>4. CASE AcquirePermit(t)
  <2>1. /\ caller[t].pc = "permit" /\ Goto(t, "handshake")
        /\ permits' = [permits EXCEPT ![caller[t].pool] = @ - 1]
    BY <1>4, Zenon DEF AcquirePermit
  <2>2. PICK r : GoesTo(t, r, "handshake")
    BY <1>0, <1>3, <2>1, GotoBecomes, Zenon
  <2>3. Becomes(t, r) /\ r.pc = "handshake" /\ r.pool = caller[t].pool
    BY <2>2, Zenon DEF GoesTo
  <2>4. "handshake" \notin {"cas", "recheck"} /\ "handshake" # "cas"
        /\ "permit" \notin {"handshake", "first"}
    OBVIOUS
  <2>5. Consistent(r)
    BY <1>2, <1>3, <2>3, <2>4, Zenon DEF Consistent
  <2>6. SlotsKept(t, r) /\ \A e \in Entries : ~InStream(r, e)
    BY <1>0, <1>3, <2>1, <2>3, NothingHeld, Zenon DEF SlotsKept
  <2>7. PermitTaken(t, r, caller[t].pool)
    BY <2>1, <2>3, <2>4, Zenon DEF PermitTaken, HoldsPermit, PermitOnly
  <2>8. CallEffect(t, r)
    BY <1>2, <2>3, <2>5, <2>6, <2>7, Zenon DEF CallEffect, SlotEffect, PermitEffect
  <2> QED BY <1>1, <2>8, Zenon
<1>5. CASE HandshakeFails(t)
  <2>1. /\ caller[t].pc = "handshake" /\ LeavePool(t)
        /\ permits' = [permits EXCEPT ![caller[t].pool] = @ + 1]
    BY <1>5, Zenon DEF HandshakeFails, ReturnPermit
  <2>2. Becomes(t, NoCall) /\ NoCall.pc = "out" /\ Consistent(NoCall) /\ "out" \notin Slotted
    BY <2>1, LeaveBecomes, NoCallFits, Zenon
  <2>3. SlotsKept(t, NoCall) /\ \A e \in Entries : ~InStream(NoCall, e)
    BY <1>0, <1>3, <2>1, <2>2, NothingHeld, Zenon DEF SlotsKept
  <2>4. "out" \notin {"handshake", "first"} /\ caller[t].pc \in {"handshake", "first"}
    BY <2>1
  <2>5. PermitBack(t, NoCall, caller[t].pool)
    BY <2>1, <2>2, <2>4, PermitOfCall, Zenon DEF PermitBack
  <2>6. CallEffect(t, NoCall)
    BY <1>2, <2>2, <2>3, <2>5, Zenon DEF CallEffect, SlotEffect, PermitEffect
  <2> QED BY <1>1, <2>6, Zenon
<1>6. CASE FirstOk(t)
  <2>1. /\ caller[t].pc = "first" /\ Goto(t, "open")
        /\ permits' = [permits EXCEPT ![caller[t].pool] = @ + 1]
    BY <1>6, Zenon DEF FirstOk, ReturnPermit
  <2>2. PICK r : GoesTo(t, r, "open")
    BY <1>0, <1>3, <2>1, GotoBecomes, Zenon
  <2>3. /\ Becomes(t, r) /\ r.pc = "open" /\ r.pool = caller[t].pool /\ r.entry = caller[t].entry
    BY <2>2, Zenon DEF GoesTo
  <2>4. /\ "open" \notin {"cas", "recheck"} /\ "open" # "cas" /\ "first" # "recheck"
        /\ "open" \notin {"handshake", "first"} /\ caller[t].pc \in {"handshake", "first"}
    BY <2>1, Zenon
  <2>5. caller[t].entry \in Entries
    BY <1>3, <2>1, Zenon DEF Ready, Consistent
  <2>6. Consistent(r)
    BY <1>2, <2>3, <2>4, <2>5, Zenon DEF Consistent
  <2>7. SlotsKept(t, r) /\ \A e \in Entries : InStream(r, e) => InStream(caller[t], e)
    BY <1>0, <1>3, <2>1, <2>3, <2>4, Zenon DEF SlotsKept, HoldsSlot, InStream
  <2>8. PermitBack(t, r, caller[t].pool)
    BY <2>1, <2>3, <2>4, PermitOfCall, Zenon DEF PermitBack
  <2>9. CallEffect(t, r)
    BY <1>2, <2>3, <2>6, <2>7, <2>8, Zenon DEF CallEffect, SlotEffect, PermitEffect
  <2> QED BY <1>1, <2>9, Zenon
<1> QED BY <1>4, <1>5, <1>6, Zenon

(* create_entry: the number is of a connection nobody refers to, so nobody *)
(* holds a slot of it, and the call that creates it is its first stream.   *)
LEMMA CreateEffect ==
    ASSUME Ready, NEW t \in Callers, CreateEntry(t)
    PROVE  RestTyped /\ \E r : CallEffect(t, r)
<1> DEFINE s == caller[t]
<1>0. /\ s \in Calls /\ s.pc = "handshake" /\ ~Scanning(s.pool)
      /\ registered' = registered /\ permits' = permits
      /\ reaper' = [reaper EXCEPT ![s.pool] = MaybeStartReaper(@)]
  BY Zenon DEF Ready, PoolTypes, CreateEntry
<1>1. PICK e \in Entries :
         /\ ~Live(e)
         /\ entries' = [entries EXCEPT ![s.pool] = Append(@, e)]
         /\ active' = [active EXCEPT ![e] = 1]
         /\ retired' = [retired EXCEPT ![e] = FALSE]
         /\ idle' = [idle EXCEPT ![e] = FALSE]
         /\ leaked' = [leaked EXCEPT ![e] = 0]
         /\ caller' = [caller EXCEPT ![t].pc = "first", ![t].entry = e]
  BY Zenon DEF CreateEntry
<1>2. s.pool \in Pools
  <2>1. s.pc # "out"
    BY <1>0, Zenon
  <2> QED BY <2>1, Zenon DEF Ready, Consistent
<1>3. /\ e \in 0..EntryMax /\ "first" \in Pcs /\ "first" \in Slotted /\ "handshake" \notin Slotted
      /\ "first" \notin {"cas", "recheck"} /\ "first" # "cas" /\ "first" # "out"
  BY H2Assumption DEF Entries, Pcs, Slotted
<1> DEFINE r == [s EXCEPT !.pc = "first", !.entry = e]
<1>4. caller' = [caller EXCEPT ![t] = r]
  BY <1>1, Zenon
<1>5. \A u \in Callers : caller[u].entry # e
  BY <1>1, Zenon DEF Live
<1>6. Holders(e) = {}
  BY <1>5, Zenon DEF Holders
<1>7. reaper \in [Pools -> Reapers] /\ entries \in [Pools -> Seq(Entries)]
  BY Zenon DEF Ready, PoolTypes
<1>8. RestTyped
  <2>1. MaybeStartReaper(reaper[s.pool]) \in Reapers
    <3>1. reaper[s.pool] \in Reapers
      BY <1>2, <1>7, Zenon
    <3>2. Sleeping \in Reapers
      BY DEF Sleeping, Reapers
    <3> QED BY <3>1, <3>2, Zenon DEF MaybeStartReaper
  <2>2. /\ reaper' \in [Pools -> Reapers] /\ \A q \in Pools \ {s.pool} : reaper'[q] = reaper[q]
        /\ reaper'[s.pool] = MaybeStartReaper(reaper[s.pool])
    BY <1>0, <1>2, <1>7, <2>1, Zenon
  <2>3. Append(entries[s.pool], e) \in Seq(Entries)
    <3>1. entries[s.pool] \in Seq(Entries)
      BY <1>2, <1>7, Zenon
    <3> HIDE DEF s
    <3> QED BY <3>1
  <2>4. /\ entries' \in [Pools -> Seq(Entries)]
        /\ \A q \in Pools \ {s.pool} : entries'[q] = entries[q]
    BY <1>1, <1>2, <1>7, <2>3, Zenon
  <2>5. reaper'[s.pool].pc \notin {"scan", "mark"}
    <3>1. Sleeping.pc \notin {"scan", "mark"}
      BY DEF Sleeping
    <3> QED BY <1>0, <2>2, <3>1, Zenon DEF MaybeStartReaper, Scanning
  <2>6. Scans'
    BY <2>2, <2>4, <2>5, Zenon DEF Ready, Scans, Scanning
  <2>7. retired' \in [Entries -> BOOLEAN] /\ idle' \in [Entries -> BOOLEAN]
    BY <1>1, Zenon DEF Ready, PoolTypes
  <2> QED BY <1>0, <2>2, <2>4, <2>6, <2>7, Zenon DEF RestTyped, Ready, PoolTypes
<1>9. retired'[e] = FALSE
  BY <1>1, Zenon DEF Ready, PoolTypes
<1> HIDE DEF s
<1>10. r \in Calls /\ r.pc = "first" /\ r.pool = s.pool /\ r.entry = e
  BY <1>0, <1>3, Zenon DEF Calls
<1> HIDE DEF r
<1>11. Consistent(r)
  BY <1>2, <1>3, <1>10, Zenon DEF Consistent
<1>12. SlotFirst(t, r, e)
  BY <1>0, <1>1, <1>3, <1>6, <1>10, Zenon DEF SlotFirst, HoldsSlot, SlotOnly, s
<1>13. PermitsKept(t, r)
  BY <1>0, <1>10, Zenon DEF PermitsKept, HoldsPermit, s
<1>14. \A f \in Entries : InStream(r, f) => ~retired'[f]
  BY <1>9, <1>10, Zenon DEF InStream, HoldsSlot
<1>15. CallEffect(t, r)
  BY <1>4, <1>10, <1>11, <1>12, <1>13, <1>14, Zenon
     DEF CallEffect, Becomes, SlotEffect, PermitEffect
<1> QED BY <1>8, <1>15, Zenon

(* Every step of a call. *)
LEMMA EveryCall ==
    ASSUME Ready, NEW t \in Callers, Call(t)
    PROVE  RestTyped /\ \E r : CallEffect(t, r)
  BY GetPoolEffect, ProbeEffect, ExchangeEffect, RecheckEffect, PooledEffect, TailEffect,
     LostEffect, PermitCallEffect, CreateEffect, Zenon DEF Call
-----------------------------------------------------------------------------
(* What the reaper drops is in the vector it scans. *)
LEMMA RemoveType ==
    ASSUME NEW q \in Seq(Entries), NEW i \in Nat, i >= 1, i <= Len(q)
    PROVE  Remove(q, i) \in Seq(Entries)
<1>1. SubSeq(q, 1, i - 1) \in Seq(Entries) /\ SubSeq(q, i + 1, Len(q)) \in Seq(Entries)
  <2>1. \A j \in 1..(i - 1) : q[j] \in Entries
    OBVIOUS
  <2>2. \A j \in (i + 1)..Len(q) : q[j] \in Entries
    OBVIOUS
  <2> QED BY <2>1, <2>2
<1> QED BY <1>1 DEF Remove

(* The reaper, the clock and a reload leave the callers, the counts and    *)
(* the permits alone.                                                      *)
Aside == UNCHANGED <<caller, active, leaked, permits>>

(* The reaper drops connections and touches no slot and no permit. *)
LEMMA ReaperEffect ==
    ASSUME Ready, NEW p \in Pools, Reaper(p)
    PROVE  RestTyped /\ Aside
<1>0. /\ reaper \in [Pools -> Reapers] /\ reaper[p] \in Reapers /\ reaper[p].i \in Nat
      /\ entries \in [Pools -> Seq(Entries)] /\ entries[p] \in Seq(Entries)
      /\ retired \in [Entries -> BOOLEAN] /\ idle \in [Entries -> BOOLEAN]
      /\ registered \in 0..PoolMax
      /\ Scanning(p) => reaper[p].i >= 1
      /\ reaper[p].pc = "mark" => reaper[p].i <= Len(entries[p])
  BY Zenon DEF Ready, PoolTypes, Reapers, Scans
<1>1. Aside /\ registered' = registered /\ idle' = idle
  BY Zenon DEF Reaper, ReaperWakes, ReaperEnds, ReaperScans, ReaperMarks, ReaperSleeps, Aside
<1>2. ASSUME NEW r \in Reapers, reaper' = [reaper EXCEPT ![p] = r],
             NEW v \in Seq(Entries), entries' = [entries EXCEPT ![p] = v],
             r.pc \in {"scan", "mark"} => r.i >= 1, r.pc = "mark" => r.i <= Len(v),
             retired' \in [Entries -> BOOLEAN]
      PROVE  RestTyped
  <2>1. /\ reaper' \in [Pools -> Reapers] /\ reaper'[p] = r
        /\ entries' \in [Pools -> Seq(Entries)] /\ entries'[p] = v
        /\ \A q \in Pools \ {p} : reaper'[q] = reaper[q] /\ entries'[q] = entries[q]
    BY <1>0, <1>2, Zenon
  <2>2. Scans'
    BY <1>2, <2>1, Zenon DEF Ready, Scans, Scanning
  <2> QED BY <1>0, <1>1, <1>2, <2>1, <2>2, Zenon DEF RestTyped
<1>3. entries' = entries => entries' = [entries EXCEPT ![p] = entries[p]]
  BY <1>0, Zenon
<1>4. CASE ReaperWakes(p)
  <2> DEFINE r == [pc |-> "scan", i |-> 1]
  <2>1. r \in Reapers /\ (r.pc \in {"scan", "mark"} => r.i >= 1) /\ r.pc # "mark"
    BY DEF Reapers
  <2>2. reaper' = [reaper EXCEPT ![p] = r] /\ entries' = entries /\ retired' = retired
    BY <1>4, Zenon DEF ReaperWakes
  <2> HIDE DEF r
  <2> QED BY <1>0, <1>1, <1>2, <1>3, <2>1, <2>2, Zenon
<1>5. CASE ReaperEnds(p) \/ ReaperSleeps(p)
  <2>1. PICK r \in Reapers : r.pc \notin {"scan", "mark"} /\ reaper' = [reaper EXCEPT ![p] = r]
    <3>1. [pc |-> "none", i |-> 0] \in Reapers /\ Sleeping \in Reapers
          /\ [pc |-> "none", i |-> 0].pc \notin {"scan", "mark"} /\ Sleeping.pc \notin {"scan", "mark"}
      BY DEF Reapers, Sleeping
    <3> QED BY <1>5, <3>1, Zenon DEF ReaperEnds, ReaperSleeps
  <2>2. entries' = entries /\ retired' = retired
    BY <1>5, Zenon DEF ReaperEnds, ReaperSleeps
  <2>3. r.pc # "mark"
    BY <2>1
  <2> QED BY <1>0, <1>1, <1>2, <1>3, <2>1, <2>2, <2>3, Zenon
<1>6. ASSUME Drop(p), Scanning(p), reaper[p].i <= Len(entries[p]), retired' \in [Entries -> BOOLEAN]
      PROVE  RestTyped
  <2> DEFINE x == reaper[p]
  <2> DEFINE r == [x EXCEPT !.pc = "scan"]
  <2> DEFINE v == Remove(entries[p], x.i)
  <2>1. v \in Seq(Entries)
    BY <1>0, <1>6, RemoveType, Zenon
  <2>2. reaper' = [reaper EXCEPT ![p] = r] /\ entries' = [entries EXCEPT ![p] = v]
    BY <1>6, Zenon DEF Drop
  <2>3. x \in Reapers /\ x.i >= 1 /\ "scan" \in {"none", "sleeping", "scan", "mark"} /\ "scan" # "mark"
    BY <1>0, <1>6, Zenon
  <2> HIDE DEF x
  <2>4. r \in Reapers /\ r.i = x.i /\ r.pc = "scan"
    BY <2>3, Zenon DEF Reapers
  <2> HIDE DEF r, v
  <2> QED BY <1>2, <1>6, <2>1, <2>2, <2>3, <2>4, Zenon
<1>7. CASE ReaperScans(p)
  <2>1. /\ reaper[p].pc = "scan" /\ reaper[p].i <= Len(entries[p]) /\ retired' = retired
        /\ Drop(p) \/ Keep(p) \/ (reaper' = [reaper EXCEPT ![p].pc = "mark"] /\ entries' = entries)
    BY <1>7, Zenon DEF ReaperScans
  <2>2. Scanning(p)
    BY <2>1, Zenon DEF Scanning
  <2>3. CASE Drop(p)
    BY <1>0, <1>1, <1>6, <2>1, <2>2, <2>3, Zenon
  <2>4. CASE Keep(p)
    <3> DEFINE r == [pc |-> "scan", i |-> reaper[p].i + 1]
    <3>1. r \in Reapers /\ r.i >= 1 /\ r.pc # "mark"
      <4>1. reaper[p].i + 1 \in Nat /\ reaper[p].i + 1 >= 1
        BY <1>0
      <4>2. "scan" \in {"none", "sleeping", "scan", "mark"} /\ "scan" # "mark"
        OBVIOUS
      <4> QED BY <4>1, <4>2, Zenon DEF Reapers
    <3>2. reaper' = [reaper EXCEPT ![p] = r] /\ entries' = entries
      BY <2>4, Zenon DEF Keep
    <3> HIDE DEF r
    <3> QED BY <1>0, <1>1, <1>2, <1>3, <2>1, <3>1, <3>2, Zenon
  <2>5. CASE reaper' = [reaper EXCEPT ![p].pc = "mark"] /\ entries' = entries
    <3> DEFINE x == reaper[p]
    <3> DEFINE r == [x EXCEPT !.pc = "mark"]
    <3>1. reaper' = [reaper EXCEPT ![p] = r]
      BY <2>5, Zenon
    <3>2. x \in Reapers /\ x.i >= 1 /\ "mark" \in {"none", "sleeping", "scan", "mark"}
          /\ x.i <= Len(entries[p])
      BY <1>0, <2>1, <2>2, Zenon
    <3> HIDE DEF x
    <3>3. r \in Reapers /\ r.i = x.i
      BY <3>2, Zenon DEF Reapers
    <3> HIDE DEF r
    <3> QED BY <1>0, <1>1, <1>2, <1>3, <2>1, <2>5, <3>1, <3>2, <3>3, Zenon
  <2> QED BY <2>1, <2>3, <2>4, <2>5, Zenon
<1>8. CASE ReaperMarks(p)
  <2>1. /\ reaper[p].pc = "mark" /\ Drop(p) /\ retired' \in [Entries -> BOOLEAN]
    BY <1>0, <1>8, Zenon DEF ReaperMarks
  <2>2. Scanning(p) /\ reaper[p].i <= Len(entries[p])
    BY <1>0, <2>1, Zenon DEF Scanning
  <2> QED BY <1>1, <1>6, <2>1, <2>2, Zenon
<1> QED BY <1>4, <1>5, <1>7, <1>8, Zenon DEF Reaper

(* The clock and a reload. *)
LEMMA AsideEffect ==
    ASSUME Ready, (\E e \in Entries : Age(e)) \/ Clear
    PROVE  RestTyped /\ Aside
<1>0. 0 \in 0..PoolMax
  BY H2Assumption
<1>1. /\ Aside /\ UNCHANGED <<entries, reaper, retired>> /\ registered' \in 0..PoolMax
      /\ idle' \in [Entries -> BOOLEAN]
  BY <1>0, Zenon DEF Ready, PoolTypes, Age, Clear, Aside
<1> QED BY <1>1, Zenon DEF Ready, PoolTypes, RestTyped, Scans, Scanning

(* Every step is a step of one call, or leaves the calls, the counts and   *)
(* the permits alone.                                                      *)
LEMMA StepKinds ==
    ASSUME Ready, [PoolNext]_poolVars
    PROVE  RestTyped /\ (Aside \/ \E t \in Callers : \E r : CallEffect(t, r))
<1>1. CASE PoolNext
  BY <1>1, EveryCall, ReaperEffect, AsideEffect, Zenon DEF PoolNext
<1>2. CASE UNCHANGED poolVars
  <2>1. Aside /\ UNCHANGED <<registered, entries, reaper, retired, idle>>
    BY <1>2, Zenon DEF poolVars, Aside
  <2> QED BY <2>1, RestKept, Zenon DEF Ready, PoolTypes
<1> QED BY <1>1, <1>2, Zenon

(* The inductive invariant, in the terms of the lemmas above. *)
LEMMA PoolInvParts ==
    PoolInv <=> Ready /\ SlotsExact /\ PermitsExact
  BY Zenon DEF PoolInv, Ready, PoolTypes, SlotsExact, PermitsExact, Accounted

(* At the start nobody is in the pool. *)
LEMMA PoolStarts == PoolInit => PoolInv
<1> SUFFICES ASSUME PoolInit PROVE PoolInv
  BY Zenon
<1>0. NoCall \in Calls
  <2>1. <<>> \in Seq(Entries) /\ 0 \in 0..PoolMax /\ 0 \in 0..EntryMax /\ 0 \in Int /\ "out" \in Pcs
    BY H2Assumption DEF Pcs
  <2> QED BY <2>1, Zenon DEF Calls, NoCall
<1>1. \A t \in Callers : caller[t] = NoCall
  BY Zenon DEF PoolInit
<1>2. Ready
  <2>1. /\ 0 \in 0..PoolMax /\ <<>> \in Seq(Entries) /\ PoolSize \in Int /\ 0 \in Int
        /\ [pc |-> "none", i |-> 0] \in Reapers
        /\ [pc |-> "none", i |-> 0].pc \notin {"scan", "mark"}
    BY H2Assumption DEF Reapers
  <2>2. PoolTypes
    BY <1>0, <2>1, Zenon DEF PoolInit, PoolTypes
  <2>3. Scans
    BY <2>1, Zenon DEF PoolInit, Scans, Scanning
  <2> QED BY <1>1, <2>2, <2>3, NoCallFits, Zenon DEF Ready
<1>3. /\ \A e : Holders(e) = {} /\ \A p : Creators(p) = {}
  <2>1. NoCall.pc = "out" /\ "out" \notin {"handshake", "first"} /\ "out" \notin Slotted
    BY DEF NoCall, Slotted
  <2>2. \A e : \A t \in Callers : ~HoldsSlot(caller[t], e)
    BY <1>1, <2>1, Zenon DEF HoldsSlot
  <2>3. \A p : \A t \in Callers : ~HoldsPermit(caller[t], p)
    BY <1>1, <2>1, Zenon DEF HoldsPermit
  <2> QED BY <2>2, <2>3, HoldersAre, Zenon
<1>4. Cardinality({}) = 0 /\ 0 <= MaxStreams /\ 0 = 0 + 0 /\ PoolSize + 0 = PoolSize
      /\ 0 \in Int /\ PoolSize \in Int
  BY FS_EmptySet, H2Assumption
<1>5. SlotsExact
  BY <1>3, <1>4, Zenon DEF PoolInit, SlotsExact
<1>6. PermitsExact
  BY <1>3, <1>4, Zenon DEF PoolInit, PermitsExact
<1> QED BY <1>2, <1>5, <1>6, PoolInvParts, Zenon

(* Every step keeps the invariant. *)
LEMMA PoolStep == PoolInv /\ [PoolNext]_poolVars => PoolInv'
<1> SUFFICES ASSUME PoolInv, [PoolNext]_poolVars PROVE PoolInv'
  BY Zenon
<1>0. Ready /\ SlotsExact /\ PermitsExact
  BY PoolInvParts, Zenon
<1>1. RestTyped /\ (Aside \/ \E t \in Callers : \E r : CallEffect(t, r))
  BY <1>0, StepKinds, Zenon
<1>2. ASSUME caller' \in [Callers -> Calls], \A t \in Callers : Consistent(caller'[t]),
             SlotsExact', PermitsExact'
      PROVE  PoolInv'
  BY <1>1, <1>2, Zenon DEF PoolInv, PoolTypes, RestTyped, Accounted, SlotsExact, PermitsExact,
     Consistent
<1>3. CASE Aside
  <2>1. /\ caller' = caller /\ caller' \in [Callers -> Calls]
        /\ \A t \in Callers : Consistent(caller'[t])
    BY <1>0, <1>3, Zenon DEF Aside, Ready, PoolTypes, Consistent
  <2>2. (\A e : Holders(e)' = Holders(e)) /\ (\A p : Creators(p)' = Creators(p))
    BY <2>1, Zenon DEF Holders, Creators
  <2>3. SlotsExact' /\ PermitsExact'
    BY <1>0, <1>3, <2>2, Zenon DEF Aside, SlotsExact, PermitsExact
  <2> QED BY <1>2, <2>1, <2>3, Zenon
<1>4. ASSUME NEW t \in Callers, NEW r, CallEffect(t, r) PROVE PoolInv'
  <2>1. /\ Becomes(t, r) /\ Consistent(r) /\ SlotEffect(t, r) /\ PermitEffect(t, r)
        /\ caller \in [Callers -> Calls]
    BY <1>0, <1>4, Zenon DEF CallEffect, Ready, PoolTypes
  <2>2. /\ caller' \in [Callers -> Calls] /\ caller'[t] = r
        /\ \A u \in Callers \ {t} : caller'[u] = caller[u]
    BY <2>1, Moved, Zenon
  <2>3. \A u \in Callers : Consistent(caller'[u])
    BY <1>0, <2>1, <2>2, Zenon DEF Ready
  <2>4. SlotsExact'
    BY <1>0, <2>1, <2>2, SlotStep, Zenon
  <2>5. PermitsExact'
    BY <1>0, <2>1, <2>2, PermitStep, Zenon
  <2> QED BY <1>2, <2>2, <2>3, <2>4, <2>5, Zenon
<1> QED BY <1>1, <1>3, <1>4, Zenon

(* The program keeps it. *)
LEMMA PoolInductive == PoolSpec => []PoolInv
  BY PoolStarts, PoolStep, PTL DEF PoolSpec

(* Every slot of a connection and every permit of a pool is accounted for, *)
(* whatever fails, is cancelled or races: for any number of callers,       *)
(* connections and pools, active_streams never exceeds                     *)
(* max_concurrent_streams, is the number of callers that hold a slot plus  *)
(* the slots lost on the paths that drop one, and the permits that are not *)
(* free are held by calls that create a connection.                        *)
THEOREM PoolAccounted == PoolSpec => []Accounted
<1>1. PoolInv => Accounted
  BY Zenon DEF PoolInv
<1> QED BY <1>1, PoolInductive, PTL

(* A retired connection only drains: whatever a caller had loaded before   *)
(* the flag was set, try_acquire's second load keeps it from being given a *)
(* stream afterwards.                                                      *)
THEOREM PoolRetiredDrains == PoolSpec => RetiredDrains
<1>1. ASSUME PoolInv, [PoolNext]_poolVars, NEW e \in Entries, retired[e], retired'[e]
      PROVE  Streams(e)' \subseteq Streams(e)
  <2>0. Ready
    BY <1>1, PoolInvParts, Zenon
  <2>1. Streams(e) = {t \in Callers : InStream(caller[t], e)}
    BY Zenon DEF Streams, Holders, InStream, HoldsSlot, Slotted
  <2>2. Streams(e)' = {t \in Callers : InStream(caller'[t], e)}
    BY Zenon DEF Streams, Holders, InStream, HoldsSlot, Slotted
  <2>3. \A u \in Callers : InStream(caller'[u], e) => InStream(caller[u], e)
    <3>1. Aside \/ \E t \in Callers : \E r : CallEffect(t, r)
      BY <1>1, <2>0, StepKinds, Zenon
    <3>2. CASE Aside
      BY <3>2, Zenon DEF Aside
    <3>3. ASSUME NEW t \in Callers, NEW r, CallEffect(t, r)
          PROVE  \A u \in Callers : InStream(caller'[u], e) => InStream(caller[u], e)
      <4>1. Becomes(t, r) /\ caller \in [Callers -> Calls]
        BY <2>0, <3>3, Zenon DEF CallEffect, Ready, PoolTypes
      <4>2. caller'[t] = r /\ \A u \in Callers \ {t} : caller'[u] = caller[u]
        BY <4>1, Moved, Zenon
      <4>3. InStream(r, e) => InStream(caller[t], e)
        BY <1>1, <3>3, Zenon DEF CallEffect
      <4> QED BY <4>2, <4>3, Zenon
    <3> QED BY <3>1, <3>2, <3>3, Zenon
  <2> QED BY <2>1, <2>2, <2>3, Zenon
<1>2. PoolInv /\ [PoolNext]_poolVars =>
         [\A e \in Entries : retired[e] /\ retired'[e] => Streams(e)' \subseteq Streams(e)]_poolVars
  BY <1>1, Zenon
<1> QED BY <1>2, PoolInductive, PTL DEF PoolSpec, RetiredDrains
-----------------------------------------------------------------------------
(* Associations. *)
RunningRelays == {a \in Assocs : relay[a] = "running"}

AssocShape ==
    /\ sections \in UdpSections
    /\ registry \in SUBSET Assocs
    /\ control \in [Assocs -> {"waiting", "created", "replying", "open", "done"}]
    /\ relay \in [Assocs -> {"none", "spawned", "running", "removing", "done"}]
    /\ closed \in SUBSET Assocs
    /\ closing \in SUBSET Assocs
    /\ closeAll \in {"before", "in", "after"}
    /\ afterDrain \in SUBSET Assocs
    /\ associations_active \in Nat

Slots ==
    \A a \in Assocs : control[a] = "created" \/ relay[a] \in {"spawned", "running"}
        => IF a \in afterDrain
           THEN a \in registry \union closed
           ELSE (closeAll = "before" /\ a \in registry) \/ a \in closing \union closed

NotYet ==
    \A a \in Assocs :
        /\ control[a] \in {"waiting", "created"} => relay[a] = "none"
        /\ control[a] = "waiting" => a \notin afterDrain

Once == closeAll = "before" => closing = {} /\ afterDrain = {}

ReachInv == AssocShape /\ Slots /\ NotYet /\ Once

(* The types hold in the first state and every step keeps them. *)
LEMMA ShapeInductive ==
    /\ AssocInit => AssocShape
    /\ AssocShape /\ [AssocNext]_assocVars => AssocShape'
<1>1. AssocInit => AssocShape
  BY DEF AssocInit, AssocShape
<1>2. ASSUME AssocShape, [AssocNext]_assocVars PROVE AssocShape'
  <2> USE DEF AssocShape, Control, Relay, begun
  <2>1. ASSUME NEW a \in Assocs, Session(a) PROVE AssocShape'
    BY <1>2, <2>1, Zenon DEF Session, Create, Refused, BindFails, SpawnRelay, ReplySent,
         ControlCloses, ControlSeesCancel, ControlDropped
  <2>2. ASSUME NEW a \in Assocs, RelayTask(a) PROVE AssocShape'
    BY <1>2, <2>2 DEF RelayTask, RelayStarts, RelayLeaves, RelayCancelled, Leave, RelayRemoves
  <2>3. CASE Shutdown
    BY <1>2, <2>3 DEF Shutdown, Drain, TasksClose, CloseOne
  <2>4. CASE UNCHANGED assocVars
    BY <1>2, <2>4, Zenon DEF assocVars
  <2> QED
    BY <1>2, <2>1, <2>2, <2>3, <2>4, Zenon DEF AssocNext
<1> QED
  BY <1>1, <1>2, Zenon

(* Whatever session, relay or close_all does, a slot is not lost while     *)
(* something still needs it.                                               *)
LEMMA ReachInductive ==
    /\ AssocInit => ReachInv
    /\ ReachInv /\ [AssocNext]_assocVars => ReachInv'
<1>1. AssocInit => ReachInv
  BY ShapeInductive DEF AssocInit, ReachInv, Slots, NotYet, Once
<1>2. ASSUME ReachInv, [AssocNext]_assocVars PROVE ReachInv'
  <2>0. AssocShape'
    BY <1>2, ShapeInductive DEF ReachInv
  <2> SUFFICES Slots' /\ NotYet' /\ Once'
    BY <2>0 DEF ReachInv
  <2> USE DEF ReachInv, AssocShape, Slots, NotYet, Once, Control, Relay, begun
  <2>1. ASSUME NEW a \in Assocs, Session(a) PROVE Slots' /\ NotYet' /\ Once'
    <3>1. CASE Create(a)
      BY <1>2, <3>1 DEF Create
    <3>2. CASE Refused(a) \/ BindFails(a) \/ SpawnRelay(a)
      BY <1>2, <3>2 DEF Refused, BindFails, SpawnRelay
    <3>3. CASE ReplySent(a) \/ ControlCloses(a) \/ ControlSeesCancel(a) \/ ControlDropped(a)
      BY <1>2, <3>3 DEF ReplySent, ControlCloses, ControlSeesCancel, ControlDropped
    <3> QED
      BY <2>1, <3>1, <3>2, <3>3, Zenon DEF Session
  <2>2. ASSUME NEW a \in Assocs, RelayTask(a) PROVE Slots' /\ NotYet' /\ Once'
    BY <1>2, <2>2 DEF RelayTask, RelayStarts, RelayLeaves, RelayCancelled, Leave, RelayRemoves
  <2>3. CASE Shutdown
    BY <1>2, <2>3, Zenon DEF Shutdown, Drain, TasksClose, CloseOne
  <2>4. CASE UNCHANGED assocVars
    BY <1>2, <2>4, Zenon DEF assocVars
  <2> QED
    BY <1>2, <2>1, <2>2, <2>3, <2>4, Zenon DEF AssocNext
<1> QED
  BY <1>1, <1>2

(* A relay that runs, or will, is in the registry that close_all will      *)
(* drain, in the hands of close_all, or cancelled, whatever the order of   *)
(* the steps of sessions, relays and close_all; one whose association was  *)
(* created after the drain has its slot until its token is cancelled, and  *)
(* nothing of shutdown cancels it.                                         *)
THEOREM RelaysReachable == AssocSpec => []EveryRelayReachable
<1>1. ReachInv => EveryRelayReachable
  BY DEF ReachInv, Slots, EveryRelayReachable
<1> QED
  BY <1>1, ReachInductive, PTL DEF AssocSpec

-----------------------------------------------------------------------------
(* Sets of associations are finite, and the global limit is a number.      *)
LEMMA Finite ==
    ASSUME AssocShape
    PROVE  /\ \A S \in SUBSET Assocs : IsFiniteSet(S) /\ Cardinality(S) \in Nat
           /\ GlobalLimit \in Nat
           /\ PerListenerLimit \in Nat
<1>1. \A S \in SUBSET Assocs : IsFiniteSet(S)
  BY UdpAssumption, FS_Subset
<1>2. \A S \in SUBSET Assocs : Cardinality(S) \in Nat
  BY <1>1, FS_CardinalityType
<1>3. GlobalLimit \in Nat
  BY UdpAssumption DEF AssocShape, GlobalLimit
<1> QED
  BY <1>1, <1>2, <1>3, UdpAssumption DEF PerListenerLimit

Within ==
    /\ Cardinality(registry) <= GlobalLimit
    /\ \A l \in Listeners : Cardinality(OnListener(registry, l)) <= PerListenerLimit

Counted == associations_active = Cardinality(RunningRelays)

(* Adding one association to a set with room for it keeps the limit.       *)
LEMMA RoomForOne ==
    ASSUME NEW S \in SUBSET Assocs, NEW a \in Assocs, NEW n \in Nat,
           IsFiniteSet(S), Cardinality(S) \in Nat, Cardinality(S) < n
    PROVE  Cardinality(S \union {a}) <= n
<1>1. Cardinality(S \union {a}) = IF a \in S THEN Cardinality(S) ELSE Cardinality(S) + 1
  BY FS_AddElement, Zenon
<1> QED
  BY <1>1

(* A registry that loses associations stays within its limits. *)
LEMMA FewerIsWithin ==
    ASSUME AssocShape, Within, NEW R \in SUBSET registry
    PROVE  /\ Cardinality(R) <= GlobalLimit
           /\ \A l \in Listeners : Cardinality(OnListener(R, l)) <= PerListenerLimit
<1>1. \A S \in SUBSET Assocs : IsFiniteSet(S) /\ Cardinality(S) \in Nat
  BY Finite
<1>2. R \in SUBSET Assocs
  BY DEF AssocShape
<1>3. Cardinality(R) <= Cardinality(registry)
  BY <1>1, FS_Subset, Zenon DEF AssocShape
<1>4. ASSUME NEW l \in Listeners
      PROVE  Cardinality(OnListener(R, l)) <= PerListenerLimit
  <2>1. OnListener(R, l) \subseteq OnListener(registry, l)
    BY DEF OnListener
  <2>2. OnListener(R, l) \in SUBSET Assocs /\ OnListener(registry, l) \in SUBSET Assocs
    BY <1>2 DEF OnListener, AssocShape
  <2>3. Cardinality(OnListener(R, l)) <= Cardinality(OnListener(registry, l))
    BY <1>1, <2>1, <2>2, FS_Subset
  <2> QED
    BY <1>1, <2>2, <2>3, Finite DEF Within
<1> QED
  BY <1>1, <1>2, <1>3, <1>4, Finite DEF Within, AssocShape

(* The limits are checked and the slot taken under one lock: Create keeps  *)
(* both.                                                                   *)
LEMMA CreateWithin ==
    ASSUME AssocShape, Within, NEW a \in Assocs, Create(a)
    PROVE  Within'
<1>1. /\ \A S \in SUBSET Assocs : IsFiniteSet(S) /\ Cardinality(S) \in Nat
      /\ GlobalLimit \in Nat /\ PerListenerLimit \in Nat
  BY Finite
<1>2. /\ registry' = registry \union {a} /\ GlobalLimit' = GlobalLimit
      /\ PerListenerLimit' = PerListenerLimit
      /\ registry \in SUBSET Assocs /\ Room(a)
  BY Zenon DEF Create, GlobalLimit, PerListenerLimit, AssocShape
<1>3. Cardinality(registry') <= GlobalLimit
  BY <1>1, <1>2, RoomForOne, Zenon DEF Room
<1>4. ASSUME NEW l \in Listeners
      PROVE  Cardinality(OnListener(registry', l)) <= PerListenerLimit
  <2>0. OnListener(registry, l) \in SUBSET Assocs
    BY <1>2 DEF OnListener
  <2>1. CASE l = ListenerOf[a]
    <3>1. OnListener(registry', l) = OnListener(registry, l) \union {a}
      BY <1>2, <2>1, Zenon DEF OnListener
    <3>2. Cardinality(OnListener(registry, l)) < PerListenerLimit
      BY <1>2, <2>1 DEF Room
    <3> QED
      BY <1>1, <2>0, <3>1, <3>2, RoomForOne, Zenon
  <2>2. CASE l # ListenerOf[a]
    <3>1. OnListener(registry', l) = OnListener(registry, l)
      BY <1>2, <2>2 DEF OnListener
    <3> QED
      BY <3>1, <1>4 DEF Within
  <2> QED
    BY <2>1, <2>2
<1> QED
  BY <1>2, <1>3, <1>4, Zenon DEF Within, OnListener

(* A relay that starts is counted up, one that leaves is counted down      *)
(* once, and nothing else changes which relays run.                        *)
LEMMA GaugeFollows ==
    ASSUME AssocShape, Counted, NEW a \in Assocs, RelayTask(a)
    PROVE  Counted'
<1>1. IsFiniteSet(RunningRelays) /\ Cardinality(RunningRelays) \in Nat
  BY Finite DEF RunningRelays
<1>2. CASE RelayStarts(a)
  <2>1. RunningRelays' = RunningRelays \union {a} /\ a \notin RunningRelays
    BY <1>2, Zenon DEF RelayStarts, Relay, RunningRelays, AssocShape
  <2>2. Cardinality(RunningRelays \union {a}) = Cardinality(RunningRelays) + 1
    BY <1>1, <2>1, FS_AddElement, Zenon
  <2> QED
    BY <1>2, <2>1, <2>2 DEF RelayStarts, Counted
<1>3. CASE Leave(a)
  <2>1. RunningRelays' = RunningRelays \ {a} /\ a \in RunningRelays
    BY <1>3 DEF Leave, Relay, RunningRelays, AssocShape
  <2>2. Cardinality(RunningRelays \ {a}) = Cardinality(RunningRelays) - 1
    BY <1>1, <2>1, FS_RemoveElement, Zenon
  <2>3. Cardinality(RunningRelays \ {a}) \in Nat
    BY Finite DEF RunningRelays
  <2> QED
    BY <1>1, <1>3, <2>1, <2>2, <2>3 DEF Leave, Counted
<1>4. CASE RelayRemoves(a)
  <2>1. RunningRelays' = RunningRelays /\ associations_active' = associations_active
    BY <1>4 DEF RelayRemoves, Relay, RunningRelays, AssocShape
  <2> QED
    BY <2>1 DEF Counted
<1> QED
  BY <1>2, <1>3, <1>4 DEF RelayTask, RelayLeaves, RelayCancelled

AssocCountInv == ReachInv /\ Within /\ Counted

(* A step that does not create keeps the limits: it leaves the registry    *)
(* alone or makes it smaller.                                              *)
LEMMA SmallerWithin ==
    ASSUME AssocShape, Within, sections' = sections, registry' \subseteq registry
    PROVE  Within'
<1>1. /\ Cardinality(registry') <= GlobalLimit
      /\ \A l \in Listeners : Cardinality(OnListener(registry', l)) <= PerListenerLimit
  BY FewerIsWithin, Zenon
<1> QED
  BY <1>1 DEF Within, OnListener, GlobalLimit, PerListenerLimit

(* The limits and the gauge hold in the first state and every step keeps   *)
(* them.                                                                   *)
LEMMA AssocCountInductive ==
    /\ AssocInit => AssocCountInv
    /\ AssocCountInv /\ [AssocNext]_assocVars => AssocCountInv'
<1>1. ASSUME AssocInit PROVE AssocCountInv
  <2>1. ReachInv /\ AssocShape
    BY <1>1, ReachInductive DEF ReachInv
  <2>2. registry = {} /\ RunningRelays = {} /\ associations_active = 0
    BY <1>1 DEF AssocInit, RunningRelays
  <2>3. \A l \in Listeners : OnListener(registry, l) = {}
    BY <2>2 DEF OnListener
  <2> QED
    BY <2>1, <2>2, <2>3, Finite, FS_EmptySet DEF AssocCountInv, Within, Counted
<1>2. ASSUME AssocCountInv, [AssocNext]_assocVars PROVE AssocCountInv'
  <2>0. ReachInv' /\ AssocShape /\ NotYet /\ Within /\ Counted
    BY <1>2, ReachInductive DEF AssocCountInv, ReachInv
  <2>1. ASSUME NEW a \in Assocs, Create(a) PROVE Within' /\ Counted'
    BY <2>0, <2>1, CreateWithin, Zenon DEF Create, Counted, RunningRelays
  <2>2. ASSUME NEW a \in Assocs, Session(a), ~Create(a) PROVE Within' /\ Counted'
    <3>1. sections' = sections /\ registry' = registry /\ associations_active' = associations_active
      BY <2>2, Zenon DEF Session, Refused, BindFails, SpawnRelay, ReplySent, ControlCloses,
           ControlSeesCancel, ControlDropped
    <3>2. relay' = relay \/ SpawnRelay(a)
      BY <2>2, Zenon DEF Session, Refused, BindFails, ReplySent, ControlCloses,
           ControlSeesCancel, ControlDropped
    <3>3. RunningRelays' = RunningRelays
      BY <2>0, <3>2, Zenon DEF RunningRelays, AssocShape, SpawnRelay, Relay, NotYet
    <3> QED
      BY <2>0, <3>1, <3>3, SmallerWithin DEF Counted
  <2>3. ASSUME NEW a \in Assocs, RelayTask(a) PROVE Within' /\ Counted'
    <3>1. sections' = sections /\ registry' \subseteq registry
      BY <2>3, Zenon DEF RelayTask, RelayStarts, RelayLeaves, RelayCancelled, Leave, RelayRemoves
    <3> QED
      BY <2>0, <2>3, <3>1, SmallerWithin, GaugeFollows
  <2>4. CASE Shutdown
    <3>1. /\ sections' = sections /\ registry' \subseteq registry
          /\ associations_active' = associations_active /\ relay' = relay
      BY <2>4 DEF Shutdown, Drain, TasksClose, CloseOne
    <3>2. RunningRelays' = RunningRelays
      BY <3>1 DEF RunningRelays
    <3> QED
      BY <2>0, <3>1, <3>2, SmallerWithin DEF Counted, AssocCountInv
  <2>5. CASE UNCHANGED assocVars
    <3>1. RunningRelays' = RunningRelays
      BY <2>5 DEF assocVars, RunningRelays
    <3> QED
      BY <2>0, <2>5, <3>1, SmallerWithin DEF assocVars, Counted, AssocCountInv
  <2> QED
    BY <1>2, <2>0, <2>1, <2>2, <2>3, <2>4, <2>5 DEF AssocNext, AssocCountInv
<1> QED
  BY <1>1, <1>2

(* However requests, removals and close_all interleave, the registry stays *)
(* within both limits, and associations_active is the number of relays     *)
(* that run, whichever of clean-up and drop guard ends them.               *)
THEOREM LimitsAndGauge == AssocSpec => []AssociationsCounted
<1>1. AssocCountInv => AssociationsCounted
  BY DEF AssocCountInv, Within, Counted, RunningRelays, AssociationsCounted
<1> QED
  BY <1>1, AssocCountInductive, PTL DEF AssocSpec

-----------------------------------------------------------------------------
(* Relays. *)
Shape ==
    /\ config \in Configs
    /\ loop \in {"running", "opening", "ended", "failed", "panicked"}
    /\ opening \in AllFlows \union {NoFlow}
    /\ clients \in SUBSET Clients
    /\ fresh \in SUBSET Owners
    /\ flows \in SUBSET AllFlows
    /\ touched \in SUBSET flows
    /\ total \in Nat
    /\ gauge \in Nat

Serving ==
    /\ loop = "opening" <=> opening # NoFlow
    /\ opening \notin flows

(* The steps that leave the tables, the owners and the counters alone; a   *)
(* task of a flow may end in them.                                         *)
Steady ==
    /\ UNCHANGED <<config, loop, opening, clients, fresh, flows, touched, leases, total, gauge>>
    /\ receiving' \subseteq receiving
    /\ controls' \subseteq controls

(* The ways the loop ends, and what becomes of the gauge. *)
Ends ==
    /\ loop \in {"running", "opening"}
    /\ \/ CloseAll
       \/ Standalone /\ Teardown("failed") /\ UNCHANGED gauge
       \/ Teardown("panicked") /\ UNCHANGED gauge

(* Every step is one of these. *)
LEMMA StepCases ==
    ASSUME [Next]_vars
    PROVE  \/ \E c \in Clients : Discarded(c)
           \/ \E c \in Clients, k \in Keys : Reuse(c, k)
           \/ \E c \in Clients, k \in Keys : BeginOpen(c, k)
           \/ OpenSucceeds \/ OpenFails \/ Reap \/ Ends
           \/ \E o \in Owners : OwnerAges(o)
           \/ \E f \in AllFlows : FlowAges(f)
           \/ Steady
<1>1. ASSUME Loop \/ Idle
      PROVE  \/ \E c \in Clients : Discarded(c)
             \/ \E c \in Clients, k \in Keys : Reuse(c, k)
             \/ \E c \in Clients, k \in Keys : BeginOpen(c, k)
             \/ OpenSucceeds \/ OpenFails \/ Reap \/ Ends
  <2>1. CASE Datagram
    BY <2>1, Zenon DEF Datagram
  <2>2. CASE SeesCancel \/ SocketFails \/ Panic \/ Idle
    BY <2>2, Zenon DEF SeesCancel, SocketFails, Panic, Idle, Ends
  <2> QED
    BY <1>1, <2>1, <2>2, Zenon DEF Loop
<1>2. ASSUME TakeResponse PROVE Steady
  BY <1>2, Zenon DEF TakeResponse, Steady, tables
<1>3. ASSUME NEW f \in AllFlows, DirectTask(f) \/ HopTask(f) PROVE Steady
  BY <1>3, Zenon DEF DirectTask, HopTask, Respond, RecvEnds, ControlEnds, Steady, tables
<1>4. ASSUME ResponderEnds \/ Cancel PROVE Steady
  BY <1>4, Zenon DEF ResponderEnds, Cancel, Steady, tables
<1>5. ASSUME UNCHANGED vars PROVE Steady
  BY <1>5, Zenon DEF vars, Steady
<1> QED
  BY <1>1, <1>2, <1>3, <1>4, <1>5, Zenon DEF Next, AssociationLoop, StandaloneLoop,
     ShadowsocksLoop, LoopDelivers, ResponderDelivers, Ages

-----------------------------------------------------------------------------
(* The tables hold sets of flows and are finite. *)
LEMMA FlowsFinite ==
    /\ \A S \in SUBSET AllFlows : IsFiniteSet(S) /\ Cardinality(S) \in Nat
    /\ \A S \in SUBSET Clients : IsFiniteSet(S) /\ Cardinality(S) \in Nat
<1>1. IsFiniteSet(Owners)
  BY RelayAssumption, FS_AddElement, Zenon DEF Owners
<1>2. IsFiniteSet(AllFlows)
  BY <1>1, RelayAssumption, FS_Product, Zenon DEF AllFlows
<1>3. \A S \in SUBSET AllFlows : IsFiniteSet(S)
  BY <1>2, FS_Subset
<1>4. \A S \in SUBSET Clients : IsFiniteSet(S)
  BY RelayAssumption, FS_Subset, Zenon
<1> QED
  BY <1>3, <1>4, FS_CardinalityType

(* A client's datagrams belong to an owner, and its flows to the tables. *)
LEMMA OwnerIsOwner ==
    ASSUME NEW c \in Clients
    PROVE  /\ Owner(c) \in Owners
           /\ \A k \in Keys : <<Owner(c), k>> \in AllFlows /\ <<Owner(c), k>> # NoFlow
<1>1. Owner(c) \in Owners
  BY DEF Owner, Owners
<1>2. NoFlow \notin AllFlows
  BY RelayAssumption, Zenon DEF AllFlows, Owners
<1> QED
  BY <1>1, <1>2 DEF AllFlows

(* What a subtraction that stops at zero returns. *)
LEMMA MinusType ==
    ASSUME NEW a \in Nat, NEW b \in Nat
    PROVE  Minus(a, b) \in Nat /\ (b <= a => Minus(a, b) = a - b)
BY DEF Minus

(* A datagram admits at most its own client. *)
LEMMA AdmitClients ==
    ASSUME Shape, NEW c \in Clients, Admit(c)
    PROVE  /\ clients' \in SUBSET Clients
           /\ Standalone => Enter(c)
BY Zenon DEF Admit, Enter, Pin, Shape

-----------------------------------------------------------------------------
Base == Shape /\ Serving

(* The tables hold sets of flows, and the flow being opened is in none. *)
LEMMA BaseInductive == (Init => Base) /\ (Base /\ [Next]_vars => Base')
<1>0. NoFlow \notin AllFlows
  BY RelayAssumption DEF AllFlows, Owners
<1>1. ASSUME Init PROVE Base
  BY <1>0, <1>1, Zenon DEF Init, Base, Shape, Serving, Owners
<1>2. ASSUME Base, [Next]_vars PROVE Base'
  <2>0. Shape /\ Serving
    BY <1>2 DEF Base
  <2> USE DEF Base, Shape, Serving
  <2>1. ASSUME NEW c \in Clients, Discarded(c) PROVE Base'
    <3>1. clients' \in SUBSET Clients /\ Owner(c) \in Owners
      BY <2>0, <2>1, AdmitClients, OwnerIsOwner, Zenon DEF Discarded
    <3> QED
      BY <2>0, <2>1, <3>1, Zenon DEF Discarded, tables
  <2>2. ASSUME NEW c \in Clients, NEW k \in Keys, Reuse(c, k) PROVE Base'
    <3>1. clients' \in SUBSET Clients /\ Owner(c) \in Owners
      BY <2>0, <2>2, AdmitClients, OwnerIsOwner, Zenon DEF Reuse
    <3> QED
      BY <2>0, <2>2, <3>1, Zenon DEF Reuse
  <2>3. ASSUME NEW c \in Clients, NEW k \in Keys, BeginOpen(c, k) PROVE Base'
    <3>1. /\ clients' \in SUBSET Clients /\ c \in Owners
          /\ <<Owner(c), k>> \in AllFlows /\ <<Owner(c), k>> # NoFlow
      BY <2>0, <2>3, AdmitClients, OwnerIsOwner, Zenon DEF BeginOpen, Owners
    <3> QED
      BY <2>0, <2>3, <3>1, Zenon DEF BeginOpen
  <2>4. CASE OpenSucceeds
    BY <1>0, <2>0, <2>4 DEF OpenSucceeds, Owners
  <2>5. CASE OpenFails
    BY <1>0, <2>0, <2>5, Zenon DEF OpenFails, Owners
  <2>6. CASE Reap
    <3>1. IdleFlows \in SUBSET AllFlows
      BY <2>0, Zenon DEF IdleFlows
    <3>2. IdleFlows \union {f \in flows : f[1] \in IdleClients} \in SUBSET AllFlows
      BY <2>0, <3>1, Zenon
    <3>3. total' \in Nat /\ gauge' \in Nat
      BY <2>0, <2>6, <3>1, <3>2, FlowsFinite, MinusType, Zenon DEF Reap
    <3> QED
      BY <2>0, <2>6, <3>3, Zenon DEF Reap, DropFlows
  <2>7. CASE Ends
    <3>1. gauge' \in Nat
      BY <2>0, <2>7, FlowsFinite, MinusType, Zenon DEF Ends, CloseAll
    <3>2. 0 \in Nat
      OBVIOUS
    <3> QED
      BY <1>0, <2>0, <2>7, <3>1, <3>2, Zenon DEF Ends, CloseAll, Teardown
  <2>8. ASSUME NEW o \in Owners, OwnerAges(o) PROVE Base'
    BY <2>0, <2>8, Zenon DEF OwnerAges, tables
  <2>9. ASSUME NEW f \in AllFlows, FlowAges(f) PROVE Base'
    BY <2>0, <2>9, Zenon DEF FlowAges
  <2>10. CASE Steady
    BY <2>0, <2>10, Zenon DEF Steady
  <2> QED
    BY <1>2, <2>1, <2>2, <2>3, <2>4, <2>5, <2>6, <2>7, <2>8, <2>9, <2>10, StepCases, Zenon
<1> QED
  BY <1>1, <1>2

-----------------------------------------------------------------------------
OwnInv == Base /\ FlowsOwnTheirs

(* Tasks and leases follow the flows through every step. *)
LEMMA OwnInductive == (Init => OwnInv) /\ (OwnInv /\ [Next]_vars => OwnInv')
<1> USE DEF Leased, LeasedEarly, WithControl, Opening
<1>1. ASSUME Init PROVE OwnInv
  BY <1>1, BaseInductive, Zenon DEF Init, OwnInv, FlowsOwnTheirs
<1>2. ASSUME OwnInv, [Next]_vars PROVE OwnInv'
  <2>0. Base' /\ Shape /\ Serving /\ FlowsOwnTheirs
    BY <1>2, BaseInductive DEF OwnInv, Base
  <2>a. NoFlow \notin AllFlows
    BY RelayAssumption DEF AllFlows, Owners
  <2> SUFFICES FlowsOwnTheirs'
    BY <2>0 DEF OwnInv
  <2> USE DEF FlowsOwnTheirs
  <2>1. ASSUME NEW c \in Clients, Discarded(c) PROVE FlowsOwnTheirs'
    BY <2>0, <2>1, Zenon DEF Discarded, tables
  <2>2. ASSUME NEW c \in Clients, NEW k \in Keys, Reuse(c, k) PROVE FlowsOwnTheirs'
    BY <2>0, <2>2, Zenon DEF Reuse
  <2>3. ASSUME NEW c \in Clients, NEW k \in Keys, BeginOpen(c, k) PROVE FlowsOwnTheirs'
    <3>1. <<Owner(c), k>> # NoFlow
      BY OwnerIsOwner, Zenon
    <3> QED
      BY <2>0, <2>3, <3>1, Zenon DEF BeginOpen, Serving
  <2>4. CASE OpenSucceeds
    BY <2>0, <2>4, Zenon DEF OpenSucceeds, Serving
  <2>5. CASE OpenFails
    BY <2>0, <2>5, Zenon DEF OpenFails, Serving
  <2>6. CASE Reap
    BY <2>0, <2>6, Zenon DEF Reap, DropFlows, Serving
  <2>7. CASE Ends
    BY <2>0, <2>7, Zenon DEF Ends, CloseAll, Teardown
  <2>8. ASSUME NEW o \in Owners, OwnerAges(o) PROVE FlowsOwnTheirs'
    BY <2>0, <2>8, Zenon DEF OwnerAges, tables
  <2>9. ASSUME NEW f \in AllFlows, FlowAges(f) PROVE FlowsOwnTheirs'
    BY <2>0, <2>9, Zenon DEF FlowAges
  <2>10. CASE Steady
    BY <2>0, <2>10, Zenon DEF Steady
  <2> QED
    BY <1>2, <2>1, <2>2, <2>3, <2>4, <2>5, <2>6, <2>7, <2>8, <2>9, <2>10, StepCases, Zenon
<1> QED
  BY <1>1, <1>2

(* Whichever way a flow, its client or the loop ends, in any of the three  *)
(* relays: no receive task or control connection without its flow, and     *)
(* exactly one lease for every flow through an upstream.                   *)
THEOREM NothingOutlivesItsFlow == Spec => []FlowsOwnTheirs
<1>1. OwnInv => FlowsOwnTheirs
  BY DEF OwnInv
<1> QED
  BY <1>1, OwnInductive, PTL DEF Spec

-----------------------------------------------------------------------------
(* With an idle_timeout that is not too short, a flow in use has a client  *)
(* in use.                                                                 *)
InUse == Standalone /\ ~config.shorter => \A f \in touched \union Opening : f[1] \in fresh

UseInv == Base /\ InUse

(* A datagram touches its client before its flow, and a client ages only   *)
(* after its flows.                                                        *)
LEMMA UseInductive == (Init => UseInv) /\ (UseInv /\ [Next]_vars => UseInv')
<1>1. ASSUME Init PROVE UseInv
  BY <1>1, BaseInductive, Zenon DEF Init, UseInv, InUse, Opening
<1>2. ASSUME UseInv, [Next]_vars PROVE UseInv'
  <2>0. Base' /\ Shape /\ Serving /\ InUse
    BY <1>2, BaseInductive DEF UseInv, Base
  <2> SUFFICES InUse'
    BY <2>0 DEF UseInv
  <2> USE DEF InUse, Opening, Standalone
  <2>1. ASSUME NEW c \in Clients, Discarded(c) PROVE InUse'
    BY <2>0, <2>1, Zenon DEF Discarded, tables
  <2>2. ASSUME NEW c \in Clients, NEW k \in Keys, Reuse(c, k) PROVE InUse'
    BY <2>0, <2>2 DEF Reuse
  <2>3. ASSUME NEW c \in Clients, NEW k \in Keys, BeginOpen(c, k) PROVE InUse'
    <3>1. Standalone => <<Owner(c), k>>[1] = c
      BY Zenon DEF Owner
    <3>2. Standalone => opening'[1] \in fresh' /\ fresh \subseteq fresh'
      BY <2>3, <3>1, Zenon DEF BeginOpen
    <3>3. touched' = touched /\ config' = config
      BY <2>3, Zenon DEF BeginOpen
    <3> QED BY <2>0, <3>2, <3>3, Zenon
  <2>4. CASE OpenSucceeds
    BY <2>0, <2>4, Zenon DEF OpenSucceeds, Serving
  <2>5. CASE OpenFails
    BY <2>0, <2>5, Zenon DEF OpenFails
  <2>6. CASE Reap
    BY <2>0, <2>6, Zenon DEF Reap, DropFlows
  <2>7. CASE Ends
    BY <2>0, <2>7, Zenon DEF Ends, CloseAll, Teardown
  <2>8. ASSUME NEW o \in Owners, OwnerAges(o) PROVE InUse'
    BY <2>0, <2>8, Zenon DEF OwnerAges, tables
  <2>9. ASSUME NEW f \in AllFlows, FlowAges(f) PROVE InUse'
    BY <2>0, <2>9, Zenon DEF FlowAges
  <2>10. CASE Steady
    BY <2>0, <2>10, Zenon DEF Steady
  <2> QED
    BY <1>2, <2>1, <2>2, <2>3, <2>4, <2>5, <2>6, <2>7, <2>8, <2>9, <2>10, StepCases, Zenon
<1> QED
  BY <1>1, <1>2

-----------------------------------------------------------------------------
PerOwner == \A o \in Owners : Cardinality(FlowsOf(o, flows)) <= MaxTargets

FewClients == Standalone => Cardinality(clients) <= MaxFlows

TotalExact == Standalone => total = Cardinality(flows) /\ total <= MaxFlows

GaugeExact ==
    loop \notin {"failed", "panicked"} /\ ~(Standalone /\ config.shorter) =>
        gauge = Cardinality(flows)

RoomKept ==
    loop = "opening" =>
        /\ Cardinality(FlowsOf(opening[1], flows)) < MaxTargets
        /\ Standalone => total < MaxFlows

Counts == PerOwner /\ FewClients /\ TotalExact /\ GaugeExact /\ RoomKept

(* Adding one element to a finite set. *)
LEMMA AddOne ==
    ASSUME NEW S, NEW x, IsFiniteSet(S)
    PROVE  Cardinality(S \union {x}) = IF x \in S THEN Cardinality(S) ELSE Cardinality(S) + 1
BY FS_AddElement, Zenon

(* Taking a subset out of a set of flows. *)
LEMMA TakeOut ==
    ASSUME NEW S \in SUBSET AllFlows, NEW D \in SUBSET S
    PROVE  /\ Cardinality(S \ D) = Cardinality(S) - Cardinality(D)
           /\ Cardinality(D) <= Cardinality(S)
           /\ Cardinality(S) \in Nat /\ Cardinality(D) \in Nat
<1>1. IsFiniteSet(S) /\ Cardinality(S) \in Nat /\ IsFiniteSet(D) /\ Cardinality(D) \in Nat
  BY FlowsFinite, Zenon
<1>2. S \cap D = D
  OBVIOUS
<1>3. Cardinality(S \ D) = Cardinality(S) - Cardinality(S \cap D)
  BY <1>1, FS_Difference, Zenon
<1>4. Cardinality(D) <= Cardinality(S)
  BY <1>1, FS_Subset, Zenon
<1> QED
  BY <1>1, <1>2, <1>3, <1>4, Zenon

(* A flow that arrives in its table finds the room it was promised. *)
LEMMA OpenCounts ==
    ASSUME Shape, Serving, Counts, OpenSucceeds
    PROVE  Counts'
<1>1. /\ opening \in AllFlows /\ opening \notin flows /\ flows \in SUBSET AllFlows
      /\ flows' = flows \union {opening} /\ config' = config /\ clients' = clients
      /\ loop = "opening" /\ loop' = "running" /\ gauge' = gauge + 1
      /\ total' = IF Standalone THEN total + 1 ELSE total
  BY Zenon DEF OpenSucceeds, Serving, Shape
<1>2. Standalone' = Standalone
  BY <1>1, Zenon DEF Standalone
<1>3. Cardinality(flows') = Cardinality(flows) + 1 /\ Cardinality(flows) \in Nat
  BY <1>1, FlowsFinite, AddOne, Zenon
<1>4. ASSUME NEW o \in Owners PROVE Cardinality(FlowsOf(o, flows')) <= MaxTargets
  <2>0. FlowsOf(o, flows) \in SUBSET AllFlows
    BY <1>1, Zenon DEF FlowsOf
  <2>1. CASE o = opening[1]
    <3>1. FlowsOf(o, flows') = FlowsOf(o, flows) \union {opening}
      BY <1>1, <2>1, Zenon DEF FlowsOf
    <3>2. Cardinality(FlowsOf(o, flows)) < MaxTargets
      BY <1>1, <2>1, Zenon DEF Counts, RoomKept
    <3>3. IsFiniteSet(FlowsOf(o, flows)) /\ Cardinality(FlowsOf(o, flows)) \in Nat
      BY <2>0, FlowsFinite, Zenon
    <3>4. opening \notin FlowsOf(o, flows)
      BY <1>1, Zenon DEF FlowsOf
    <3>5. Cardinality(FlowsOf(o, flows')) = Cardinality(FlowsOf(o, flows)) + 1
      BY <3>1, <3>3, <3>4, AddOne, Zenon
    <3> QED
      BY <3>2, <3>3, <3>5, RelayAssumption
  <2>2. CASE o # opening[1]
    <3>1. FlowsOf(o, flows') = FlowsOf(o, flows)
      BY <1>1, <2>2, Zenon DEF FlowsOf
    <3> QED
      BY <3>1, Zenon DEF Counts, PerOwner
  <2> QED
    BY <2>1, <2>2, Zenon
<1>5. PerOwner'
  BY <1>4, Zenon DEF PerOwner, FlowsOf
<1>6. FewClients' /\ RoomKept'
  BY <1>1, <1>2, Zenon DEF Counts, FewClients, RoomKept
<1>7. TotalExact'
  BY <1>1, <1>2, <1>3, RelayAssumption DEF Counts, TotalExact, RoomKept
<1>8. GaugeExact'
  BY <1>1, <1>2, <1>3, Zenon DEF Counts, GaugeExact
<1> QED
  BY <1>5, <1>6, <1>7, <1>8 DEF Counts

(* A clean-up drops the idle flows and the idle clients with theirs; the   *)
(* total and, with InUse, the gauge lose as much as the tables.            *)
LEMMA ReapCounts ==
    ASSUME Shape, Serving, InUse, Counts, Reap
    PROVE  Counts'
<1> DEFINE D == IdleFlows \union {f \in flows : f[1] \in IdleClients}
<1>1. /\ flows \in SUBSET AllFlows /\ D \in SUBSET flows /\ flows' = flows \ D
      /\ IdleFlows \in SUBSET flows
      /\ config' = config /\ clients' \subseteq clients /\ clients \in SUBSET Clients
      /\ loop = "running" /\ loop' = "running"
      /\ gauge' = Minus(gauge, Cardinality(IdleFlows))
      /\ total' = IF Standalone THEN Minus(total, Cardinality(D)) ELSE total
  BY Zenon DEF Reap, DropFlows, IdleFlows, Shape
<1>2. Standalone' = Standalone
  BY <1>1, Zenon DEF Standalone
<1>3. /\ Cardinality(flows') = Cardinality(flows) - Cardinality(D)
      /\ Cardinality(D) <= Cardinality(flows)
      /\ Cardinality(flows) \in Nat /\ Cardinality(D) \in Nat
  BY <1>1, TakeOut, Zenon
<1>4. ASSUME NEW o \in Owners PROVE Cardinality(FlowsOf(o, flows')) <= MaxTargets
  <2>1. /\ FlowsOf(o, flows') \subseteq FlowsOf(o, flows)
        /\ FlowsOf(o, flows) \in SUBSET AllFlows /\ FlowsOf(o, flows') \in SUBSET AllFlows
    BY <1>1, Zenon DEF FlowsOf
  <2>2. /\ Cardinality(FlowsOf(o, flows')) <= Cardinality(FlowsOf(o, flows))
        /\ Cardinality(FlowsOf(o, flows)) \in Nat /\ Cardinality(FlowsOf(o, flows')) \in Nat
    BY <2>1, FlowsFinite, FS_Subset, Zenon
  <2>3. Cardinality(FlowsOf(o, flows)) <= MaxTargets
    BY Zenon DEF Counts, PerOwner
  <2> QED
    BY <2>2, <2>3, RelayAssumption
<1>5. PerOwner'
  BY <1>4, Zenon DEF PerOwner, FlowsOf
<1>6. FewClients'
  <2>1. /\ Cardinality(clients') <= Cardinality(clients)
        /\ Cardinality(clients) \in Nat /\ Cardinality(clients') \in Nat
    BY <1>1, FlowsFinite, FS_Subset, Zenon
  <2> QED
    BY <1>2, <2>1, RelayAssumption DEF Counts, FewClients
<1>7. TotalExact'
  <2>1. CASE Standalone
    <3>1. total = Cardinality(flows) /\ total <= MaxFlows /\ total' = Minus(total, Cardinality(D))
      BY <1>1, <2>1, Zenon DEF Counts, TotalExact
    <3>2. Minus(total, Cardinality(D)) = total - Cardinality(D)
      BY <1>3, <3>1, MinusType, Zenon
    <3> QED
      BY <1>3, <3>1, <3>2, RelayAssumption DEF TotalExact
  <2> QED
    BY <1>2, <2>1, Zenon DEF TotalExact
<1>8. GaugeExact'
  <2>1. CASE Standalone /\ config.shorter
    BY <1>1, <1>2, <2>1, Zenon DEF GaugeExact
  <2>2. CASE ~(Standalone /\ config.shorter)
    <3>1. D = IdleFlows
      BY <1>1, <2>2, Zenon DEF InUse, IdleFlows, IdleClients, Shape
    <3>2. gauge = Cardinality(flows)
      BY <1>1, <2>2, Zenon DEF Counts, GaugeExact
    <3>3. gauge' = gauge - Cardinality(D)
      BY <1>1, <1>3, <3>1, <3>2, MinusType, Zenon
    <3> QED
      BY <1>3, <3>2, <3>3, Zenon DEF GaugeExact
  <2> QED
    BY <2>1, <2>2, Zenon
<1>9. RoomKept'
  BY <1>1, Zenon DEF RoomKept
<1> QED
  BY <1>5, <1>6, <1>7, <1>8, <1>9, Zenon DEF Counts

(* Every way to end empties the tables; all but two count the flows down.  *)
LEMMA EndsCounts ==
    ASSUME Shape, Serving, Counts, Ends
    PROVE  Counts'
<1>1. /\ flows' = {} /\ clients' = {} /\ total' = 0 /\ config' = config
      /\ loop' \in {"ended", "failed", "panicked"}
      /\ loop' = "ended" => gauge' = Minus(gauge, Cardinality(flows))
      /\ loop \in {"running", "opening"}
  BY Zenon DEF Ends, CloseAll, Teardown
<1>2. Cardinality({}) = 0 /\ \A o \in Owners : FlowsOf(o, {}) = {}
  BY FS_EmptySet, Zenon DEF FlowsOf
<1>3. PerOwner'
  BY <1>1, <1>2, RelayAssumption DEF PerOwner, FlowsOf
<1>4. FewClients' /\ TotalExact' /\ RoomKept'
  <2>1. 0 <= MaxFlows
    BY RelayAssumption
  <2>2. FewClients'
    BY <1>1, <1>2, <2>1, Zenon DEF FewClients, Standalone
  <2>3. TotalExact'
    BY <1>1, <1>2, <2>1, Zenon DEF TotalExact, Standalone
  <2>4. RoomKept'
    BY <1>1, Zenon DEF RoomKept
  <2> QED BY <2>2, <2>3, <2>4, Zenon
<1>5. GaugeExact'
  <2>1. CASE loop' = "ended" /\ ~(Standalone /\ config.shorter)
    <3>1. gauge = Cardinality(flows) /\ Cardinality(flows) \in Nat
      BY <1>1, <2>1, FlowsFinite, Zenon DEF Counts, GaugeExact, Shape
    <3>2. gauge' = 0
      BY <1>1, <2>1, <3>1, MinusType
    <3> QED
      BY <1>1, <1>2, <3>2, Zenon DEF GaugeExact
  <2>2. CASE loop' # "ended" \/ (Standalone /\ config.shorter)
    BY <1>1, <2>2, Zenon DEF GaugeExact, Standalone
  <2> QED
    BY <2>1, <2>2, Zenon
<1> QED
  BY <1>3, <1>4, <1>5, Zenon DEF Counts

(* An accepted datagram adds its client, within the limit on clients. *)
LEMMA AdmitCounts ==
    ASSUME Shape, Counts, NEW c \in Clients, Admit(c), config' = config
    PROVE  FewClients'
<1>1. CASE Standalone
  <2>1. /\ clients \in SUBSET Clients /\ clients' = clients \union {c}
        /\ c \in clients \/ Cardinality(clients) < MaxFlows
    BY <1>1, Zenon DEF Admit, Enter, Shape
  <2>2. IsFiniteSet(clients) /\ Cardinality(clients) \in Nat
    BY <2>1, FlowsFinite, Zenon
  <2>3. Cardinality(clients') =
          IF c \in clients THEN Cardinality(clients) ELSE Cardinality(clients) + 1
    BY <2>1, <2>2, AddOne, Zenon
  <2>4. Cardinality(clients) <= MaxFlows
    BY <1>1 DEF Counts, FewClients
  <2> QED
    BY <2>1, <2>2, <2>3, <2>4, RelayAssumption DEF FewClients
<1>2. CASE ~Standalone
  BY <1>2, Zenon DEF FewClients, Standalone
<1> QED
  BY <1>1, <1>2, Zenon

(* A step that leaves the flows and the counters alone, while no flow is   *)
(* being opened or the same one still is.                                  *)
LEMMA SameCounts ==
    ASSUME Counts, FewClients',
           config' = config, flows' = flows, total' = total, gauge' = gauge,
           loop' = "opening" => loop = "opening" /\ opening' = opening,
           loop' \in {"failed", "panicked"} <=> loop \in {"failed", "panicked"}
    PROVE  Counts'
<1>1. PerOwner'
  BY Zenon DEF Counts, PerOwner, FlowsOf
<1>2. TotalExact' /\ GaugeExact'
  BY Zenon DEF Counts, TotalExact, GaugeExact, Standalone
<1>3. RoomKept'
  BY Zenon DEF Counts, RoomKept, Standalone, FlowsOf
<1> QED
  BY <1>1, <1>2, <1>3, Zenon DEF Counts

(* Opening begins only with room for the flow, in its table and in all.    *)
LEMMA BeginCounts ==
    ASSUME Shape, Counts, NEW c \in Clients, NEW k \in Keys, BeginOpen(c, k)
    PROVE  Counts'
<1>1. FewClients'
  BY AdmitCounts, Zenon DEF BeginOpen
<1>2. /\ UNCHANGED <<config, flows, total, gauge>>
      /\ loop = "running" /\ loop' = "opening" /\ opening' = <<Owner(c), k>>
      /\ CanUse(Owner(c))
  BY Zenon DEF BeginOpen
<1>3. PerOwner'
  BY <1>2, Zenon DEF Counts, PerOwner, FlowsOf
<1>4. TotalExact' /\ GaugeExact'
  BY <1>2, Zenon DEF Counts, TotalExact, GaugeExact, Standalone
<1>5. RoomKept'
  BY <1>2, Zenon DEF RoomKept, CanUse, Standalone, FlowsOf
<1> QED
  BY <1>1, <1>3, <1>4, <1>5, Zenon DEF Counts

CountInv == UseInv /\ Counts

(* The limits, the total and the gauge hold at first and are kept. *)
LEMMA CountInductive == (Init => CountInv) /\ (CountInv /\ [Next]_vars => CountInv')
<1>1. ASSUME Init PROVE CountInv
  <2>1. UseInv
    BY <1>1, UseInductive
  <2>2. flows = {} /\ clients = {} /\ total = 0 /\ gauge = 0 /\ loop = "running"
    BY <1>1, Zenon DEF Init
  <2>3. Cardinality({}) = 0 /\ \A o \in Owners : FlowsOf(o, {}) = {}
    BY FS_EmptySet, Zenon DEF FlowsOf
  <2> QED
    BY <2>1, <2>2, <2>3, RelayAssumption
       DEF CountInv, Counts, PerOwner, FewClients, TotalExact, GaugeExact, RoomKept
<1>2. ASSUME CountInv, [Next]_vars PROVE CountInv'
  <2>0. UseInv' /\ Shape /\ Serving /\ InUse /\ Counts
    BY <1>2, UseInductive, Zenon DEF CountInv, UseInv, Base
  <2> SUFFICES Counts'
    BY <2>0, Zenon DEF CountInv
  <2>1. ASSUME NEW c \in Clients, Discarded(c) PROVE Counts'
    <3>1. FewClients'
      BY <2>0, <2>1, AdmitCounts, Zenon DEF Discarded
    <3> QED
      BY <2>0, <2>1, <3>1, SameCounts, Zenon DEF Discarded, tables
  <2>2. ASSUME NEW c \in Clients, NEW k \in Keys, Reuse(c, k) PROVE Counts'
    <3>1. FewClients'
      BY <2>0, <2>2, AdmitCounts, Zenon DEF Reuse
    <3> QED
      BY <2>0, <2>2, <3>1, SameCounts, Zenon DEF Reuse
  <2>3. ASSUME NEW c \in Clients, NEW k \in Keys, BeginOpen(c, k) PROVE Counts'
    BY <2>0, <2>3, BeginCounts, Zenon
  <2>4. CASE OpenSucceeds
    BY <2>0, <2>4, OpenCounts, Zenon
  <2>5. CASE OpenFails
    <3>1. FewClients'
      BY <2>0, <2>5, Zenon DEF OpenFails, Counts, FewClients, Standalone
    <3> QED
      BY <2>0, <2>5, <3>1, SameCounts, Zenon DEF OpenFails
  <2>6. CASE Reap
    BY <2>0, <2>6, ReapCounts, Zenon
  <2>7. CASE Ends
    BY <2>0, <2>7, EndsCounts, Zenon
  <2>8. ASSUME (\E o \in Owners : OwnerAges(o)) \/ (\E f \in AllFlows : FlowAges(f)) \/ Steady
        PROVE  Counts'
    <3>1. UNCHANGED <<config, loop, opening, clients, flows, total, gauge>>
      BY <2>8, Zenon DEF OwnerAges, FlowAges, Steady, tables
    <3>2. FewClients'
      BY <2>0, <3>1, Zenon DEF Counts, FewClients, Standalone
    <3> QED
      BY <2>0, <3>1, <3>2, SameCounts, Zenon
  <2> QED
    BY <1>2, <2>1, <2>2, <2>3, <2>4, <2>5, <2>6, <2>7, <2>8, StepCases, Zenon
<1> QED
  BY <1>1, <1>2

(* Although a flow enters its table an await after it was checked against  *)
(* the limits, and is dropped by two different limits: no table and no     *)
(* relay outgrows its limit, the standalone total is exact, and so is the  *)
(* gauge in all cases but the three the property names.                    *)
THEOREM LimitsAndTotals == Spec => []CountsExact
<1>1. CountInv => CountsExact
  BY Zenon DEF CountInv, Counts, PerOwner, FewClients, TotalExact, GaugeExact, CountsExact
<1> QED
  BY <1>1, CountInductive, PTL DEF Spec
=============================================================================
