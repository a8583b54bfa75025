---------------------------- MODULE RouterProofs ----------------------------
(***************************************************************************)
(* Proofs about Router, for any group of members, any rules and any number *)
(* of concurrent requests.                                                 *)
(*                                                                         *)
(* A request reads the members one by one while they change.  The          *)
(* inductive invariant says, for a request in progress, that its window    *)
(* has every value the members have now (Window), that what a pass has     *)
(* found or walks over was usable at some moment of the window (Passing,   *)
(* Picking, Leasing), and that what it has passed over was not (Seen,      *)
(* Covers, Missed).  The windows only grow, so that a step of anybody else *)
(* keeps all of it (Others).                                               *)
(*                                                                         *)
(* LeastConnections chooses by loads it read earlier.  Of a request that   *)
(* nothing interferes with, the invariant says that every member that it   *)
(* may use is among those it has found, with the load it has now (Sees,    *)
(* Undisturbed).                                                           *)
(*                                                                         *)
(* Round robin spreads requests evenly over its group, for any finite set  *)
(* of concurrent requests that does not wrap the cursor.  A request takes  *)
(* its ticket from the cursor long before it has a lease, and requests     *)
(* overtake each other in between, so what is counted at the end says      *)
(* little about the tickets.  The inductive invariant counts a request for *)
(* its position from the ticket on: every pass of a request finds the      *)
(* whole group (Reads), and the positions given out follow the cursor in   *)
(* rotation (Even).                                                        *)
(***************************************************************************)
EXTENDS Router, FiniteSetTheorems, TLAPS
-----------------------------------------------------------------------------
Found == Upstreams \union (Upstreams \X Int)

Walks == {"Filter", "FilterEnabled", "Scan", "Ticket"}
Preds == {"eligible", "enabled"}

PassRec == [pc : Walks, list : Seq(Upstreams), pred : Preds, i : Nat, found : Seq(Found)]
PickRec == [pc : {"Pick"}, list : Seq(Upstreams), pred : Preds, i : Nat, pick : Int]

Types ==
    /\ healthy \in SUBSET Upstreams
    /\ enabled \in SUBSET Upstreams
    /\ load \in [Upstreams -> Int]
    /\ cursor \in Nat
    /\ req = [r \in Requests |-> req[r]]
    /\ outcome = [r \in Requests |-> outcome[r]]
    /\ everUp \in [Requests -> SUBSET Upstreams]
    /\ everDown \in [Requests -> SUBSET Upstreams]
    /\ everEnabled \in [Requests -> SUBSET Upstreams]

(* The members a pass may use, and what must be so for it to be a fallback *)
(* to unhealthy members.                                                   *)
Usable(r, pred) == IF pred = "enabled" THEN everEnabled[r] ELSE everUp[r]
Fallen(r, pred) == pred = "enabled" => fallback = "UseUnhealthy" /\ everDown[r] = Upstreams

Within(s, S) == \A j \in 1..Len(s) : s[j] \in S
Rated(s, S) == \A j \in 1..Len(s) : s[j][1] \in S
Occurs(u, s) == \E j \in 1..Len(s) : s[j] = u

(* What holds of request r at position q of route().                       *)

Passing(r, q) ==
    q.pc \in Walks =>
        /\ q \in PassRec
        /\ Fallen(r, q.pred)
        /\ 1 <= q.i /\ Len(q.found) < q.i
        /\ q.pc # "Ticket" => q.i <= Len(q.list)
        /\ q.pc = "Filter" => q.list = Members /\ q.pred = "eligible"
        /\ q.pc = "FilterEnabled" => q.list = Members /\ q.pred = "enabled"
        /\ q.pc \in {"Scan", "Ticket"} => Within(q.list, Usable(r, q.pred))
        /\ q.pc \in {"Filter", "FilterEnabled"} \/ kind # "LeastConnections" =>
              Within(q.found, Usable(r, q.pred))
        /\ q.pc \in {"Scan", "Ticket"} /\ kind = "LeastConnections" =>
              Rated(q.found, Usable(r, q.pred))
        /\ q.pc = "Ticket" => 1 <= Len(q.found) /\ Len(q.found) <= Len(q.list)

Seen(r, q) ==
    q.pc = "Filter" =>
        \A j \in 1..(q.i - 1) : Members[j] \in everDown[r] \/ Occurs(Members[j], q.found)

Covers(r, q) ==
    q.pc = "Scan" /\ q.pred = "eligible" =>
        \A u \in Upstreams : u \in everDown[r] \/ Occurs(u, q.list)

Missed(r, q) ==
    q.pc = "Scan" /\ q.pred = "eligible" /\ Len(q.found) = 0 =>
        \A j \in 1..(q.i - 1) : q.list[j] \in everDown[r]

Picking(r, q) ==
    q.pc = "Pick" =>
        /\ kind \in {"RoundRobin", "Random"}
        /\ q \in PickRec
        /\ Fallen(r, q.pred)
        /\ 1 <= q.i /\ q.i <= Len(q.list)
        /\ Within(q.list, Usable(r, q.pred))
        /\ everDown[r] # {} \/ q.pick <= Len(q.list) - q.i

Leasing(r, q) ==
    q.pc = "Lease" =>
        /\ q = [pc |-> "Lease", upstream |-> q.upstream, pred |-> q.pred]
        /\ q.pred \in Preds
        /\ Fallen(r, q.pred)
        /\ q.upstream \in Usable(r, q.pred)

Holds(r, q) ==
    /\ Passing(r, q) /\ Seen(r, q) /\ Covers(r, q) /\ Missed(r, q)
    /\ Picking(r, q) /\ Leasing(r, q)

Places == Walks \union {"Idle", "Pick", "Lease", "Done", "Closed"}

Window(r) ==
    Running(r) =>
        /\ healthy \cap enabled \subseteq everUp[r]
        /\ Upstreams \ (healthy \cap enabled) \subseteq everDown[r]
        /\ enabled \subseteq everEnabled[r]

Unanswered(r) == req[r].pc \notin {"Done", "Closed"} => outcome[r].kind = "None"

AllDown(r) ==
    kind \in {"FirstAvailable", "LeastConnections"} /\ outcome[r].kind = "NoEligible" =>
        everDown[r] = Upstreams

Good(r) ==
    /\ req[r].pc \in Places
    /\ Holds(r, req[r]) /\ Window(r) /\ Unanswered(r) /\ AllDown(r)

IInv == Types /\ \A r \in Requests : Good(r)

(* The group is a sequence of its members. *)
LEMMA MembersFact ==
    /\ Members \in Seq(Upstreams) /\ Len(Members) \in Nat /\ 1 <= Len(Members)
    /\ \A u \in Upstreams : \E j \in 1..Len(Members) : Members[j] = u
    /\ \A j \in 1..Len(Members) : Members[j] \in Upstreams
<1>1. Members \in Seq(Upstreams) /\ Len(Members) > 0
  BY RouterAssumption DEF Upstreams
<1>2. DOMAIN Members = 1..Len(Members)
  BY <1>1
<1> QED
  BY <1>1, <1>2 DEF Upstreams, Range

(* A request that does not move, whose window at most grows and has what   *)
(* the members are now, keeps its invariant.                               *)
LEMMA Others ==
    ASSUME Types, NEW r \in Requests, Good(r),
           req'[r] = req[r], outcome'[r] = outcome[r], kind' = kind, fallback' = fallback,
           everUp[r] \subseteq everUp'[r], everDown[r] \subseteq everDown'[r],
           everEnabled[r] \subseteq everEnabled'[r], everDown'[r] \subseteq Upstreams,
           Window(r)'
    PROVE  Good(r)'
<1> DEFINE q == req[r]
<1>1. q.pc \in Places /\ Holds(r, q) /\ Unanswered(r)' /\ AllDown(r)'
  <2>1. q.pc \in Places /\ Holds(r, q) /\ Unanswered(r) /\ AllDown(r)
    BY Zenon DEF Good
  <2>2. Unanswered(r)'
    BY <2>1, Zenon DEF Unanswered
  <2>3. AllDown(r)'
    BY <2>1, Zenon DEF AllDown
  <2> QED
    BY <2>1, <2>2, <2>3, Zenon
<1>2. /\ Fallen(r, q.pred) => Fallen(r, q.pred)'
      /\ \A u : u \in Usable(r, q.pred) => u \in Usable(r, q.pred)'
  BY ZenonT(30) DEF Fallen, Usable
<1>3. Passing(r, q)'
  BY <1>1, <1>2, Zenon DEF Holds, Passing, Within, Rated
<1>4. Seen(r, q)' /\ Covers(r, q)' /\ Missed(r, q)'
  <2>1. Seen(r, q) /\ Covers(r, q) /\ Missed(r, q)
    BY <1>1, Zenon DEF Holds
  <2>2. Seen(r, q)'
    BY <2>1, Zenon DEF Seen, Occurs
  <2>3. Covers(r, q)'
    BY <2>1, Zenon DEF Covers, Occurs
  <2>4. Missed(r, q)'
    BY <2>1, Zenon DEF Missed
  <2> QED
    BY <2>2, <2>3, <2>4, Zenon
<1>5. Picking(r, q)'
  BY <1>1, <1>2 DEF Holds, Picking, Within
<1>6. Leasing(r, q)'
  BY <1>1, <1>2 DEF Holds, Leasing
<1> QED
  BY <1>1, <1>3, <1>4, <1>5, <1>6 DEF Good, Holds

(* A pass with another place and other members found. *)
LEMMA Advance ==
    ASSUME NEW q \in PassRec, NEW n, NEW f, NEW p, p = [q EXCEPT !.i = n, !.found = f]
    PROVE  p = [pc |-> q.pc, list |-> q.list, pred |-> q.pred, i |-> n, found |-> f]
BY Zenon DEF PassRec

(* The member a pass reads next. *)
Reading(r) == req[r].list[req[r].i]

(* What is read of a member now was so at a moment of the window. *)
LEMMA ReadNow ==
    ASSUME Types, NEW r \in Requests, Window(r), Running(r), NEW u \in Upstreams
    PROVE  /\ Passes(req[r].pred, u) => u \in Usable(r, req[r].pred)
           /\ req[r].pred = "eligible" /\ ~Passes(req[r].pred, u) => u \in everDown[r]
BY DEF Window, Passes, IsEligible, Usable

(* One read of a pass over members: the list is walked by one place, and a *)
(* member that passes is added to the ones found.                          *)
LEMMA ReadPass ==
    ASSUME Types, NEW r \in Requests, Good(r), req[r].pc \in {"Filter", "FilterEnabled", "Scan"},
           req[r].pc # "Scan" \/ kind # "LeastConnections"
    PROVE  /\ Read(req[r]) = [pc |-> req[r].pc, list |-> req[r].list, pred |-> req[r].pred,
                              i |-> req[r].i + 1, found |-> Read(req[r]).found]
           /\ Read(req[r]) \in PassRec
           /\ Len(Read(req[r]).found) < req[r].i + 1
           /\ Within(Read(req[r]).found, Usable(r, req[r].pred))
           /\ \A v : Occurs(v, req[r].found) => Occurs(v, Read(req[r]).found)
           /\ req[r].pred = "eligible" =>
                 Reading(r) \in everDown[r] \/ Occurs(Reading(r), Read(req[r]).found)
           /\ Len(Read(req[r]).found) = 0 =>
                 /\ Len(req[r].found) = 0
                 /\ req[r].pred = "eligible" => Reading(r) \in everDown[r]
           /\ Passes(req[r].pred, Reading(r)) => Occurs(Reading(r), Read(req[r]).found)
<1> DEFINE q == req[r]
<1>1. /\ q \in PassRec /\ 1 <= q.i /\ Len(q.found) < q.i /\ q.i <= Len(q.list)
      /\ Within(q.found, Usable(r, req[r].pred)) /\ Window(r) /\ Running(r)
  BY DEF Good, Holds, Passing, Walks, Running
<1>2. /\ q.list \in Seq(Upstreams) /\ q.found \in Seq(Found) /\ q.i \in Nat
      /\ q.pc \in Walks /\ q.pred \in Preds /\ Reading(r) \in Upstreams
  BY <1>1 DEF PassRec, Reading
<1>3. Reading(r) \in Found
  BY <1>2 DEF Found
<1>4. /\ Passes(q.pred, Reading(r)) => Reading(r) \in Usable(r, req[r].pred)
      /\ q.pred = "eligible" /\ ~Passes(q.pred, Reading(r)) => Reading(r) \in everDown[r]
  BY <1>1, <1>2, ReadNow, Zenon
<1> DEFINE f == IF Passes(q.pred, Reading(r)) THEN Append(q.found, Reading(r)) ELSE q.found
<1>5. PICK p : p = Read(q) /\ p = [q EXCEPT !.i = q.i + 1, !.found = f]
  BY DEF Read, Reading
<1>6. Read(q) = [pc |-> q.pc, list |-> q.list, pred |-> q.pred, i |-> q.i + 1, found |-> f]
  BY <1>1, <1>5, Zenon DEF PassRec
<1>7. f \in Seq(Found) /\ Len(f) < q.i + 1
  BY <1>1, <1>2, <1>3
<1>8. Within(f, Usable(r, req[r].pred))
  BY <1>1, <1>2, <1>4 DEF Within
<1>9. /\ \A v : Occurs(v, q.found) => Occurs(v, f)
      /\ q.pred = "eligible" => Reading(r) \in everDown[r] \/ Occurs(Reading(r), f)
      /\ Len(f) = 0 => Len(q.found) = 0 /\ (q.pred = "eligible" => Reading(r) \in everDown[r])
      /\ Passes(q.pred, Reading(r)) => Occurs(Reading(r), f)
  <2>1. CASE Passes(q.pred, Reading(r))
    <3>1. /\ Len(f) = Len(q.found) + 1 /\ f[Len(q.found) + 1] = Reading(r)
          /\ \A j \in 1..Len(q.found) : f[j] = q.found[j]
          /\ Len(q.found) \in Nat
      BY <1>2, <1>3, <2>1
    <3> HIDE DEF f
    <3>2. \A v : Occurs(v, q.found) => Occurs(v, f)
      BY <3>1 DEF Occurs
    <3>3. Occurs(Reading(r), f)
      BY <3>1 DEF Occurs
    <3>4. Len(f) # 0
      BY <3>1
    <3> QED
      BY <3>2, <3>3, <3>4, Zenon
  <2>2. CASE ~Passes(q.pred, Reading(r))
    BY <1>4, <2>2
  <2> QED
    BY <2>1, <2>2
<1>10. Read(q) \in PassRec /\ Read(q).found = f
  <2> HIDE DEF f
  <2> QED
    BY <1>2, <1>6, <1>7 DEF PassRec
<1> HIDE DEF f
<1> QED
  BY <1>6, <1>7, <1>8, <1>9, <1>10

-----------------------------------------------------------------------------
(* A step of a request in progress moves it to another position where what *)
(* should hold does, or answers it.                                        *)
Moving(r) ==
    \E q : /\ q.pc \in Walks \union {"Pick", "Lease"}
           /\ Holds(r, q)
           /\ req' = [req EXCEPT ![r] = q]
           /\ UNCHANGED outcome

Justification(r, o) ==
    /\ o \in Selection!Justified(r)
    /\ kind \in {"FirstAvailable", "LeastConnections"} /\ o.kind = "NoEligible" =>
          everDown[r] = Upstreams

Answering(r) == \E o : Justification(r, o) /\ Finish(r, o)

(* An error is justified when all members were seen down. *)
LEMMA ErrorJustified ==
    ASSUME NEW r \in Requests, everDown[r] = Upstreams
    PROVE  Justification(r, [kind |-> "NoEligible"])
<1>1. everDown[r] # {}
  BY MembersFact
<1> QED
  BY <1>1, Zenon DEF Justification, Selection!Justified

(* The scheduler's choice, if it was usable, is a position to move to.     *)
LEMMA ChosenMoves ==
    ASSUME NEW r \in Requests, NEW u, Chosen(r, u), req[r].pred \in Preds,
           Fallen(r, req[r].pred), u \in Usable(r, req[r].pred)
    PROVE  Moving(r)
<1> DEFINE q == [pc |-> "Lease", upstream |-> u, pred |-> req[r].pred]
<1>1. q.pc = "Lease" /\ q.upstream = u /\ q.pred = req[r].pred
  OBVIOUS
<1>2. req' = [req EXCEPT ![r] = q] /\ UNCHANGED outcome
  BY DEF Chosen
<1>3. Holds(r, q)
  BY <1>1, Zenon DEF Holds, Passing, Seen, Covers, Missed, Picking, Leasing, Walks
<1> HIDE DEF q
<1> QED
  BY <1>1, <1>2, <1>3, Zenon DEF Moving

(* None of the scheduler: an error once all members were down, or the      *)
(* first of the enabled ones.                                              *)
LEMMA NoneMoves ==
    ASSUME NEW r \in Requests, NoneChosen(r), req[r].pred \in Preds, Fallen(r, req[r].pred),
           req[r].list \in Seq(Upstreams), 1 <= Len(req[r].list),
           Within(req[r].list, Usable(r, req[r].pred)),
           req[r].pred = "eligible" => Justification(r, [kind |-> "NoEligible"])
    PROVE  Moving(r) \/ Answering(r)
<1>1. CASE req[r].pred = "enabled"
  <2>1. Chosen(r, req[r].list[1])
    BY <1>1 DEF NoneChosen
  <2>2. req[r].list[1] \in Usable(r, req[r].pred)
    BY DEF Within
  <2> QED
    BY <2>1, <2>2, ChosenMoves
<1>2. CASE req[r].pred = "eligible"
  BY <1>2, Zenon DEF NoneChosen, Answering
<1> QED
  BY <1>1, <1>2 DEF Preds

(* A fresh pass of the scheduler over usable members. *)
LEMMA StartScan ==
    ASSUME Types, NEW r \in Requests, NEW list \in Seq(Found), NEW pred \in Preds,
           1 <= Len(list), Within(list, Usable(r, pred)), Fallen(r, pred),
           pred = "eligible" => \A u \in Upstreams : u \in everDown[r] \/ Occurs(u, list),
           req' = [req EXCEPT ![r] = Pass("Scan", list, pred)], UNCHANGED outcome
    PROVE  Moving(r)
<1> DEFINE q == [pc |-> "Scan", list |-> list, pred |-> pred, i |-> 1, found |-> <<>>]
<1>1. /\ q.pc = "Scan" /\ q.list = list /\ q.pred = pred /\ q.i = 1
      /\ q.found = <<>> /\ Len(q.found) = 0 /\ <<>> \in Seq(Found)
  OBVIOUS
<1>2. list \in Seq(Upstreams)
  <2>1. Usable(r, pred) \subseteq Upstreams
    BY DEF Usable, Types
  <2>2. Len(list) \in Nat /\ \A j \in 1..Len(list) : list[j] \in Upstreams
    BY <2>1 DEF Within
  <2>3. list = [j \in 1..Len(list) |-> list[j]]
    OBVIOUS
  <2> QED
    BY <2>2, <2>3
<1>3. q \in PassRec
  BY <1>1, <1>2 DEF PassRec, Walks
<1>4. req' = [req EXCEPT ![r] = q]
  BY DEF Pass
<1> HIDE DEF q
<1>5. Passing(r, q)
  BY <1>1, <1>3 DEF Passing, Within, Rated
<1>6. Seen(r, q) /\ Covers(r, q) /\ Missed(r, q) /\ Picking(r, q) /\ Leasing(r, q)
  BY <1>1 DEF Seen, Covers, Missed, Picking, Leasing
<1> QED
  BY <1>1, <1>4, <1>5, <1>6, Zenon DEF Moving, Holds, Walks

(* The pass of select over the group: it goes on, or it has seen all the   *)
(* members and schedules among those it found, or falls back.              *)
LEMMA FilterStep ==
    ASSUME Types, NEW r \in Requests, Good(r), Filter(r)
    PROVE  Moving(r) \/ Answering(r)
<1> DEFINE q == Read(req[r])
<1>1. /\ req[r].pc = "Filter" /\ req[r].list = Members /\ req[r].pred = "eligible"
      /\ req[r].i \in Nat /\ 1 <= req[r].i /\ req[r].i <= Len(Members)
      /\ Fallen(r, "eligible")
      /\ \A j \in 1..(req[r].i - 1) :
            Members[j] \in everDown[r] \/ Occurs(Members[j], req[r].found)
  BY Zenon DEF Filter, Good, Holds, Passing, Seen, Walks, PassRec
<1>2. /\ q = [pc |-> req[r].pc, list |-> req[r].list, pred |-> req[r].pred,
              i |-> req[r].i + 1, found |-> q.found]
      /\ q \in PassRec /\ Len(q.found) < req[r].i + 1
      /\ Within(q.found, Usable(r, req[r].pred))
      /\ \A v : Occurs(v, req[r].found) => Occurs(v, q.found)
      /\ Reading(r) \in everDown[r] \/ Occurs(Reading(r), q.found)
  BY <1>1, ReadPass, Zenon
<1>3. /\ q.pc = "Filter" /\ q.list = Members /\ q.pred = "eligible" /\ q.i = req[r].i + 1
      /\ q.found \in Seq(Found) /\ Reading(r) = Members[req[r].i]
  <2>1. PICK f, p : /\ f = q.found
                    /\ p = [pc |-> req[r].pc, list |-> req[r].list, pred |-> req[r].pred,
                            i |-> req[r].i + 1, found |-> f]
    BY Zenon
  <2>2. p.pc = req[r].pc /\ p.list = req[r].list /\ p.pred = req[r].pred /\ p.i = req[r].i + 1
    BY <2>1, Zenon
  <2>3. q = p
    BY <1>2, <2>1, Zenon
  <2>4. q.found \in Seq(Found)
    BY <1>2, Zenon DEF PassRec
  <2> QED BY <1>1, <2>2, <2>3, <2>4, Zenon DEF Reading
<1>5. IF q.i <= Len(q.list) THEN req' = [req EXCEPT ![r] = q] /\ UNCHANGED outcome
                            ELSE AfterFilter(r, q.found)
  BY Zenon DEF Filter
<1> HIDE DEF q
<1>4. \A j \in 1..(q.i - 1) : Members[j] \in everDown[r] \/ Occurs(Members[j], q.found)
  <2>1. \A j \in 1..(q.i - 1) : j \in 1..(req[r].i - 1) \/ j = req[r].i
    BY <1>1, <1>3
  <2>2. \A j \in 1..(req[r].i - 1) :
            Members[j] \in everDown[r] \/ Occurs(Members[j], q.found)
    BY <1>1, <1>2, Zenon
  <2>3. Members[req[r].i] \in everDown[r] \/ Occurs(Members[req[r].i], q.found)
    BY <1>2, <1>3, Zenon
  <2> QED
    BY <2>1, <2>2, <2>3, Zenon
<1>6. CASE q.i <= Len(q.list)
  <2>1. /\ 1 <= q.i /\ Len(q.found) < q.i /\ Fallen(r, q.pred)
        /\ Within(q.found, Usable(r, q.pred))
    BY <1>1, <1>2, <1>3
  <2>2. Passing(r, q)
    BY <1>2, <1>3, <1>6, <2>1 DEF Passing
  <2>3. Seen(r, q) /\ Covers(r, q) /\ Missed(r, q) /\ Picking(r, q) /\ Leasing(r, q)
    BY <1>3, <1>4 DEF Seen, Covers, Missed, Picking, Leasing
  <2> QED
    BY <1>3, <1>5, <1>6, <2>2, <2>3, Zenon DEF Moving, Holds, Walks
<1>7. CASE ~(q.i <= Len(q.list))
  <2>1. \A u \in Upstreams : u \in everDown[r] \/ Occurs(u, q.found)
    <3>1. Len(Members) \in Nat
      BY MembersFact, Zenon
    <3>2. q.i - 1 = Len(Members)
      BY <1>1, <1>3, <1>7, <3>1
    <3>3. \A j \in 1..Len(Members) : Members[j] \in everDown[r] \/ Occurs(Members[j], q.found)
      BY <1>4, <3>2, Zenon
    <3> QED
      BY <3>3, MembersFact, Zenon
  <2>2. AfterFilter(r, q.found)
    BY <1>5, <1>7
  <2>3. CASE q.found # <<>>
    <3>1. req' = [req EXCEPT ![r] = Pass("Scan", q.found, "eligible")] /\ UNCHANGED outcome
      BY <2>2, <2>3 DEF AfterFilter
    <3>2. 1 <= Len(q.found) /\ "eligible" \in Preds
      BY <1>3, <2>3 DEF Preds
    <3> QED
      BY <1>1, <1>2, <1>3, <2>1, <3>1, <3>2, StartScan, Zenon
  <2>4. CASE q.found = <<>>
    <3>0. \A u : ~Occurs(u, q.found)
      BY <2>4 DEF Occurs
    <3>1. everDown[r] = Upstreams
      BY <2>1, <3>0, Zenon DEF Types
    <3>2. CASE fallback = "Reject" /\ Finish(r, [kind |-> "NoEligible"])
      BY <3>1, <3>2, ErrorJustified, Zenon DEF Answering
    <3>3. CASE fallback = "Direct" /\ Finish(r, [kind |-> "DirectFallback"])
      <4>1. Justification(r, [kind |-> "DirectFallback"])
        BY <3>1, <3>3 DEF Justification, Selection!Justified
      <4> QED
        BY <3>3, <4>1, Zenon DEF Answering
    <3>4. CASE /\ fallback = "UseUnhealthy"
               /\ req' = [req EXCEPT ![r] = Pass("FilterEnabled", Members, "enabled")]
               /\ UNCHANGED outcome
      <4> DEFINE p == Pass("FilterEnabled", Members, "enabled")
      <4>1. /\ p.pc = "FilterEnabled" /\ p.list = Members /\ p.pred = "enabled" /\ p.i = 1
            /\ p.found = <<>> /\ Len(p.found) = 0 /\ <<>> \in Seq(Found)
        BY DEF Pass
      <4>2. p \in PassRec
        BY <4>1, MembersFact DEF PassRec, Walks, Preds, Pass
      <4> HIDE DEF p
      <4>3. Passing(r, p)
        BY <3>1, <3>4, <4>1, <4>2, MembersFact DEF Passing, Within, Fallen
      <4>4. Seen(r, p) /\ Covers(r, p) /\ Missed(r, p) /\ Picking(r, p) /\ Leasing(r, p)
        BY <4>1 DEF Seen, Covers, Missed, Picking, Leasing
      <4>5. req' = [req EXCEPT ![r] = p] /\ UNCHANGED outcome
        BY <3>4 DEF p
      <4> QED
        BY <4>1, <4>3, <4>4, <4>5, Zenon DEF Moving, Holds, Walks
    <3> QED
      BY <2>2, <2>4, <3>2, <3>3, <3>4, Zenon DEF AfterFilter
  <2> QED
    BY <2>3, <2>4
<1> QED
  BY <1>6, <1>7

(* The pass of select over the enabled members. *)
LEMMA FilterEnabledStep ==
    ASSUME Types, NEW r \in Requests, Good(r), FilterEnabled(r)
    PROVE  Moving(r) \/ Answering(r)
<1> DEFINE q == Read(req[r])
<1>1. /\ req[r].pc = "FilterEnabled" /\ req[r].list = Members /\ req[r].pred = "enabled"
      /\ req[r].i \in Nat /\ 1 <= req[r].i /\ req[r].i <= Len(Members)
      /\ Fallen(r, "enabled")
  BY Zenon DEF FilterEnabled, Good, Holds, Passing, Walks, PassRec
<1>2. /\ q = [pc |-> req[r].pc, list |-> req[r].list, pred |-> req[r].pred,
              i |-> req[r].i + 1, found |-> q.found]
      /\ q \in PassRec /\ Len(q.found) < req[r].i + 1
      /\ Within(q.found, Usable(r, req[r].pred))
  BY <1>1, ReadPass, Zenon
<1>3. /\ q.pc = "FilterEnabled" /\ q.list = Members /\ q.pred = "enabled"
      /\ q.i = req[r].i + 1 /\ q.found \in Seq(Found)
  BY <1>1, <1>2 DEF PassRec
<1>4. IF q.i <= Len(q.list) THEN req' = [req EXCEPT ![r] = q] /\ UNCHANGED outcome
      ELSE IF q.found = <<>> THEN Finish(r, [kind |-> "NoEligible"])
      ELSE req' = [req EXCEPT ![r] = Pass("Scan", q.found, "enabled")] /\ UNCHANGED outcome
  BY Zenon DEF FilterEnabled
<1> HIDE DEF q
<1>5. CASE q.i <= Len(q.list)
  <2>1. /\ 1 <= q.i /\ Len(q.found) < q.i /\ Fallen(r, q.pred)
        /\ Within(q.found, Usable(r, q.pred))
    BY <1>1, <1>2, <1>3
  <2>2. Passing(r, q)
    BY <1>2, <1>3, <1>5, <2>1 DEF Passing
  <2>3. Seen(r, q) /\ Covers(r, q) /\ Missed(r, q) /\ Picking(r, q) /\ Leasing(r, q)
    BY <1>3 DEF Seen, Covers, Missed, Picking, Leasing
  <2> QED
    BY <1>3, <1>4, <1>5, <2>2, <2>3, Zenon DEF Moving, Holds, Walks
<1>6. CASE ~(q.i <= Len(q.list)) /\ q.found = <<>>
  <2>1. everDown[r] = Upstreams /\ Finish(r, [kind |-> "NoEligible"])
    BY <1>1, <1>4, <1>6 DEF Fallen
  <2> QED
    BY <2>1, ErrorJustified, Zenon DEF Answering
<1>7. CASE ~(q.i <= Len(q.list)) /\ q.found # <<>>
  <2>1. req' = [req EXCEPT ![r] = Pass("Scan", q.found, "enabled")] /\ UNCHANGED outcome
    BY <1>4, <1>7
  <2>2. 1 <= Len(q.found) /\ "enabled" \in Preds /\ "enabled" # "eligible"
    BY <1>3, <1>7 DEF Preds
  <2> QED
    BY <1>1, <1>2, <1>3, <2>1, <2>2, StartScan, Zenon
<1> QED
  BY <1>5, <1>6, <1>7

-----------------------------------------------------------------------------
(* What one read of the scheduler's pass leads to. *)
ScanRead(r, q) ==
    /\ q = [pc |-> "Scan", list |-> req[r].list, pred |-> req[r].pred, i |-> req[r].i + 1,
            found |-> q.found]
    /\ q \in PassRec
    /\ Len(q.found) < req[r].i + 1
    /\ IF kind = "LeastConnections" THEN Rated(q.found, Usable(r, req[r].pred))
                                    ELSE Within(q.found, Usable(r, req[r].pred))
    /\ Len(q.found) = 0 =>
          /\ Len(req[r].found) = 0
          /\ req[r].pred = "eligible" => Reading(r) \in everDown[r]

(* What is known of a request before a read of the scheduler's pass. *)
LEMMA Scanning ==
    ASSUME NEW r \in Requests, Good(r), req[r].pc = "Scan", NEW q, ScanRead(r, q)
    PROVE  /\ req[r].i \in Nat /\ 1 <= req[r].i /\ req[r].i <= Len(req[r].list)
           /\ req[r].list \in Seq(Upstreams) /\ req[r].pred \in Preds
           /\ Len(req[r].list) \in Nat /\ 1 <= Len(req[r].list)
           /\ Fallen(r, req[r].pred) /\ Within(req[r].list, Usable(r, req[r].pred))
           /\ Covers(r, req[r]) /\ Missed(r, req[r])
           /\ q.pc = "Scan" /\ q.list = req[r].list /\ q.pred = req[r].pred
           /\ q.i = req[r].i + 1 /\ q.found \in Seq(Found) /\ Len(q.found) \in Nat
<1>1. /\ req[r] \in PassRec /\ 1 <= req[r].i /\ req[r].i <= Len(req[r].list)
      /\ Fallen(r, req[r].pred) /\ Within(req[r].list, Usable(r, req[r].pred))
      /\ Covers(r, req[r]) /\ Missed(r, req[r])
  BY Zenon DEF Good, Holds, Passing, Walks
<1>2. /\ q.pc = "Scan" /\ q.list = req[r].list /\ q.pred = req[r].pred
      /\ q.i = req[r].i + 1 /\ q \in PassRec
  BY DEF ScanRead
<1>3. /\ req[r].i \in Nat /\ req[r].list \in Seq(Upstreams) /\ req[r].pred \in Preds
      /\ q.found \in Seq(Found)
  BY <1>1, <1>2, Zenon DEF PassRec
<1> QED
  BY <1>1, <1>2, <1>3

(* The members passed over by the whole pass of the scheduler, and those   *)
(* the filter left out, were all down.                                     *)
LEMMA ScanMissed ==
    ASSUME Types, NEW r \in Requests, Good(r), req[r].pc = "Scan", NEW q, ScanRead(r, q),
           Len(q.found) = 0, req[r].pred = "eligible"
    PROVE  /\ \A j \in 1..req[r].i : req[r].list[j] \in everDown[r]
           /\ ~(q.i <= Len(q.list)) => everDown[r] = Upstreams
<1>1. /\ req[r].i \in Nat /\ 1 <= req[r].i /\ req[r].i <= Len(req[r].list)
      /\ Len(req[r].list) \in Nat
      /\ Covers(r, req[r]) /\ Missed(r, req[r]) /\ q.i = req[r].i + 1 /\ q.list = req[r].list
  BY Scanning, Zenon
<1>2. Len(req[r].found) = 0 /\ req[r].list[req[r].i] \in everDown[r]
  BY DEF ScanRead, Reading
<1>3. \A j \in 1..(req[r].i - 1) : req[r].list[j] \in everDown[r]
  BY <1>1, <1>2, Zenon DEF Missed
<1>4. \A j \in 1..req[r].i : req[r].list[j] \in everDown[r]
  BY <1>1, <1>2, <1>3
<1>5. ASSUME ~(q.i <= Len(q.list)) PROVE everDown[r] = Upstreams
  <2>1. req[r].i = Len(req[r].list)
    BY <1>1, <1>5
  <2>2. \A u \in Upstreams : u \in everDown[r] \/ Occurs(u, req[r].list)
    BY <1>1, Zenon DEF Covers
  <2>3. ASSUME NEW v \in Upstreams PROVE v \in everDown[r]
    <3>1. CASE Occurs(v, req[r].list)
      BY <1>4, <2>1, <3>1, Zenon DEF Occurs
    <3> QED
      BY <2>2, <3>1, Zenon
  <2> QED
    BY <2>3, Zenon DEF Types
<1> QED
  BY <1>4, <1>5, Zenon

(* The pass goes on. *)
LEMMA ScanOn ==
    ASSUME Types, NEW r \in Requests, Good(r), req[r].pc = "Scan", NEW q, ScanRead(r, q),
           q.i <= Len(q.list), req' = [req EXCEPT ![r] = q], UNCHANGED outcome
    PROVE  Moving(r)
<1>1. /\ req[r].i \in Nat /\ 1 <= req[r].i
      /\ Fallen(r, req[r].pred) /\ Within(req[r].list, Usable(r, req[r].pred))
      /\ Covers(r, req[r])
      /\ q.pc = "Scan" /\ q.list = req[r].list /\ q.pred = req[r].pred
      /\ q.i = req[r].i + 1 /\ Len(q.found) \in Nat
  BY Scanning, Zenon
<1>2. q.i - 1 = req[r].i /\ 1 <= q.i
  BY <1>1
<1>3. /\ q \in PassRec /\ Len(q.found) < q.i
      /\ IF kind = "LeastConnections" THEN Rated(q.found, Usable(r, q.pred))
                                      ELSE Within(q.found, Usable(r, q.pred))
  BY <1>1, Zenon DEF ScanRead
<1>4. Passing(r, q)
  BY <1>1, <1>2, <1>3, Zenon DEF Passing
<1>5. Covers(r, q)
  BY <1>1, Zenon DEF Covers
<1>6. Missed(r, q)
  BY <1>1, <1>2, ScanMissed, Zenon DEF Missed
<1>7. Seen(r, q) /\ Picking(r, q) /\ Leasing(r, q)
  BY <1>1, Zenon DEF Seen, Picking, Leasing
<1> QED
  BY <1>1, <1>4, <1>5, <1>6, <1>7, Zenon DEF Moving, Holds, Walks

(* The pass is over and nothing was found. *)
LEMMA ScanNone ==
    ASSUME Types, NEW r \in Requests, Good(r), req[r].pc = "Scan", NEW q, ScanRead(r, q),
           ~(q.i <= Len(q.list)), q.found = <<>>, NoneChosen(r)
    PROVE  Moving(r) \/ Answering(r)
<1>1. /\ req[r].list \in Seq(Upstreams) /\ 1 <= Len(req[r].list) /\ req[r].pred \in Preds
      /\ Fallen(r, req[r].pred) /\ Within(req[r].list, Usable(r, req[r].pred))
  BY Scanning, Zenon
<1>2. Len(q.found) = 0
  OBVIOUS
<1>3. req[r].pred = "eligible" => Justification(r, [kind |-> "NoEligible"])
  BY <1>2, ScanMissed, ErrorJustified, Zenon
<1> QED
  BY <1>1, <1>3, NoneMoves, Zenon

(* FirstAvailable. *)
LEMMA ScanFirstStep ==
    ASSUME Types, NEW r \in Requests, Good(r), ScanFirst(r)
    PROVE  Moving(r) \/ Answering(r)
<1> DEFINE q == Read(req[r])
<1>1. req[r].pc = "Scan" /\ kind = "FirstAvailable"
  BY DEF ScanFirst
<1>2. ScanRead(r, q)
  BY <1>1, ReadPass, Zenon DEF ScanRead
<1>3. IF q.found # <<>> THEN Chosen(r, q.found[1])
      ELSE IF q.i <= Len(q.list) THEN req' = [req EXCEPT ![r] = q] /\ UNCHANGED outcome
      ELSE NoneChosen(r)
  BY DEF ScanFirst
<1> HIDE DEF q
<1>4. CASE q.found # <<>>
  <2>1. /\ req[r].pred \in Preds /\ Fallen(r, req[r].pred) /\ q.found \in Seq(Found)
        /\ Len(q.found) \in Nat
    BY <1>1, <1>2, Scanning, Zenon
  <2>2. 1 \in 1..Len(q.found)
    BY <1>4, <2>1
  <2>3. Within(q.found, Usable(r, req[r].pred))
    BY <1>1, <1>2 DEF ScanRead
  <2>4. q.found[1] \in Usable(r, req[r].pred)
    BY <2>2, <2>3, Zenon DEF Within
  <2> QED
    BY <1>3, <1>4, <2>1, <2>4, ChosenMoves, Zenon
<1>5. CASE q.found = <<>> /\ q.i <= Len(q.list)
  BY <1>1, <1>2, <1>3, <1>5, ScanOn, Zenon
<1>6. CASE q.found = <<>> /\ ~(q.i <= Len(q.list))
  BY <1>1, <1>2, <1>3, <1>6, ScanNone, Zenon
<1> QED
  BY <1>4, <1>5, <1>6, Zenon

(* The pass is over and some were found: the ticket is next. *)
LEMMA ScanTicket ==
    ASSUME Types, NEW r \in Requests, Good(r), req[r].pc = "Scan", NEW q, ScanRead(r, q),
           ~(q.i <= Len(q.list)), q.found # <<>>,
           req' = [req EXCEPT ![r] = [q EXCEPT !.pc = "Ticket"]], UNCHANGED outcome
    PROVE  Moving(r)
<1> DEFINE p == [q EXCEPT !.pc = "Ticket"]
<1>1. /\ req[r].i \in Nat /\ 1 <= req[r].i /\ req[r].i <= Len(req[r].list)
      /\ Len(req[r].list) \in Nat
      /\ Fallen(r, req[r].pred) /\ Within(req[r].list, Usable(r, req[r].pred))
      /\ q.list = req[r].list /\ q.pred = req[r].pred
      /\ q.i = req[r].i + 1 /\ q.found \in Seq(Found) /\ Len(q.found) \in Nat
  BY Scanning, Zenon
<1>2. /\ q \in PassRec /\ Len(q.found) < req[r].i + 1
      /\ IF kind = "LeastConnections" THEN Rated(q.found, Usable(r, q.pred))
                                      ELSE Within(q.found, Usable(r, q.pred))
  BY <1>1 DEF ScanRead
<1>3. /\ p \in PassRec /\ p.pc = "Ticket" /\ p.list = q.list /\ p.pred = q.pred
      /\ p.i = q.i /\ p.found = q.found
  BY <1>2, Zenon DEF PassRec, Walks
<1>4. 1 <= Len(q.found) /\ Len(q.found) <= Len(q.list)
  BY <1>1, <1>2
<1> HIDE DEF p
<1>5. Passing(r, p)
  BY <1>1, <1>2, <1>3, <1>4 DEF Passing
<1>6. Seen(r, p) /\ Covers(r, p) /\ Missed(r, p) /\ Picking(r, p) /\ Leasing(r, p)
  BY <1>3 DEF Seen, Covers, Missed, Picking, Leasing
<1>7. req' = [req EXCEPT ![r] = p] /\ UNCHANGED outcome
  BY DEF p
<1> QED
  BY <1>3, <1>5, <1>6, <1>7, Zenon DEF Moving, Holds, Walks

(* RoundRobin and Random. *)
LEMMA ScanCountStep ==
    ASSUME Types, NEW r \in Requests, Good(r), ScanCount(r)
    PROVE  Moving(r) \/ Answering(r)
<1> DEFINE q == Read(req[r])
<1>1. req[r].pc = "Scan" /\ kind # "LeastConnections"
  BY DEF ScanCount
<1>2. ScanRead(r, q)
  BY <1>1, ReadPass, Zenon DEF ScanRead
<1>3. IF q.i <= Len(q.list) THEN req' = [req EXCEPT ![r] = q] /\ UNCHANGED outcome
      ELSE IF q.found = <<>> THEN NoneChosen(r)
      ELSE req' = [req EXCEPT ![r] = [q EXCEPT !.pc = "Ticket"]] /\ UNCHANGED outcome
  BY DEF ScanCount
<1> HIDE DEF q
<1>4. CASE q.i <= Len(q.list)
  BY <1>1, <1>2, <1>3, <1>4, ScanOn, Zenon
<1>5. CASE ~(q.i <= Len(q.list)) /\ q.found = <<>>
  BY <1>1, <1>2, <1>3, <1>5, ScanNone, Zenon
<1>6. CASE ~(q.i <= Len(q.list)) /\ q.found # <<>>
  BY <1>1, <1>2, <1>3, <1>6, ScanTicket, Zenon
<1> QED
  BY <1>4, <1>5, <1>6, Zenon

(* A member that was read joins the snapshot of the loads. *)
LEMMA RatedAppend ==
    ASSUME NEW s \in Seq(Found), NEW S, NEW u, NEW l, <<u, l>> \in Found, NEW B \in BOOLEAN,
           Rated(s, S), B => u \in S
    PROVE  Rated(IF B THEN Append(s, <<u, l>>) ELSE s, S)
<1>1. CASE B
  <2>1. PICK e : e = <<u, l>>
    OBVIOUS
  <2>2. e[1] = u /\ e \in Found
    BY <2>1
  <2>3. /\ Len(Append(s, e)) = Len(s) + 1 /\ Append(s, e)[Len(s) + 1] = e /\ Len(s) \in Nat
        /\ \A j \in 1..Len(s) : Append(s, e)[j] = s[j]
    BY <2>2
  <2>4. \A j \in 1..(Len(s) + 1) : j \in 1..Len(s) \/ j = Len(s) + 1
    BY <2>3
  <2>5. Rated(Append(s, e), S)
    BY <1>1, <2>2, <2>3, <2>4, Zenon DEF Rated
  <2> QED
    BY <1>1, <2>1, <2>5, Zenon
<1>2. CASE ~B
  BY <1>2, Zenon
<1> QED
  BY <1>1, <1>2

(* LeastConnections. *)
LEMMA ScanLoadsStep ==
    ASSUME Types, NEW r \in Requests, Good(r), ScanLoads(r)
    PROVE  Moving(r) \/ Answering(r)
<1> DEFINE u == Reading(r)
           f == IF Passes(req[r].pred, u) THEN Append(req[r].found, <<u, load[u]>>)
                                          ELSE req[r].found
           q == [req[r] EXCEPT !.i = req[r].i + 1, !.found = f]
<1>1. req[r].pc = "Scan" /\ kind = "LeastConnections"
  BY Zenon DEF ScanLoads
<1>2. /\ req[r] \in PassRec /\ 1 <= req[r].i /\ req[r].i <= Len(req[r].list)
      /\ Len(req[r].found) < req[r].i /\ Window(r) /\ Running(r)
      /\ Rated(req[r].found, Usable(r, req[r].pred))
  BY <1>1, Zenon DEF Good, Holds, Passing, Walks, Running
<1>3. /\ req[r].list \in Seq(Upstreams) /\ req[r].found \in Seq(Found) /\ req[r].i \in Nat
      /\ req[r].pred \in Preds /\ u \in Upstreams
  BY <1>2 DEF PassRec, Reading
<1>4. <<u, load[u]>> \in Found
  BY <1>3 DEF Found, Types
<1>5. /\ Passes(req[r].pred, u) => u \in Usable(r, req[r].pred)
      /\ req[r].pred = "eligible" /\ ~Passes(req[r].pred, u) => u \in everDown[r]
  BY <1>2, <1>3, ReadNow, Zenon
<1>6. IF q.i <= Len(req[r].list) THEN req' = [req EXCEPT ![r] = q] /\ UNCHANGED outcome
      ELSE IF f = <<>> THEN NoneChosen(r)
      ELSE req' = [req EXCEPT ![r] = [q EXCEPT !.pc = "Ticket"]] /\ UNCHANGED outcome
  BY Zenon DEF ScanLoads, Reading
<1>7. /\ f \in Seq(Found) /\ Len(f) < req[r].i + 1
      /\ Len(f) = 0 => Len(req[r].found) = 0 /\ ~Passes(req[r].pred, u)
  BY <1>2, <1>3, <1>4, SMTT(30)
<1>14. Rated(f, Usable(r, req[r].pred))
  <2>1. PICK B \in BOOLEAN : B <=> Passes(req[r].pred, u)
    BY Zenon
  <2>2. PICK s, S, l : s = req[r].found /\ S = Usable(r, req[r].pred) /\ l = load[u]
    BY Zenon
  <2>3. s \in Seq(Found) /\ <<u, l>> \in Found /\ Rated(s, S) /\ (B => u \in S)
    BY <1>2, <1>3, <1>4, <1>5, <2>1, <2>2, Zenon
  <2>4. Rated(IF B THEN Append(s, <<u, l>>) ELSE s, S)
    BY <2>3, RatedAppend, Zenon
  <2> QED
    BY <2>1, <2>2, <2>4, Zenon
<1> HIDE DEF f
<1>8. q = [pc |-> "Scan", list |-> req[r].list, pred |-> req[r].pred, i |-> req[r].i + 1,
           found |-> f]
  <2>1. q = [pc |-> req[r].pc, list |-> req[r].list, pred |-> req[r].pred,
             i |-> req[r].i + 1, found |-> f]
    BY <1>2, Advance, Zenon
  <2> QED
    BY <1>1, <2>1, Zenon
<1>9. q.found = f /\ q.list = req[r].list /\ q \in PassRec
  <2> HIDE DEF q
  <2>1. "Scan" \in Walks /\ req[r].i + 1 \in Nat
    BY <1>3 DEF Walks
  <2> QED
    BY <1>3, <1>7, <1>8, <2>1, Zenon DEF PassRec
<1> HIDE DEF q
<1>10. ScanRead(r, q)
  BY <1>1, <1>5, <1>7, <1>8, <1>9, <1>14, Zenon DEF ScanRead
<1>11. CASE q.i <= Len(q.list)
  BY <1>1, <1>6, <1>9, <1>10, <1>11, ScanOn, Zenon
<1>12. CASE ~(q.i <= Len(q.list)) /\ q.found = <<>>
  BY <1>1, <1>6, <1>9, <1>10, <1>12, ScanNone, Zenon
<1>13. CASE ~(q.i <= Len(q.list)) /\ q.found # <<>>
  BY <1>1, <1>6, <1>9, <1>10, <1>13, ScanTicket, Zenon
<1> QED
  BY <1>11, <1>12, <1>13, Zenon

(* A second pass that starts with a ticket below the number of candidates. *)
LEMMA StartPick ==
    ASSUME NEW r \in Requests, Good(r), req[r].pc = "Ticket", NEW n \in Int,
           kind \in {"RoundRobin", "Random"},
           n <= Len(req[r].found) - 1,
           req' = [req EXCEPT ![r] = PickPass(req[r], n)], UNCHANGED outcome
    PROVE  Moving(r)
<1> DEFINE p == PickPass(req[r], n)
<1>1. /\ req[r] \in PassRec /\ Fallen(r, req[r].pred)
      /\ Within(req[r].list, Usable(r, req[r].pred))
      /\ 1 <= Len(req[r].found) /\ Len(req[r].found) <= Len(req[r].list)
  BY Zenon DEF Good, Holds, Passing, Walks
<1>2. /\ req[r].list \in Seq(Upstreams) /\ req[r].pred \in Preds
      /\ Len(req[r].list) \in Nat /\ Len(req[r].found) \in Nat
  BY <1>1 DEF PassRec
<1>3. /\ p.pc = "Pick" /\ p.list = req[r].list /\ p.pred = req[r].pred /\ p.i = 1
      /\ p.pick = n
  BY Zenon DEF PickPass
<1>4. p \in PickRec
  BY <1>2, Zenon DEF PickPass, PickRec
<1> HIDE DEF p
<1>5. 1 <= Len(p.list) /\ p.pick <= Len(p.list) - p.i
  BY <1>1, <1>2, <1>3
<1>6. Picking(r, p)
  BY <1>1, <1>3, <1>4, <1>5 DEF Picking
<1>7. Passing(r, p) /\ Seen(r, p) /\ Covers(r, p) /\ Missed(r, p) /\ Leasing(r, p)
  BY <1>3, Zenon DEF Passing, Seen, Covers, Missed, Leasing, Walks
<1>8. req' = [req EXCEPT ![r] = p] /\ UNCHANGED outcome
  BY DEF p
<1> QED
  BY <1>3, <1>6, <1>7, <1>8, Zenon DEF Moving, Holds

(* The ticket of the cursor or of the random generator. *)
LEMMA TicketStep ==
    ASSUME Types, NEW r \in Requests, Good(r), Ticket(r)
    PROVE  Moving(r)
<1>1. /\ req[r].pc = "Ticket" /\ req[r] \in PassRec /\ Fallen(r, req[r].pred)
      /\ 1 <= Len(req[r].found)
      /\ kind = "LeastConnections" => Rated(req[r].found, Usable(r, req[r].pred))
  <2>1. req[r].pc = "Ticket" /\ Passing(r, req[r])
    BY Zenon DEF Ticket, Good, Holds
  <2> QED
    BY <2>1, Zenon DEF Passing, Walks
<1>2. req[r].pred \in Preds /\ Len(req[r].found) \in Nat /\ cursor \in Nat
  BY <1>1 DEF PassRec, Types
<1>3. CASE kind = "RoundRobin"
  <2>0. kind \in {"RoundRobin", "Random"}
    BY <1>3
  <2>1. /\ req' = [req EXCEPT ![r] = PickPass(req[r], cursor % Len(req[r].found))]
        /\ UNCHANGED outcome
    BY <1>3, Zenon DEF Ticket
  <2>2. /\ cursor % Len(req[r].found) \in Int
        /\ cursor % Len(req[r].found) <= Len(req[r].found) - 1
    <3>1. \A c, n \in Nat : 1 <= n => c % n \in Int /\ c % n <= n - 1
      OBVIOUS
    <3> QED
      BY <1>1, <1>2, <3>1, Zenon
  <2> QED
    BY <1>1, <2>0, <2>1, <2>2, StartPick, Zenon
<1>4. CASE kind = "Random"
  <2>0. kind \in {"RoundRobin", "Random"}
    BY <1>4
  <2>1. PICK n \in 0..(Len(req[r].found) - 1) : req' = [req EXCEPT ![r] = PickPass(req[r], n)]
    BY <1>4, Zenon DEF Ticket
  <2>2. n \in Int /\ n <= Len(req[r].found) - 1 /\ UNCHANGED outcome
    <3>1. UNCHANGED outcome
      BY <1>4, Zenon DEF Ticket
    <3> QED
      BY <1>2, <2>1, <3>1
  <2> QED
    BY <1>1, <2>0, <2>1, <2>2, StartPick, Zenon
<1>5. CASE kind = "LeastConnections"
  <2>1. PICK j \in DOMAIN req[r].found : Chosen(r, req[r].found[j][1])
    BY <1>5, Zenon DEF Ticket
  <2>2. j \in 1..Len(req[r].found) /\ Rated(req[r].found, Usable(r, req[r].pred))
    BY <1>1, <1>5, <2>1 DEF PassRec
  <2>3. req[r].found[j][1] \in Usable(r, req[r].pred)
    BY <2>2, Zenon DEF Rated
  <2> QED
    BY <1>1, <1>2, <2>1, <2>3, ChosenMoves, Zenon
<1> QED
  BY <1>3, <1>4, <1>5, Zenon DEF Ticket

(* The second pass: it can run out of members only if one of them was down. *)
LEMMA PickStep ==
    ASSUME Types, NEW r \in Requests, Good(r), Pick(r)
    PROVE  Moving(r) \/ Answering(r)
<1> DEFINE u == Reading(r)
           pick == IF Passes(req[r].pred, u) THEN req[r].pick - 1 ELSE req[r].pick
           p == [req[r] EXCEPT !.i = req[r].i + 1, !.pick = pick]
<1>1. req[r].pc = "Pick"
  BY DEF Pick
<1>2. /\ req[r] \in PickRec /\ Fallen(r, req[r].pred) /\ Within(req[r].list, Usable(r, req[r].pred))
      /\ 1 <= req[r].i /\ req[r].i <= Len(req[r].list)
      /\ everDown[r] # {} \/ req[r].pick <= Len(req[r].list) - req[r].i
      /\ kind \in {"RoundRobin", "Random"} /\ Window(r) /\ Running(r)
  <2>1. Picking(r, req[r]) /\ Window(r)
    BY Zenon DEF Good, Holds
  <2> QED
    BY <1>1, <2>1, Zenon DEF Picking, Running
<1>3. /\ req[r].list \in Seq(Upstreams) /\ Len(req[r].list) \in Nat /\ req[r].i \in Nat
      /\ req[r].pick \in Int /\ req[r].pred \in Preds
  BY <1>2 DEF PickRec
<1>4. u \in Upstreams /\ u \in Usable(r, req[r].pred)
  BY <1>2, <1>3 DEF Reading, Within
<1>5. req[r].pred = "eligible" /\ ~Passes(req[r].pred, u) => everDown[r] # {}
  BY <1>2, <1>4, ReadNow, Zenon
<1>6. IF pick < 0 THEN Chosen(r, u)
      ELSE IF req[r].i < Len(req[r].list)
           THEN req' = [req EXCEPT ![r] = p] /\ UNCHANGED outcome
      ELSE NoneChosen(r)
  BY Zenon DEF Pick, Reading
<1> HIDE DEF u
<1>7. /\ pick \in Int
      /\ req[r].pred = "eligible" =>
            everDown[r] # {} \/ pick <= Len(req[r].list) - (req[r].i + 1)
  <2>1. everDown[r] # {} \/ req[r].pick <= Len(req[r].list) - req[r].i
    BY <1>2, Zenon
  <2>2. \A n, l, i \in Int : n - 1 \in Int /\ (n <= l - i => n - 1 <= l - (i + 1))
    OBVIOUS
  <2>3. CASE Passes(req[r].pred, u)
    <3>1. pick = req[r].pick - 1
      BY <2>3
    <3>2. req[r].pick \in Int /\ Len(req[r].list) \in Int /\ req[r].i \in Int
      BY <1>3
    <3> HIDE DEF pick
    <3> QED
      BY <2>1, <2>2, <3>1, <3>2, Zenon
  <2>4. CASE ~Passes(req[r].pred, u)
    BY <1>3, <1>5, <2>4, Zenon
  <2> QED
    BY <2>3, <2>4, Zenon
<1>8. req[r].pred = "enabled" => everDown[r] # {}
  <2>1. Upstreams # {}
    BY MembersFact
  <2>2. Fallen(r, req[r].pred)
    BY <1>2, Zenon
  <2> QED
    BY <2>1, <2>2, Zenon DEF Fallen
<1> HIDE DEF pick
<1>9. CASE pick < 0
  BY <1>2, <1>3, <1>4, <1>6, <1>9, ChosenMoves, Zenon
<1>10. CASE ~(pick < 0) /\ req[r].i < Len(req[r].list)
  <2>1. PICK t : t = p
    OBVIOUS
  <2>2. t = [pc |-> req[r].pc, list |-> req[r].list, pred |-> req[r].pred,
             i |-> req[r].i + 1, pick |-> pick]
    BY <1>2, <2>1, Zenon DEF PickRec
  <2>3. /\ t.pc = "Pick" /\ t.list = req[r].list /\ t.pred = req[r].pred
        /\ t.i = req[r].i + 1 /\ t.pick = pick /\ t \in PickRec
    <3> HIDE DEF p
    <3>1. req[r].i + 1 \in Nat
      BY <1>3
    <3> QED
      BY <1>1, <1>3, <1>7, <2>2, <3>1, Zenon DEF PickRec
  <2>4. 1 <= t.i /\ t.i <= Len(t.list)
    BY <1>2, <1>3, <1>10, <2>3
  <2>5. everDown[r] # {} \/ t.pick <= Len(t.list) - t.i
    BY <1>3, <1>7, <1>8, <2>3, Zenon DEF Preds
  <2>6. Picking(r, t)
    BY <1>2, <2>3, <2>4, <2>5, Zenon DEF Picking
  <2>7. Passing(r, t) /\ Seen(r, t) /\ Covers(r, t) /\ Missed(r, t) /\ Leasing(r, t)
    BY <2>3, Zenon DEF Passing, Seen, Covers, Missed, Leasing, Walks
  <2>8. req' = [req EXCEPT ![r] = t] /\ UNCHANGED outcome
    BY <1>6, <1>10, <2>1, Zenon
  <2> QED
    BY <2>3, <2>6, <2>7, <2>8, Zenon DEF Moving, Holds
<1>11. CASE ~(pick < 0) /\ ~(req[r].i < Len(req[r].list))
  <2>1. NoneChosen(r) /\ 1 <= Len(req[r].list)
    BY <1>2, <1>3, <1>6, <1>11
  <2>2. everDown[r] # {} /\ kind \notin {"FirstAvailable", "LeastConnections"}
    <3>1. ASSUME req[r].pred = "eligible" PROVE everDown[r] # {}
      <4>1. everDown[r] # {} \/ pick <= Len(req[r].list) - (req[r].i + 1)
        BY <1>7, <3>1, Zenon
      <4>2. ~(pick <= Len(req[r].list) - (req[r].i + 1))
        <5>1. PICK l, i, k : l = Len(req[r].list) /\ i = req[r].i /\ k = pick
          BY Zenon
        <5>2. l \in Nat /\ i \in Nat /\ k \in Int /\ ~(k < 0) /\ ~(i < l)
          BY <1>3, <1>7, <1>11, <5>1, Zenon
        <5>3. ~(k <= l - (i + 1))
          BY <5>2
        <5> QED BY <5>1, <5>3, Zenon
      <4> QED
        BY <4>1, <4>2, Zenon
    <3>2. ASSUME req[r].pred = "enabled" PROVE everDown[r] # {}
      BY <1>8, <3>2, Zenon
    <3>3. kind \in {"RoundRobin", "Random"}
      BY <1>2, Zenon
    <3> QED
      BY <1>3, <3>1, <3>2, <3>3 DEF Preds
  <2>3. Justification(r, [kind |-> "NoEligible"])
    BY <2>2, Zenon DEF Justification, Selection!Justified
  <2> QED
    BY <1>2, <1>3, <2>1, <2>3, NoneMoves, Zenon
<1> QED
  BY <1>9, <1>10, <1>11, Zenon

(* The lease on the chosen member ends the request. *)
LEMMA LeaseStep ==
    ASSUME Types, NEW r \in Requests, Good(r), TakeLease(r)
    PROVE  Answering(r)
<1> DEFINE u == req[r].upstream
           o == [kind |-> "Upstream", upstream |-> u, reason |-> Reason(req[r].pred)]
<1>1. /\ req[r].pc = "Lease" /\ Finish(r, o)
  BY Zenon DEF TakeLease
<1>2. /\ req[r].pred \in Preds /\ Fallen(r, req[r].pred)
      /\ u \in Usable(r, req[r].pred)
  <2>1. Leasing(r, req[r])
    BY Zenon DEF Good, Holds
  <2> QED
    BY <1>1, <2>1, Zenon DEF Leasing
<1>3. o \in Selection!Justified(r)
  <2>1. CASE req[r].pred = "enabled"
    BY <1>2, <2>1, Zenon DEF Fallen, Usable, Reason, Selection!Justified
  <2>2. CASE req[r].pred = "eligible"
    BY <1>2, <2>2, Zenon DEF Usable, Reason, Selection!Justified
  <2> QED
    BY <1>2, <2>1, <2>2, Zenon DEF Preds
<1>4. o.kind # "NoEligible"
  OBVIOUS
<1> HIDE DEF o
<1> QED
  BY <1>1, <1>3, <1>4, Zenon DEF Answering, Justification

-----------------------------------------------------------------------------
Progress(r) ==
    \/ Filter(r) \/ FilterEnabled(r) \/ ScanFirst(r) \/ ScanCount(r) \/ ScanLoads(r)
    \/ Ticket(r) \/ Pick(r) \/ TakeLease(r)

(* What a step of a request in progress leaves alone. *)
Kept ==
    /\ kind' = kind /\ fallback' = fallback /\ healthy' = healthy /\ enabled' = enabled
    /\ everUp' = everUp /\ everDown' = everDown /\ everEnabled' = everEnabled

(* Every step of a request in progress moves it or answers it. *)
LEMMA ProgressStep ==
    ASSUME Types, NEW r \in Requests, Good(r), Progress(r)
    PROVE  Kept /\ Running(r) /\ (Moving(r) \/ Answering(r))
<1>1. Moving(r) \/ Answering(r)
  BY FilterStep, FilterEnabledStep, ScanFirstStep, ScanCountStep, ScanLoadsStep, TicketStep,
     PickStep, LeaseStep, Zenon DEF Progress
<1>2. UNCHANGED <<memberVars, history>> /\ req[r].pc \in Walks \union {"Pick", "Lease"}
  <2>1. CASE Filter(r) \/ FilterEnabled(r)
    BY <2>1, Zenon DEF Filter, FilterEnabled, Walks
  <2>2. CASE ScanFirst(r)
    BY <2>2, Zenon DEF ScanFirst, Walks
  <2>3. CASE ScanCount(r)
    BY <2>3 DEF ScanCount, Walks
  <2>4. CASE ScanLoads(r)
    BY <2>4, Zenon DEF ScanLoads, Walks
  <2>5. CASE Ticket(r)
    BY <2>5, Zenon DEF Ticket, Walks
  <2>6. CASE Pick(r)
    BY <2>6 DEF Pick
  <2>7. CASE TakeLease(r)
    BY <2>7, Zenon DEF TakeLease
  <2> QED
    BY <2>1, <2>2, <2>3, <2>4, <2>5, <2>6, <2>7, Zenon DEF Progress
<1>3. Kept
  BY <1>2 DEF Kept, memberVars, group, history
<1>4. Running(r)
  BY <1>2 DEF Running, Walks
<1> QED
  BY <1>1, <1>3, <1>4

(* Where a request moves, its invariant holds again. *)
LEMMA MovedGood ==
    ASSUME Types, NEW r \in Requests, Good(r), Running(r), Kept, Moving(r)
    PROVE  Good(r)' /\ Running(r)'
<1>1. PICK q : /\ q.pc \in Walks \union {"Pick", "Lease"} /\ Holds(r, q)
               /\ req' = [req EXCEPT ![r] = q] /\ UNCHANGED outcome
  BY Zenon DEF Moving
<1>2. req'[r] = q
  BY <1>1 DEF Types
<1>3. Running(r)' /\ q.pc \in Places /\ q.pc \notin {"Done", "Closed"}
  BY <1>1, <1>2 DEF Running, Walks, Places
<1>4. Window(r)' /\ Unanswered(r)' /\ AllDown(r)'
  BY <1>1, <1>2, <1>3, Zenon DEF Good, Kept, Window, Unanswered, AllDown, Running
<1>5. Holds(r, q)'
  <2>1. Passing(r, q)' /\ Seen(r, q)' /\ Covers(r, q)'
    BY <1>1, Zenon DEF Kept, Holds, Passing, Seen, Covers, Usable, Fallen
  <2>2. Missed(r, q)' /\ Leasing(r, q)'
    BY <1>1, Zenon DEF Kept, Holds, Missed, Leasing, Usable, Fallen
  <2>3. Picking(r, q)'
    BY <1>1, Zenon DEF Kept, Holds, Picking, Usable, Fallen
  <2> QED BY <2>1, <2>2, <2>3, Zenon DEF Holds
<1> QED
  BY <1>2, <1>3, <1>4, <1>5, Zenon DEF Good

(* A request that is over has nothing to keep but what its error says. *)
LEMMA DoneGood ==
    ASSUME NEW r \in Requests, req'[r].pc \in {"Done", "Closed"}, AllDown(r)'
    PROVE  Good(r)'
<1>1. Holds(r, req[r])'
  <2>1. req'[r].pc \notin Walks \union {"Pick", "Lease"}
    BY DEF Walks
  <2>2. Passing(r, req[r])' /\ Picking(r, req[r])' /\ Leasing(r, req[r])'
    BY <2>1, Zenon DEF Passing, Picking, Leasing
  <2>3. Seen(r, req[r])' /\ Covers(r, req[r])' /\ Missed(r, req[r])'
    BY <2>1, Zenon DEF Seen, Covers, Missed, Walks
  <2> QED
    BY <2>2, <2>3, Zenon DEF Holds
<1>2. Window(r)' /\ Unanswered(r)' /\ req'[r].pc \in Places
  BY Zenon DEF Window, Running, Unanswered, Places
<1> QED
  BY <1>1, <1>2, Zenon DEF Good

(* An answered request is over. *)
LEMMA AnsweredGood ==
    ASSUME Types, NEW r \in Requests, Kept, Answering(r)
    PROVE  Good(r)'
<1>1. PICK o : Justification(r, o) /\ Finish(r, o)
  BY DEF Answering
<1>2. req'[r].pc = "Done" /\ outcome'[r] = o
  BY <1>1 DEF Finish, Types
<1>3. AllDown(r)'
  BY <1>1, <1>2, Zenon DEF AllDown, Justification, Kept
<1> QED
  BY <1>2, <1>3, DoneGood, Zenon

(* A request that begins to choose. *)
LEMMA BeginGood ==
    ASSUME Types, NEW r \in Requests, Good(r), req[r] = Idle,
           kind' = kind, fallback' = fallback, healthy' = healthy, enabled' = enabled,
           outcome' = outcome,
           req' = [req EXCEPT ![r] = Pass("Filter", Members, "eligible")],
           everUp' = [everUp EXCEPT ![r] = healthy \cap enabled],
           everDown' = [everDown EXCEPT ![r] = Upstreams \ (healthy \cap enabled)],
           everEnabled' = [everEnabled EXCEPT ![r] = enabled]
    PROVE  Good(r)' /\ Running(r)'
<1> DEFINE q == [pc |-> "Filter", list |-> Members, pred |-> "eligible", i |-> 1, found |-> <<>>]
<1>1. /\ q.pc = "Filter" /\ q.list = Members /\ q.pred = "eligible" /\ q.i = 1
      /\ q.found = <<>> /\ Len(q.found) = 0 /\ <<>> \in Seq(Found)
  OBVIOUS
<1>2. q \in PassRec
  BY <1>1, MembersFact, Zenon DEF PassRec, Walks, Preds
<1>3. req'[r] = q
  BY Zenon DEF Types, Pass
<1>4. /\ everUp'[r] = healthy \cap enabled /\ everEnabled'[r] = enabled
      /\ everDown'[r] = Upstreams \ (healthy \cap enabled)
  BY Zenon DEF Types
<1> HIDE DEF q
<1>5. Passing(r, q)'
  BY <1>1, <1>2, MembersFact DEF Passing, Within, Fallen
<1>6. Seen(r, q)' /\ Covers(r, q)' /\ Missed(r, q)' /\ Picking(r, q)' /\ Leasing(r, q)'
  BY <1>1 DEF Seen, Covers, Missed, Picking, Leasing
<1>7. Running(r)' /\ req'[r].pc \in Places
  BY <1>1, <1>3, Zenon DEF Running, Places, Walks
<1>8. Window(r)'
  BY <1>4, Zenon DEF Window
<1>9. outcome[r].kind = "None"
  BY DEF Good, Unanswered, Idle
<1>10. Unanswered(r)' /\ AllDown(r)'
  BY <1>9, Zenon DEF Unanswered, AllDown
<1> QED
  BY <1>3, <1>5, <1>6, <1>7, <1>8, <1>10, Zenon DEF Good, Holds

-----------------------------------------------------------------------------
(* The steps of the specification, one by one. *)
LEMMA StepCases ==
    ASSUME [Next]_vars
    PROVE  \/ \E r \in Requests : Route(r) \/ Progress(r) \/ Release(r)
           \/ \E h \in SUBSET (healthy \union Upstreams), e \in SUBSET (enabled \union Upstreams) :
                 Change(h, e)
           \/ Explain
           \/ UNCHANGED vars
<1>1. ASSUME NEW u \in Upstreams, HealthChange(u) \/ SetEnabled(u)
      PROVE  \E h \in SUBSET (healthy \union Upstreams), e \in SUBSET (enabled \union Upstreams) :
                 Change(h, e)
  BY <1>1 DEF HealthChange, SetEnabled
<1>2. CASE \E r \in Requests : RequestStep(r)
  BY <1>2, Zenon DEF RequestStep, Progress
<1> QED
  BY <1>1, <1>2, Zenon DEF Next

(* What Route does: the policy answers, or the request begins to choose.   *)
RouteAnswers(r) ==
    /\ \E o \in Selection!Policy : Finish(r, o)
    /\ Kept

RouteBegins(r) ==
    /\ kind' = kind /\ fallback' = fallback /\ healthy' = healthy /\ enabled' = enabled
    /\ outcome' = outcome
    /\ req' = [req EXCEPT ![r] = Pass("Filter", Members, "eligible")]
    /\ everUp' = [everUp EXCEPT ![r] = healthy \cap enabled]
    /\ everDown' = [everDown EXCEPT ![r] = Upstreams \ (healthy \cap enabled)]
    /\ everEnabled' = [everEnabled EXCEPT ![r] = enabled]

(* Route does one of the two, whatever the rules decide. *)
LEMMA RouteCases ==
    ASSUME NEW r \in Requests, Route(r)
    PROVE  req[r] = Idle /\ (RouteAnswers(r) \/ RouteBegins(r))
<1>1. /\ req[r] = Idle
      /\ kind' = kind /\ fallback' = fallback /\ healthy' = healthy /\ enabled' = enabled
  BY Zenon DEF Route, memberVars, group
<1>2. PICK action :
         \/ action = "Direct" /\ Finish(r, [kind |-> "Direct"]) /\ UNCHANGED history
         \/ action = "Reject" /\ Finish(r, [kind |-> "Rejected"]) /\ UNCHANGED history
         \/ action = "MissingGroup" /\ Finish(r, [kind |-> "UnknownGroup"]) /\ UNCHANGED history
         \/ /\ action = "Group"
            /\ req' = [req EXCEPT ![r] = Pass("Filter", Members, "eligible")]
            /\ everUp' = [everUp EXCEPT ![r] = healthy \cap enabled]
            /\ everDown' = [everDown EXCEPT ![r] = Upstreams \ (healthy \cap enabled)]
            /\ everEnabled' = [everEnabled EXCEPT ![r] = enabled]
            /\ UNCHANGED outcome
  BY Zenon DEF Route
<1>3. CASE UNCHANGED history /\ \E o \in Selection!Policy : Finish(r, o)
  <2>1. everUp' = everUp /\ everDown' = everDown /\ everEnabled' = everEnabled
    BY <1>3 DEF history
  <2> QED
    BY <1>1, <1>3, <2>1, Zenon DEF RouteAnswers, Kept
<1>4. /\ [kind |-> "Direct"] \in Selection!Policy
      /\ [kind |-> "Rejected"] \in Selection!Policy
      /\ [kind |-> "UnknownGroup"] \in Selection!Policy
  BY Zenon DEF Selection!Policy
<1> QED
  BY <1>1, <1>2, <1>3, <1>4, Zenon DEF RouteBegins

(* A policy's answer is not an error for lack of members. *)
LEMMA PolicyGood ==
    ASSUME Types, NEW r \in Requests, RouteAnswers(r)
    PROVE  Good(r)'
<1>1. PICK o \in Selection!Policy : Finish(r, o)
  BY Zenon DEF RouteAnswers
<1>2. o.kind # "NoEligible"
  BY <1>1 DEF Selection!Policy
<1>3. req'[r].pc = "Done" /\ outcome'[r] = o
  BY <1>1, Zenon DEF Finish, Types
<1> QED
  BY <1>2, <1>3, DoneGood, Zenon DEF AllDown

(* A change of the members widens the windows of the requests in progress. *)
LEMMA ChangeGood ==
    ASSUME Types, NEW r \in Requests, Good(r), NEW h \in SUBSET Upstreams,
           NEW e \in SUBSET Upstreams, Change(h, e)
    PROVE  Good(r)'
<1>1. /\ req' = req /\ outcome' = outcome /\ kind' = kind /\ fallback' = fallback
      /\ healthy' = h /\ enabled' = e
  BY Zenon DEF Change, group
<1>2. /\ everUp'[r] = IF Running(r) THEN everUp[r] \cup (h \cap e) ELSE everUp[r]
      /\ everDown'[r] = IF Running(r) THEN everDown[r] \cup (Upstreams \ (h \cap e))
                                     ELSE everDown[r]
      /\ everEnabled'[r] = IF Running(r) THEN everEnabled[r] \cup e ELSE everEnabled[r]
  BY Zenon DEF Change
<1>3. Window(r)'
  BY <1>1, <1>2, Zenon DEF Window, Running
<1>4. everDown[r] \subseteq Upstreams
  BY DEF Types
<1>5. /\ everUp[r] \subseteq everUp'[r] /\ everDown[r] \subseteq everDown'[r]
      /\ everEnabled[r] \subseteq everEnabled'[r] /\ everDown'[r] \subseteq Upstreams
  BY <1>2, <1>4, Zenon
<1> QED
  BY <1>1, <1>3, <1>5, Others, Zenon

(* A request that does not move while another does. *)
LEMMA BystanderGood ==
    ASSUME Types, NEW r \in Requests, NEW o \in Requests, o # r, Good(o),
           NEW q, NEW out, req' = [req EXCEPT ![r] = q],
           outcome' = outcome \/ outcome' = [outcome EXCEPT ![r] = out],
           kind' = kind, fallback' = fallback, healthy' = healthy, enabled' = enabled,
           everUp'[o] = everUp[o], everDown'[o] = everDown[o],
           everEnabled'[o] = everEnabled[o]
    PROVE  Good(o)'
<1>1. req'[o] = req[o] /\ outcome'[o] = outcome[o] /\ everDown[o] \subseteq Upstreams
  BY Zenon DEF Types
<1>2. Window(o)'
  BY <1>1, Zenon DEF Good, Window, Running
<1>3. /\ everUp[o] \subseteq everUp'[o] /\ everDown[o] \subseteq everDown'[o]
      /\ everEnabled[o] \subseteq everEnabled'[o] /\ everDown'[o] \subseteq Upstreams
  BY <1>1, Zenon
<1> QED
  BY <1>1, <1>2, <1>3, Others, Zenon

(* The invariant of all requests is kept by every step. *)
LEMMA GoodKept ==
    ASSUME Types, \A o \in Requests : Good(o), [Next]_vars
    PROVE  \A o \in Requests : Good(o)'
<1> TAKE o \in Requests
<1>0. Good(o)
  OBVIOUS
<1>1. ASSUME NEW r \in Requests, Route(r) PROVE Good(o)'
  <2>1. req[r] = Idle /\ Good(r)
    BY <1>1, RouteCases
  <2>2. CASE RouteAnswers(r)
    <3>1. CASE o = r
      BY <2>2, <3>1, PolicyGood
    <3>2. CASE o # r
      <4>1. PICK out : Finish(r, out)
        BY <2>2, Zenon DEF RouteAnswers
      <4> QED
        BY <1>0, <2>2, <3>2, <4>1, BystanderGood, Zenon DEF RouteAnswers, Kept, Finish
    <3> QED
      BY <3>1, <3>2
  <2>3. CASE RouteBegins(r)
    <3>1. CASE o = r
      BY <2>1, <2>3, <3>1, BeginGood, Zenon DEF RouteBegins
    <3>2. CASE o # r
      <4>1. /\ everUp'[o] = everUp[o] /\ everDown'[o] = everDown[o]
            /\ everEnabled'[o] = everEnabled[o]
        BY <2>3, <3>2, Zenon DEF RouteBegins, Types
      <4> QED
        BY <1>0, <2>3, <3>2, <4>1, BystanderGood, Zenon DEF RouteBegins
    <3> QED
      BY <3>1, <3>2
  <2> QED
    BY <1>1, <2>2, <2>3, RouteCases
<1>2. ASSUME NEW r \in Requests, Progress(r) PROVE Good(o)'
  <2>1. Kept /\ Running(r) /\ Good(r) /\ (Moving(r) \/ Answering(r))
    BY <1>2, ProgressStep
  <2>2. CASE o = r
    BY <2>1, <2>2, MovedGood, AnsweredGood
  <2>3. CASE o # r
    <3>1. CASE Moving(r)
      <4>1. PICK q : req' = [req EXCEPT ![r] = q] /\ outcome' = outcome
        BY <3>1, Zenon DEF Moving
      <4> QED
        BY <1>0, <2>1, <2>3, <4>1, BystanderGood, Zenon DEF Kept
    <3>2. CASE Answering(r)
      <4>1. PICK out : Finish(r, out)
        BY <3>2, Zenon DEF Answering
      <4> QED
        BY <1>0, <2>1, <2>3, <4>1, BystanderGood, Zenon DEF Kept, Finish
    <3> QED
      BY <2>1, <3>1, <3>2
  <2> QED
    BY <2>2, <2>3
<1>3. ASSUME NEW r \in Requests, Release(r) PROVE Good(o)'
  <2>1. /\ req' = [req EXCEPT ![r] = [pc |-> "Closed"]] /\ outcome' = outcome
        /\ Kept
    BY <1>3, Zenon DEF Release, memberVars, group, Kept
  <2>2. CASE o = r
    <3>1. req'[o].pc = "Closed"
      BY <2>1, <2>2, Zenon DEF Types
    <3>2. AllDown(o)'
      <4>1. AllDown(o)
        BY <1>0, Zenon DEF Good
      <4> QED
        BY <2>1, <4>1, Zenon DEF AllDown, Kept
    <3> QED
      BY <3>1, <3>2, DoneGood, Zenon
  <2>3. CASE o # r
    BY <1>0, <2>1, <2>3, BystanderGood, Zenon DEF Kept
  <2> QED
    BY <2>2, <2>3
<1>4. ASSUME NEW h \in SUBSET (healthy \union Upstreams),
             NEW e \in SUBSET (enabled \union Upstreams), Change(h, e)
      PROVE  Good(o)'
  <2>1. h \in SUBSET Upstreams /\ e \in SUBSET Upstreams
    BY Zenon DEF Types
  <2> QED
    BY <1>0, <1>4, <2>1, ChangeGood
<1>5. ASSUME Explain \/ UNCHANGED vars PROVE Good(o)'
  <2>1. Kept /\ req' = req /\ outcome' = outcome
    BY <1>5, Zenon DEF Explain, vars, memberVars, group, history, Kept
  <2>2. Window(o)' /\ everDown[o] \subseteq Upstreams
    BY <1>0, <2>1, Zenon DEF Good, Window, Running, Kept, Types
  <2> QED
    BY <1>0, <2>1, <2>2, Others, Zenon DEF Kept
<1> QED
  BY <1>1, <1>2, <1>3, <1>4, <1>5, StepCases, Zenon

(* A lease taken or given back leaves the loads integers. *)
LEMMA LoadStep ==
    ASSUME NEW f \in [Upstreams -> Int], NEW u
    PROVE  /\ [f EXCEPT ![u] = f[u] + 1] \in [Upstreams -> Int]
           /\ [f EXCEPT ![u] = f[u] - 1] \in [Upstreams -> Int]
<1>1. CASE u \in Upstreams
  BY <1>1
<1>2. CASE u \notin Upstreams
  <2>1. [f EXCEPT ![u] = f[u] + 1] = f /\ [f EXCEPT ![u] = f[u] - 1] = f
    BY <1>2, Zenon
  <2> QED
    BY <2>1, ZenonT(30)
<1> QED
  BY <1>1, <1>2, Zenon

(* The types are kept by every step. *)
LEMMA TypesKept ==
    ASSUME Types, \A o \in Requests : Good(o), [Next]_vars
    PROVE  Types'
<1>1. ASSUME NEW r \in Requests, Route(r) \/ Progress(r) \/ Release(r) PROVE Types'
  <2>1. load' \in [Upstreams -> Int] /\ cursor' \in Nat
    <3>1. \/ load' = load /\ (cursor' = cursor \/ cursor' = (cursor + 1) % CursorMod)
          \/ \E u : load' = [load EXCEPT ![u] = load[u] + 1] /\ cursor' = cursor
          \/ \E u : load' = [load EXCEPT ![u] = load[u] - 1] /\ cursor' = cursor
      BY <1>1, Zenon DEF Route, Progress, Release, Filter, FilterEnabled, ScanFirst, ScanCount,
         ScanLoads, Ticket, Pick, TakeLease
    <3>2. (cursor + 1) % CursorMod \in Nat /\ cursor \in Nat /\ load \in [Upstreams -> Int]
      BY RouterAssumption DEF Types
    <3>3. CASE load' = load /\ (cursor' = cursor \/ cursor' = (cursor + 1) % CursorMod)
      BY <3>2, <3>3, Zenon
    <3>4. ASSUME NEW u, load' = [load EXCEPT ![u] = load[u] + 1], cursor' = cursor
          PROVE  load' \in [Upstreams -> Int] /\ cursor' \in Nat
      BY <3>2, <3>4, LoadStep, Zenon
    <3>5. ASSUME NEW u, load' = [load EXCEPT ![u] = load[u] - 1], cursor' = cursor
          PROVE  load' \in [Upstreams -> Int] /\ cursor' \in Nat
      BY <3>2, <3>5, LoadStep, Zenon
    <3> QED
      BY <3>1, <3>3, <3>4, <3>5, Zenon
  <2>2. CASE RouteBegins(r)
    BY <2>1, <2>2, Zenon DEF RouteBegins, Types
  <2>3. ASSUME Kept, NEW q, req' = [req EXCEPT ![r] = q], NEW out,
               outcome' = outcome \/ outcome' = [outcome EXCEPT ![r] = out]
        PROVE  Types'
    BY <2>1, <2>3, Zenon DEF Kept, Types
  <2>4. CASE RouteAnswers(r)
    BY <2>3, <2>4, Zenon DEF RouteAnswers, Finish
  <2>5. CASE Progress(r)
    BY <2>3, <2>5, ProgressStep, Zenon DEF Moving, Answering, Finish
  <2>6. CASE Release(r)
    <3>1. Kept
      BY <2>6, Zenon DEF Release, memberVars, group, Kept
    <3> QED
      BY <2>3, <2>6, <3>1, Zenon DEF Release
  <2> QED
    BY <1>1, <2>2, <2>4, <2>5, <2>6, RouteCases, Zenon
<1>2. ASSUME NEW h \in SUBSET (healthy \union Upstreams),
             NEW e \in SUBSET (enabled \union Upstreams), Change(h, e)
      PROVE  Types'
  BY <1>2, Zenon DEF Change, group, Types
<1>3. CASE Explain
  BY <1>3, RouterAssumption DEF Explain, CursorAfterPreview, memberVars, group, history, Types
<1>4. CASE UNCHANGED vars
  BY <1>4, Zenon DEF vars, Types
<1> QED
  BY <1>1, <1>2, <1>3, <1>4, StepCases, Zenon

(* The invariant holds at first and is kept. *)
LEMMA IInvInductive == (Init => IInv) /\ (IInv /\ [Next]_vars => IInv')
<1>1. ASSUME Init PROVE IInv
  <2>1. Types
    BY <1>1 DEF Init, Types
  <2>2. ASSUME NEW r \in Requests PROVE Good(r)
    <3>1. req[r].pc = "Idle" /\ outcome[r].kind = "None"
      BY <1>1, Zenon DEF Init, Idle
    <3> QED
      <4>1. req[r].pc \notin Walks \union {"Pick", "Lease"} /\ req[r].pc \in Places
        BY <3>1 DEF Walks, Places
      <4>2. Passing(r, req[r]) /\ Picking(r, req[r]) /\ Leasing(r, req[r])
        BY <4>1, Zenon DEF Passing, Picking, Leasing
      <4>3. Seen(r, req[r]) /\ Covers(r, req[r]) /\ Missed(r, req[r])
        BY <4>1, Zenon DEF Seen, Covers, Missed, Walks
      <4>4. Window(r) /\ Unanswered(r) /\ AllDown(r)
        BY <3>1, Zenon DEF Window, Running, Unanswered, AllDown
      <4> QED
        BY <4>1, <4>2, <4>3, <4>4, Zenon DEF Good, Holds
  <2> QED
    BY <2>1, <2>2 DEF IInv
<1>2. ASSUME IInv, [Next]_vars PROVE IInv'
  <2>1. Types /\ \A o \in Requests : Good(o)
    BY <1>2 DEF IInv
  <2>2. Types'
    BY <1>2, <2>1, TypesKept
  <2>3. \A o \in Requests : Good(o)'
    BY <1>2, <2>1, GoodKept
  <2> QED
    BY <2>2, <2>3 DEF IInv
<1> QED
  BY <1>1, <1>2

(* FirstAvailable and LeastConnections, for any group and any number of    *)
(* concurrent requests: Router::select fails for lack of an upstream only  *)
(* if every member was ineligible at some moment of the request.           *)
THEOREM OneMemberIsEnough == Spec => []ErrorMeansAllDown
<1>1. IInv => ErrorMeansAllDown
  BY Zenon DEF IInv, Good, AllDown, ErrorMeansAllDown
<1> QED
  BY <1>1, IInvInductive, PTL DEF Spec

-----------------------------------------------------------------------------
(* The refinement.  phase is what RouteSelection sees of the position of a *)
(* request.                                                                *)

(* The phase of one request moves with its position. *)
LEMMA PhaseStep ==
    ASSUME Types, NEW r \in Requests, NEW q, req' = [req EXCEPT ![r] = q]
    PROVE  /\ q.pc = "Idle" => phase' = [phase EXCEPT ![r] = "Idle"]
           /\ q.pc \in {"Done", "Closed"} => phase' = [phase EXCEPT ![r] = "Done"]
           /\ q.pc \notin {"Idle", "Done", "Closed"} => phase' = [phase EXCEPT ![r] = "Choosing"]
<1>1. \A o \in Requests : req'[o] = IF o = r THEN q ELSE req[o]
  BY Zenon DEF Types
<1> QED
  BY <1>1, ZenonT(30) DEF phase, Running

(* The phases are those of the requests. *)
LEMMA PhaseIs ==
    ASSUME NEW r \in Requests
    PROVE  /\ phase = [o \in Requests |-> phase[o]]
           /\ req[r].pc = "Idle" => phase[r] = "Idle"
           /\ Running(r) => phase[r] = "Choosing"
           /\ req[r].pc \in {"Done", "Closed"} => phase[r] = "Done"
BY Zenon DEF phase, Running

(* A phase that is set to what it is does not change. *)
LEMMA SamePhase ==
    ASSUME NEW r \in Requests, NEW p, phase[r] = p, phase' = [phase EXCEPT ![r] = p]
    PROVE  phase' = phase
BY Zenon DEF phase

SelectionStutters == UNCHANGED Selection!vars

(* Begin and Decide of RouteSelection. *)
LEMMA RouteRefines ==
    ASSUME Types, NEW r \in Requests, Route(r)
    PROVE  Selection!Decide(r) \/ Selection!Begin(r)
<1>1. req[r] = Idle /\ (RouteAnswers(r) \/ RouteBegins(r))
  BY RouteCases
<1>2. phase[r] = "Idle"
  BY <1>1, PhaseIs DEF Idle
<1>3. CASE RouteAnswers(r)
  <2>1. PICK o \in Selection!Policy : Finish(r, o)
    BY <1>3, Zenon DEF RouteAnswers
  <2>2. req' = [req EXCEPT ![r] = [pc |-> "Done"]] /\ outcome' = [outcome EXCEPT ![r] = o]
    BY <2>1, Zenon DEF Finish
  <2>3. phase' = [phase EXCEPT ![r] = "Done"]
    <3>1. [pc |-> "Done"].pc \in {"Done", "Closed"}
      OBVIOUS
    <3> QED
      BY <2>2, <3>1, PhaseStep, Zenon
  <2> QED
    BY <1>2, <1>3, <2>2, <2>3, Zenon DEF RouteAnswers, Kept, Selection!Decide
<1>4. CASE RouteBegins(r)
  <2>1. req' = [req EXCEPT ![r] = Pass("Filter", Members, "eligible")]
    BY <1>4, Zenon DEF RouteBegins
  <2>2. Pass("Filter", Members, "eligible").pc \notin {"Idle", "Done", "Closed"}
    BY Zenon DEF Pass
  <2>3. phase' = [phase EXCEPT ![r] = "Choosing"]
    BY <2>1, <2>2, PhaseStep, Zenon
  <2> QED
    BY <1>2, <1>4, <2>3, Zenon DEF RouteBegins, Selection!Begin, Selection!Up
<1> QED
  BY <1>1, <1>3, <1>4

(* A step of a request in progress is invisible or the Finish of           *)
(* RouteSelection.                                                         *)
LEMMA ProgressRefines ==
    ASSUME Types, NEW r \in Requests, Good(r), Progress(r)
    PROVE  Selection!Finish(r) \/ SelectionStutters
<1>1. Kept /\ Running(r) /\ (Moving(r) \/ Answering(r))
  BY ProgressStep
<1>2. phase[r] = "Choosing"
  BY <1>1, PhaseIs
<1>3. CASE Moving(r)
  <2>1. PICK q : /\ q.pc \in Walks \union {"Pick", "Lease"}
                 /\ req' = [req EXCEPT ![r] = q] /\ outcome' = outcome
    BY <1>3, Zenon DEF Moving
  <2>2. q.pc \notin {"Idle", "Done", "Closed"}
    BY <2>1 DEF Walks
  <2>3. phase' = [phase EXCEPT ![r] = "Choosing"]
    BY <2>1, <2>2, PhaseStep, Zenon
  <2>4. phase' = phase
    BY <1>2, <2>3, SamePhase, Zenon
  <2> QED
    BY <1>1, <2>1, <2>4, Zenon DEF Kept, SelectionStutters, Selection!vars
<1>4. CASE Answering(r)
  <2>1. PICK o : Justification(r, o) /\ Finish(r, o)
    BY <1>4, Zenon DEF Answering
  <2>2. req' = [req EXCEPT ![r] = [pc |-> "Done"]] /\ outcome' = [outcome EXCEPT ![r] = o]
    BY <2>1, Zenon DEF Finish
  <2>3. phase' = [phase EXCEPT ![r] = "Done"]
    <3>1. [pc |-> "Done"].pc \in {"Done", "Closed"}
      OBVIOUS
    <3> QED
      BY <2>2, <3>1, PhaseStep, Zenon
  <2>4. o \in Selection!Justified(r)
    BY <2>1, Zenon DEF Justification
  <2> QED
    BY <1>1, <1>2, <2>2, <2>3, <2>4, Zenon DEF Kept, Selection!Finish, Selection!Choosing
<1> QED
  BY <1>1, <1>3, <1>4

(* A change of the members is the Change of RouteSelection. *)
LEMMA ChangeRefines ==
    ASSUME Types, NEW h \in SUBSET Upstreams, NEW e \in SUBSET Upstreams, Change(h, e)
    PROVE  Selection!Change
<1>1. /\ req' = req /\ outcome' = outcome /\ fallback' = fallback
      /\ healthy' = h /\ enabled' = e
  BY Zenon DEF Change, group
<1>2. phase' = phase
  BY <1>1, Zenon DEF phase, Running
<1>3. \A r \in Requests : Selection!Choosing(r) <=> Running(r)
  BY Zenon DEF Selection!Choosing, phase, Running
<1>4. /\ everUp' = [r \in Requests |->
              IF Selection!Choosing(r) THEN everUp[r] \cup (h \cap e) ELSE everUp[r]]
      /\ everDown' = [r \in Requests |->
              IF Selection!Choosing(r) THEN everDown[r] \cup (Upstreams \ (h \cap e))
                                       ELSE everDown[r]]
      /\ everEnabled' = [r \in Requests |->
              IF Selection!Choosing(r) THEN everEnabled[r] \cup e ELSE everEnabled[r]]
  BY <1>3, Zenon DEF Change
<1> QED
  BY <1>1, <1>2, <1>4, Zenon DEF Selection!Change, Selection!Up

(* The steps of Router that RouteSelection does not see. *)
LEMMA HiddenStep ==
    ASSUME Types, (\E r \in Requests : Release(r)) \/ Explain \/ UNCHANGED vars
    PROVE  SelectionStutters
<1>1. ASSUME NEW r \in Requests, Release(r) PROVE SelectionStutters
  <2>1. /\ req[r].pc = "Done" /\ req' = [req EXCEPT ![r] = [pc |-> "Closed"]]
        /\ outcome' = outcome /\ Kept
    BY <1>1, Zenon DEF Release, memberVars, group, Kept
  <2>2. [pc |-> "Closed"].pc \in {"Done", "Closed"} /\ req[r].pc \in {"Done", "Closed"}
    BY <2>1, Zenon
  <2>3. phase' = [phase EXCEPT ![r] = "Done"] /\ phase[r] = "Done"
    BY <2>1, <2>2, PhaseStep, PhaseIs, Zenon
  <2>4. phase' = phase
    BY <2>3, SamePhase, Zenon
  <2> QED
    BY <2>1, <2>4, Zenon DEF Kept, SelectionStutters, Selection!vars
<1>2. ASSUME Explain \/ UNCHANGED vars PROVE SelectionStutters
  <2>1. Kept /\ req' = req /\ outcome' = outcome
    BY <1>2, Zenon DEF Explain, vars, memberVars, group, history, Kept
  <2>2. phase' = phase
    BY <2>1, Zenon DEF phase, Running
  <2> QED
    BY <2>1, <2>2, Zenon DEF Kept, SelectionStutters, Selection!vars
<1> QED
  BY <1>1, <1>2

(* Every step is a step of RouteSelection or invisible to it. *)
LEMMA StepRefines ==
    ASSUME IInv, [Next]_vars
    PROVE  [Selection!Next]_(Selection!vars)
<1>0. Types /\ \A r \in Requests : Good(r)
  BY DEF IInv
<1>1. ASSUME NEW r \in Requests, Route(r) \/ Progress(r) PROVE Selection!Next \/ SelectionStutters
  BY <1>0, <1>1, RouteRefines, ProgressRefines, Zenon DEF Selection!Next
<1>2. ASSUME NEW h \in SUBSET (healthy \union Upstreams),
             NEW e \in SUBSET (enabled \union Upstreams), Change(h, e)
      PROVE  Selection!Next
  <2>1. h \in SUBSET Upstreams /\ e \in SUBSET Upstreams
    BY <1>0, Zenon DEF Types
  <2> QED
    BY <1>0, <1>2, <2>1, ChangeRefines, Zenon DEF Selection!Next
<1>3. Selection!Next \/ SelectionStutters
  BY <1>0, <1>1, <1>2, HiddenStep, StepCases, Zenon
<1> QED
  BY <1>3, Zenon DEF SelectionStutters

(* Router implements RouteSelection: under every scheduler and fallback,   *)
(* every outcome of Router::select is justified by what the members were   *)
(* at some moment of the request, for any group, rules and number of       *)
(* concurrent requests, and any changes of health.                         *)
THEOREM RouterImplementsSelection == Spec => ImplementsSelection
<1>1. Init => Selection!Init
  BY DEF Init, Selection!Init, Selection!NoOutcome, phase, Idle, Running
<1>2. IInv /\ [Next]_vars => [Selection!Next]_(Selection!vars)
  BY StepRefines
<1> QED
  BY <1>1, <1>2, IInvInductive, PTL DEF Spec, ImplementsSelection, Selection!Spec
-----------------------------------------------------------------------------
(* LeastConnections.  A request that nothing interferes with reads what is *)
(* so when it takes its lease: what it has found by then is every member   *)
(* that it may use, with the load it has now.                              *)
Loads(s, ld) == \A j \in 1..Len(s) : s[j][2] = ld[s[j][1]]

Sees(q) ==
    /\ q.pc \in {"Filter", "FilterEnabled"} =>
          \A j \in 1..(q.i - 1) : Passes(q.pred, q.list[j]) => Occurs(q.list[j], q.found)
    /\ q.pc = "Scan" =>
          /\ \A v \in Upstreams : Passes(q.pred, v) => Occurs(v, q.list)
          /\ \A j \in 1..(q.i - 1) :
                Passes(q.pred, q.list[j]) => Occurs(<<q.list[j], load[q.list[j]]>>, q.found)
    /\ q.pc = "Ticket" =>
          \A v \in Upstreams : Passes(q.pred, v) => Occurs(<<v, load[v]>>, q.found)
    /\ q.pc \in {"Scan", "Ticket"} => Loads(q.found, load)
    /\ q.pc = "Lease" =>
          \A v \in Upstreams : Passes(q.pred, v) => load[q.upstream] <= load[v]

Undisturbed(r) ==
    kind = "LeastConnections" /\ Running(r) /\ alone[r] =>
        (\A o \in Requests : Running(o) => o = r) /\ Sees(req[r])

LoadInv ==
    /\ IInv
    /\ alone = [r \in Requests |-> alone[r]]
    /\ \A r \in Requests : Undisturbed(r)

(* A step of the request alone, after which it has seen what there is. *)
Lands(r) == \E q : req' = [req EXCEPT ![r] = q] /\ Sees(q)

(* A request that is answered has nothing to see. *)
LEMMA FinishLands ==
    ASSUME NEW r, NEW o, Finish(r, o)
    PROVE  Lands(r)
<1> DEFINE q == [pc |-> "Done"]
<1>1. q.pc = "Done"
  OBVIOUS
<1>2. req' = [req EXCEPT ![r] = q]
  BY Zenon DEF Finish
<1> HIDE DEF q
<1>3. Sees(q)
  BY <1>1, Zenon DEF Sees
<1> QED
  BY <1>2, <1>3, Zenon DEF Lands

(* A choice that no usable member undercuts. *)
LEMMA ChosenLands ==
    ASSUME NEW r, NEW u, Chosen(r, u),
           \A v \in Upstreams : Passes(req[r].pred, v) => load[u] <= load[v]
    PROVE  Lands(r)
<1> DEFINE q == [pc |-> "Lease", upstream |-> u, pred |-> req[r].pred]
<1>1. q.pc = "Lease" /\ q.upstream = u /\ q.pred = req[r].pred
  BY Zenon
<1>2. req' = [req EXCEPT ![r] = q]
  BY Zenon DEF Chosen
<1> HIDE DEF q
<1>3. Sees(q)
  BY <1>1, Zenon DEF Sees
<1> QED
  BY <1>2, <1>3, Zenon DEF Lands

(* A new pass has seen nothing; that of the scheduler walks over all the   *)
(* members that may be used.                                               *)
LEMMA PassLands ==
    ASSUME NEW r, NEW pc \in {"Filter", "FilterEnabled", "Scan"}, NEW list, NEW pred,
           req' = [req EXCEPT ![r] = Pass(pc, list, pred)],
           pc = "Scan" => \A v \in Upstreams : Passes(pred, v) => Occurs(v, list)
    PROVE  Lands(r)
<1>1. PICK q : q = Pass(pc, list, pred)
  OBVIOUS
<1>2. /\ q.pc = pc /\ q.list = list /\ q.pred = pred /\ q.i = 1 /\ q.found = <<>>
      /\ req' = [req EXCEPT ![r] = q]
  BY <1>1, Zenon DEF Pass
<1>3. (1..(q.i - 1)) = {} /\ (1..Len(q.found)) = {}
  BY <1>2
<1>4. Sees(q)
  BY <1>2, <1>3, Zenon DEF Sees, Loads
<1> QED
  BY <1>2, <1>4, Zenon DEF Lands

(* The places before the next one. *)
LEMMA UpToNext ==
    ASSUME NEW i \in Nat, 1 <= i
    PROVE  (i + 1) - 1 = i /\ \A j \in 1..i : j \in 1..(i - 1) \/ j = i
OBVIOUS

(* A pass that has no next place has been everywhere. *)
LEMMA AllPlaces ==
    ASSUME NEW i \in Nat, NEW m \in Nat, ~(i + 1 <= m), NEW j \in 1..m
    PROVE  j \in 1..i
OBVIOUS

(* One read of a filter: the members before the next place have been seen. *)
LEMMA FilterSees ==
    ASSUME Types, NEW r \in Requests, Good(r), req[r].pc \in {"Filter", "FilterEnabled"},
           Sees(req[r]), NEW q, q = Read(req[r])
    PROVE  /\ Sees(q)
           /\ q.list = Members /\ q.pred = req[r].pred
           /\ ~(q.i <= Len(q.list)) =>
                 \A v \in Upstreams : Passes(q.pred, v) => Occurs(v, q.found)
<1>1. /\ req[r].list = Members /\ req[r].i \in Nat /\ 1 <= req[r].i
      /\ req[r].i <= Len(Members)
      /\ \A j \in 1..(req[r].i - 1) :
            Passes(req[r].pred, req[r].list[j]) => Occurs(req[r].list[j], req[r].found)
  <2>1. Passing(r, req[r])
    BY Zenon DEF Good, Holds
  <2> QED
    BY <2>1, Zenon DEF Passing, Walks, PassRec, Sees
<1>2. /\ q = [pc |-> req[r].pc, list |-> req[r].list, pred |-> req[r].pred,
              i |-> req[r].i + 1, found |-> q.found]
      /\ \A v : Occurs(v, req[r].found) => Occurs(v, q.found)
      /\ Passes(req[r].pred, Reading(r)) => Occurs(Reading(r), q.found)
  BY ReadPass, Zenon
<1>3. /\ q.pc = req[r].pc /\ q.list = Members /\ q.pred = req[r].pred /\ q.i = req[r].i + 1
      /\ Reading(r) = Members[req[r].i]
  <2>1. PICK f, p : /\ f = q.found
                    /\ p = [pc |-> req[r].pc, list |-> req[r].list, pred |-> req[r].pred,
                            i |-> req[r].i + 1, found |-> f]
    BY Zenon
  <2>2. p.pc = req[r].pc /\ p.list = req[r].list /\ p.pred = req[r].pred /\ p.i = req[r].i + 1
    BY <2>1, Zenon
  <2>3. q = p
    BY <1>2, <2>1, Zenon
  <2> QED BY <1>1, <2>2, <2>3, Zenon DEF Reading
<1>4. q.i - 1 = req[r].i /\ \A j \in 1..req[r].i : j \in 1..(req[r].i - 1) \/ j = req[r].i
  BY <1>1, <1>3, UpToNext, Zenon
<1>5. \A j \in 1..(q.i - 1) : Passes(q.pred, q.list[j]) => Occurs(q.list[j], q.found)
  BY <1>1, <1>2, <1>3, <1>4, Zenon
<1>6. Sees(q)
  BY <1>3, <1>5, Zenon DEF Sees
<1>7. ASSUME ~(q.i <= Len(q.list)), NEW v \in Upstreams, Passes(q.pred, v)
      PROVE  Occurs(v, q.found)
  <2>1. PICK j \in 1..Len(Members) : Members[j] = v
    BY MembersFact, Zenon
  <2>2. Len(Members) \in Nat
    BY MembersFact, Zenon
  <2>3. j \in 1..req[r].i
    BY <1>1, <1>3, <1>7, <2>2, AllPlaces, Zenon
  <2> QED
    BY <1>3, <1>4, <1>5, <1>7, <2>1, <2>3, Zenon
<1> QED
  BY <1>3, <1>6, <1>7, Zenon

(* select's pass over the group. *)
LEMMA FilterLands ==
    ASSUME Types, NEW r \in Requests, Good(r), Sees(req[r]), Filter(r)
    PROVE  Lands(r)
<1>1. PICK q : q = Read(req[r])
  OBVIOUS
<1>2. /\ req[r].pc = "Filter"
      /\ IF q.i <= Len(q.list) THEN req' = [req EXCEPT ![r] = q] ELSE AfterFilter(r, q.found)
  BY <1>1, Zenon DEF Filter
<1>3. req[r].pred = "eligible"
  BY <1>2, Zenon DEF Good, Holds, Passing, Walks
<1>4. /\ Sees(q) /\ q.pred = "eligible"
      /\ ~(q.i <= Len(q.list)) =>
            \A v \in Upstreams : Passes(q.pred, v) => Occurs(v, q.found)
  BY <1>1, <1>2, <1>3, FilterSees, Zenon
<1>5. CASE q.i <= Len(q.list)
  BY <1>2, <1>4, <1>5, Zenon DEF Lands
<1>6. CASE ~(q.i <= Len(q.list))
  <2>1. AfterFilter(r, q.found)
    BY <1>2, <1>6, Zenon
  <2>2. CASE req' = [req EXCEPT ![r] = Pass("Scan", q.found, "eligible")]
    BY <1>4, <1>6, <2>2, PassLands, Zenon
  <2>3. CASE req' = [req EXCEPT ![r] = Pass("FilterEnabled", Members, "enabled")]
    BY <2>3, PassLands, Zenon
  <2>4. CASE \E o : Finish(r, o)
    BY <2>4, FinishLands, Zenon
  <2> QED
    BY <2>1, <2>2, <2>3, <2>4, Zenon DEF AfterFilter
<1> QED
  BY <1>5, <1>6, Zenon

(* select's pass over the enabled members. *)
LEMMA FilterEnabledLands ==
    ASSUME Types, NEW r \in Requests, Good(r), Sees(req[r]), FilterEnabled(r)
    PROVE  Lands(r)
<1>1. PICK q : q = Read(req[r])
  OBVIOUS
<1>2. /\ req[r].pc = "FilterEnabled"
      /\ IF q.i <= Len(q.list) THEN req' = [req EXCEPT ![r] = q]
         ELSE IF q.found = <<>> THEN Finish(r, [kind |-> "NoEligible"])
         ELSE req' = [req EXCEPT ![r] = Pass("Scan", q.found, "enabled")]
  BY <1>1, Zenon DEF FilterEnabled
<1>3. req[r].pred = "enabled"
  BY <1>2, Zenon DEF Good, Holds, Passing, Walks
<1>4. /\ Sees(q) /\ q.pred = "enabled"
      /\ ~(q.i <= Len(q.list)) =>
            \A v \in Upstreams : Passes(q.pred, v) => Occurs(v, q.found)
  BY <1>1, <1>2, <1>3, FilterSees, Zenon
<1>5. CASE q.i <= Len(q.list)
  BY <1>2, <1>4, <1>5, Zenon DEF Lands
<1>6. CASE ~(q.i <= Len(q.list)) /\ q.found = <<>>
  BY <1>2, <1>6, FinishLands, Zenon
<1>7. CASE ~(q.i <= Len(q.list)) /\ q.found # <<>>
  BY <1>2, <1>4, <1>7, PassLands, Zenon
<1> QED
  BY <1>5, <1>6, <1>7, Zenon

Adds(s, f, B, e) == f = IF B THEN Append(s, e) ELSE s
ReadOf(s, ld, e) == s \in Seq(Found) /\ e \in Found /\ e[2] = ld[e[1]] /\ Loads(s, ld)
Longer(s, f, B, e) == (\A x : Occurs(x, s) => Occurs(x, f)) /\ (B => Occurs(e, f))

(* What the snapshot of the loads has after a member was read. *)
LEMMA LoadRead ==
    ASSUME NEW s, NEW ld, NEW e, NEW B \in BOOLEAN, NEW f, Adds(s, f, B, e), ReadOf(s, ld, e)
    PROVE  Loads(f, ld) /\ Longer(s, f, B, e)
<1>0. s \in Seq(Found) /\ e \in Found /\ e[2] = ld[e[1]] /\ Loads(s, ld)
  BY Zenon DEF ReadOf
<1>1. CASE B
  <2>1. f = Append(s, e)
    BY <1>1, Zenon DEF Adds
  <2>2. /\ Len(f) = Len(s) + 1 /\ f[Len(s) + 1] = e /\ Len(s) \in Nat
        /\ \A j \in 1..Len(s) : f[j] = s[j]
    BY <1>0, <2>1
  <2>3. /\ \A j \in 1..Len(f) : j \in 1..Len(s) \/ j = Len(s) + 1
        /\ \A j \in 1..Len(s) : j \in 1..Len(f)
        /\ Len(s) + 1 \in 1..Len(f)
    BY <2>2
  <2>4. Loads(f, ld)
    BY <1>0, <2>2, <2>3, Zenon DEF Loads
  <2>5. Longer(s, f, B, e)
    BY <2>2, <2>3, Zenon DEF Occurs, Longer
  <2> QED
    BY <2>4, <2>5, Zenon
<1>2. CASE ~B
  BY <1>0, <1>2, Zenon DEF Adds, Longer
<1> QED
  BY <1>1, <1>2, Zenon

(* One read of the scheduler: the loads of the members before the next     *)
(* place are in the snapshot.                                              *)
LEMMA ScanSees ==
    ASSUME Types, NEW r \in Requests, Good(r), req[r].pc = "Scan", Sees(req[r]),
           kind = "LeastConnections", NEW f,
           f = IF Passes(req[r].pred, Reading(r))
               THEN Append(req[r].found, <<Reading(r), load[Reading(r)]>>) ELSE req[r].found
    PROVE  /\ Loads(f, load)
           /\ \A j \in 1..req[r].i :
                 Passes(req[r].pred, req[r].list[j]) =>
                    Occurs(<<req[r].list[j], load[req[r].list[j]]>>, f)
           /\ ~(req[r].i + 1 <= Len(req[r].list)) =>
                 \A v \in Upstreams : Passes(req[r].pred, v) => Occurs(<<v, load[v]>>, f)
<1>1. /\ req[r] \in PassRec /\ 1 <= req[r].i /\ req[r].i <= Len(req[r].list)
  <2>1. Passing(r, req[r])
    BY Zenon DEF Good, Holds
  <2> QED
    BY <2>1, Zenon DEF Passing, Walks
<1>2. /\ req[r].list \in Seq(Upstreams) /\ req[r].found \in Seq(Found) /\ req[r].i \in Nat
      /\ Len(req[r].list) \in Nat /\ Reading(r) \in Upstreams
  <2>1. req[r].list \in Seq(Upstreams) /\ req[r].found \in Seq(Found) /\ req[r].i \in Nat
    BY <1>1, Zenon DEF PassRec
  <2>2. PICK l, i : l = req[r].list /\ i = req[r].i
    BY Zenon
  <2>3. l \in Seq(Upstreams) /\ i \in Nat /\ 1 <= i /\ i <= Len(l)
    BY <1>1, <2>1, <2>2, Zenon
  <2>4. Len(l) \in Nat /\ l[i] \in Upstreams
    BY <2>3
  <2> QED BY <2>1, <2>2, <2>4, Zenon DEF Reading
<1>3. <<Reading(r), load[Reading(r)]>> \in Found
  BY <1>2 DEF Found, Types
<1>4. /\ \A v \in Upstreams : Passes(req[r].pred, v) => Occurs(v, req[r].list)
      /\ \A j \in 1..(req[r].i - 1) :
            Passes(req[r].pred, req[r].list[j]) =>
               Occurs(<<req[r].list[j], load[req[r].list[j]]>>, req[r].found)
      /\ Loads(req[r].found, load)
  BY Zenon DEF Sees
<1>5. PICK B \in BOOLEAN : B <=> Passes(req[r].pred, Reading(r))
  BY Zenon
<1>6. PICK e : e = <<Reading(r), load[Reading(r)]>>
  BY Zenon
<1>7. Loads(f, load) /\ Longer(req[r].found, f, B, e)
  <2>1. e \in Found /\ e[2] = load[e[1]]
    BY <1>3, <1>6, Zenon
  <2>2. PICK s, ld : s = req[r].found /\ ld = load
    BY Zenon
  <2>3. ReadOf(s, ld, e)
    BY <1>2, <1>4, <2>1, <2>2, Zenon DEF ReadOf
  <2>4. Adds(s, f, B, e)
    BY <1>5, <1>6, <2>2, Zenon DEF Adds
  <2>5. Loads(f, ld) /\ Longer(s, f, B, e)
    BY <2>3, <2>4, LoadRead, Zenon
  <2> QED
    BY <2>2, <2>5, Zenon
<1>8. \A j \in 1..req[r].i : j \in 1..(req[r].i - 1) \/ j = req[r].i
  BY <1>1, <1>2, UpToNext, Zenon
<1>9. \A j \in 1..req[r].i :
         Passes(req[r].pred, req[r].list[j]) =>
            Occurs(<<req[r].list[j], load[req[r].list[j]]>>, f)
  BY <1>4, <1>5, <1>6, <1>7, <1>8, Zenon DEF Reading, Longer
<1>10. ASSUME ~(req[r].i + 1 <= Len(req[r].list)), NEW v \in Upstreams, Passes(req[r].pred, v)
       PROVE  Occurs(<<v, load[v]>>, f)
  <2>1. PICK j \in 1..Len(req[r].list) : req[r].list[j] = v
    BY <1>4, <1>10, Zenon DEF Occurs
  <2>2. j \in 1..req[r].i
    BY <1>2, <1>10, AllPlaces, Zenon
  <2> QED
    BY <1>9, <1>10, <2>1, <2>2, Zenon
<1> QED
  BY <1>7, <1>9, <1>10, Zenon

(* The scheduler's pass over the loads. *)
LEMMA ScanLoadsLands ==
    ASSUME Types, NEW r \in Requests, Good(r), Sees(req[r]), ScanLoads(r)
    PROVE  Lands(r)
<1>1. req[r].pc = "Scan" /\ kind = "LeastConnections"
  BY Zenon DEF ScanLoads
<1>2. PICK f : f = IF Passes(req[r].pred, Reading(r))
                   THEN Append(req[r].found, <<Reading(r), load[Reading(r)]>>) ELSE req[r].found
  BY Zenon
<1>3. PICK q : q = [req[r] EXCEPT !.i = req[r].i + 1, !.found = f]
  BY Zenon
<1>4. IF q.i <= Len(req[r].list) THEN req' = [req EXCEPT ![r] = q]
      ELSE IF f = <<>> THEN NoneChosen(r)
      ELSE req' = [req EXCEPT ![r] = [q EXCEPT !.pc = "Ticket"]]
  BY <1>2, <1>3, Zenon DEF ScanLoads, Reading
<1>5. req[r] \in PassRec /\ req[r].i \in Nat
  <2>1. Passing(r, req[r])
    BY Zenon DEF Good, Holds
  <2>2. req[r] \in PassRec
    BY <1>1, <2>1, Zenon DEF Passing, Walks
  <2> QED
    BY <2>2, Zenon DEF PassRec
<1>6. q = [pc |-> "Scan", list |-> req[r].list, pred |-> req[r].pred, i |-> req[r].i + 1,
           found |-> f]
  <2>1. q = [pc |-> req[r].pc, list |-> req[r].list, pred |-> req[r].pred,
             i |-> req[r].i + 1, found |-> f]
    BY <1>3, <1>5, Advance, Zenon
  <2> QED
    BY <1>1, <2>1, Zenon
<1>7. /\ q.pc = "Scan" /\ q.list = req[r].list /\ q.pred = req[r].pred /\ q.found = f
      /\ q.i = req[r].i + 1
  BY <1>6, Zenon
<1>8. /\ Loads(f, load)
      /\ \A j \in 1..req[r].i :
            Passes(req[r].pred, req[r].list[j]) =>
               Occurs(<<req[r].list[j], load[req[r].list[j]]>>, f)
      /\ ~(q.i <= Len(req[r].list)) =>
            \A v \in Upstreams : Passes(req[r].pred, v) => Occurs(<<v, load[v]>>, f)
  BY <1>1, <1>2, <1>7, ScanSees, Zenon
<1>9. CASE q.i <= Len(req[r].list)
  <2>1. q.i - 1 = req[r].i
    <3>1. req[r].i \in Nat /\ q.i = req[r].i + 1
      BY <1>5, <1>7, Zenon
    <3> QED
      BY <3>1
  <2>2. \A v \in Upstreams : Passes(q.pred, v) => Occurs(v, q.list)
    BY <1>1, <1>7, Zenon DEF Sees
  <2>3. Sees(q)
    BY <1>7, <1>8, <2>1, <2>2, Zenon DEF Sees
  <2> QED
    BY <1>4, <1>9, <2>3, Zenon DEF Lands
<1>10. CASE ~(q.i <= Len(req[r].list)) /\ f = <<>>
  <2>1. \A e : ~Occurs(e, f)
    BY <1>10 DEF Occurs
  <2>2. \A v \in Upstreams : ~Passes(req[r].pred, v)
    BY <1>8, <1>10, <2>1, Zenon
  <2>3. NoneChosen(r)
    BY <1>4, <1>10, Zenon
  <2>4. CASE \E u : Chosen(r, u)
    BY <2>2, <2>4, ChosenLands, Zenon
  <2>5. CASE \E o : Finish(r, o)
    BY <2>5, FinishLands, Zenon
  <2> QED
    BY <2>3, <2>4, <2>5, Zenon DEF NoneChosen
<1>11. CASE ~(q.i <= Len(req[r].list)) /\ f # <<>>
  <2>1. PICK p : p = [q EXCEPT !.pc = "Ticket"]
    BY Zenon
  <2>2. p.pc = "Ticket" /\ p.pred = req[r].pred /\ p.found = f
    BY <1>6, <1>7, <2>1
  <2>3. Sees(p)
    BY <1>8, <1>11, <2>2, Zenon DEF Sees
  <2> QED
    BY <1>4, <1>11, <2>1, <2>3, Zenon DEF Lands
<1> QED
  BY <1>9, <1>10, <1>11, Zenon

(* The ticket falls on a member with the least load of all that may be     *)
(* used.                                                                   *)
LEMMA TicketLands ==
    ASSUME Types, NEW r \in Requests, Good(r), Sees(req[r]), Ticket(r),
           kind = "LeastConnections"
    PROVE  Lands(r)
<1>1. req[r].pc = "Ticket" /\ req[r] \in PassRec
  <2>1. req[r].pc = "Ticket" /\ Passing(r, req[r])
    BY Zenon DEF Ticket, Good, Holds
  <2> QED
    BY <2>1, Zenon DEF Passing, Walks
<1>2. PICK s : s = req[r].found
  BY Zenon
<1>3. s \in Seq(Found) /\ DOMAIN s = 1..Len(s)
  BY <1>1, <1>2 DEF PassRec
<1>4. PICK i \in DOMAIN s : i \in LeastLoaded(s) /\ Chosen(r, s[i][1])
  BY <1>2, Zenon DEF Ticket, FallsOn
<1>5. \A j \in 1..Len(s) : s[i][2] <= s[j][2]
  BY <1>3, <1>4, Zenon DEF LeastLoaded
<1>6. /\ \A v \in Upstreams : Passes(req[r].pred, v) => Occurs(<<v, load[v]>>, s)
      /\ Loads(s, load)
  BY <1>1, <1>2, Zenon DEF Sees
<1>7. ASSUME NEW v \in Upstreams, Passes(req[r].pred, v) PROVE load[s[i][1]] <= load[v]
  <2>1. PICK j \in 1..Len(s) : s[j] = <<v, load[v]>>
    BY <1>6, <1>7, Zenon DEF Occurs
  <2>2. s[j][2] = load[v]
    BY <2>1
  <2>3. s[i][2] = load[s[i][1]]
    BY <1>3, <1>4, <1>6, Zenon DEF Loads
  <2> QED
    BY <1>5, <2>1, <2>2, <2>3, Zenon
<1> QED
  BY <1>4, <1>7, ChosenLands, Zenon

-----------------------------------------------------------------------------
Still == load' = load /\ healthy' = healthy /\ enabled' = enabled

(* What a request has seen stays so while the members and their loads do. *)
LEMMA SeesKept ==
    ASSUME NEW q, Sees(q), Still
    PROVE  Sees(q)'
BY Zenon DEF Sees, Still, Loads, Passes, IsEligible

(* A request that lands, with no other in progress. *)
LEMMA LandsUndisturbed ==
    ASSUME Types, NEW r \in Requests, Lands(r), Still,
           \A o \in Requests : Running(o) => o = r
    PROVE  Undisturbed(r)'
<1>1. PICK q : req' = [req EXCEPT ![r] = q] /\ Sees(q)
  BY Zenon DEF Lands
<1>2. req'[r] = q /\ \A o \in Requests : o # r => req'[o] = req[o]
  BY <1>1, Zenon DEF Types
<1>3. \A o \in Requests : Running(o)' => o = r
  BY <1>2, Zenon DEF Running
<1>4. Sees(q)'
  BY <1>1, SeesKept, Zenon
<1> QED
  BY <1>2, <1>3, <1>4, Zenon DEF Undisturbed

(* A request that a step leaves where it is, while no other begins. *)
LEMMA StaysUndisturbed ==
    ASSUME NEW r \in Requests, Undisturbed(r), Still, kind' = kind, alone' = alone,
           req'[r] = req[r], \A o \in Requests : Running(o)' => Running(o)
    PROVE  Undisturbed(r)'
<1>1. ASSUME Sees(req[r]) PROVE Sees(req[r])'
  <2>1. PICK q : q = req[r]
    BY Zenon
  <2>2. Sees(q)'
    BY <1>1, <2>1, SeesKept, Zenon
  <2> QED
    BY <2>1, <2>2, Zenon
<1>2. Running(r)' <=> Running(r)
  BY Zenon DEF Running
<1> QED
  BY <1>1, <1>2, Zenon DEF Undisturbed

(* The history of a request is not written while requests progress. *)
LEMMA ProgressKeepsAlone ==
    ASSUME NEW r, Progress(r)
    PROVE  alone' = alone
<1>1. UNCHANGED history
  BY Zenon DEF Progress, Filter, FilterEnabled, ScanFirst, ScanCount, ScanLoads, Ticket, Pick,
               TakeLease
<1> QED
  BY <1>1 DEF history

(* A step of a request in progress. *)
LEMMA ProgressUndisturbed ==
    ASSUME Types, NEW r \in Requests, Good(r), Undisturbed(r), Progress(r)
    PROVE  Undisturbed(r)'
<1>1. Running(r) /\ Kept /\ alone' = alone
  <2>1. Running(r) /\ Kept
    BY ProgressStep, Zenon
  <2> QED
    BY <2>1, ProgressKeepsAlone, Zenon
<1>2. SUFFICES ASSUME kind = "LeastConnections", alone[r], Running(r)'
               PROVE  Undisturbed(r)'
  BY <1>1, Zenon DEF Undisturbed, Kept
<1>3. (\A o \in Requests : Running(o) => o = r) /\ Sees(req[r])
  BY <1>1, <1>2, Zenon DEF Undisturbed
<1>4. ~TakeLease(r)
  <2>1. ASSUME TakeLease(r) PROVE FALSE
    <3>1. req' = [req EXCEPT ![r] = [pc |-> "Done"]]
      BY <2>1, Zenon DEF TakeLease, Finish
    <3>2. req'[r].pc = "Done"
      BY <3>1 DEF Types
    <3> QED
      BY <1>2, <3>2, Zenon DEF Running
  <2> QED
    BY <2>1, Zenon
<1>5. kind \notin {"FirstAvailable", "RoundRobin", "Random"}
  BY <1>2
<1>6. ~ScanFirst(r) /\ ~ScanCount(r)
  BY <1>5, Zenon DEF ScanFirst, ScanCount
<1>7. ~Pick(r)
  <2>1. req[r].pc # "Pick"
    BY <1>5, Zenon DEF Good, Holds, Picking
  <2> QED
    BY <2>1, Zenon DEF Pick
<1>8. Filter(r) \/ FilterEnabled(r) \/ ScanLoads(r) \/ Ticket(r)
  BY <1>4, <1>6, <1>7, Zenon DEF Progress
<1>9. Lands(r)
  BY <1>2, <1>3, <1>8, FilterLands, FilterEnabledLands, ScanLoadsLands, TicketLands, Zenon
<1>10. load' = load
  BY <1>8, Zenon DEF Filter, FilterEnabled, ScanLoads, Ticket
<1> QED
  BY <1>1, <1>3, <1>9, <1>10, LandsUndisturbed, Zenon DEF Still, Kept

(* A step of another request in progress: the two were not alone. *)
LEMMA OtherUndisturbed ==
    ASSUME Types, NEW r \in Requests, NEW s \in Requests, s # r, Good(s), Undisturbed(r),
           Progress(s)
    PROVE  Undisturbed(r)'
<1>1. Running(s) /\ Kept /\ alone' = alone /\ (Moving(s) \/ Answering(s))
  <2>1. Running(s) /\ Kept /\ (Moving(s) \/ Answering(s))
    BY ProgressStep, Zenon
  <2> QED
    BY <2>1, ProgressKeepsAlone, Zenon
<1>2. PICK q : req' = [req EXCEPT ![s] = q]
  BY <1>1, Zenon DEF Moving, Answering, Finish
<1>3. req'[r] = req[r]
  BY <1>2, Zenon DEF Types
<1>4. Running(r)' => Running(r)
  BY <1>3, Zenon DEF Running
<1> QED
  BY <1>1, <1>4, Zenon DEF Undisturbed, Kept

(* A request that begins is alone if no other is in progress, and then     *)
(* has seen nothing yet; the others are no longer alone.                   *)
LEMMA RouteUndisturbed ==
    ASSUME Types, NEW s \in Requests, Route(s), NEW r \in Requests, Undisturbed(r)
    PROVE  Undisturbed(r)'
<1>1. req[s] = Idle /\ kind' = kind /\ Still
  BY Zenon DEF Route, memberVars, group, Still
<1>2. \/ \E o : Finish(s, o) /\ UNCHANGED history
      \/ /\ req' = [req EXCEPT ![s] = Pass("Filter", Members, "eligible")]
         /\ alone' = [p \in Requests |-> p = s /\ \A o \in Requests : ~Running(o)]
  BY Zenon DEF Route
<1>3. CASE \E o : Finish(s, o) /\ UNCHANGED history
  <2>1. alone' = alone /\ req' = [req EXCEPT ![s] = [pc |-> "Done"]]
    BY <1>3, Zenon DEF history, Finish
  <2>2. req'[s].pc = "Done" /\ \A o \in Requests : o # s => req'[o] = req[o]
    BY <2>1, Zenon DEF Types
  <2>3. ~Running(s)'
    BY <2>2, Zenon DEF Running
  <2>4. \A o \in Requests : Running(o)' => Running(o)
    BY <2>2, <2>3, Zenon DEF Running
  <2>5. CASE r = s
    BY <2>3, <2>5, Zenon DEF Undisturbed
  <2>6. CASE r # s
    BY <1>1, <2>1, <2>2, <2>4, <2>6, StaysUndisturbed, Zenon
  <2> QED
    BY <2>5, <2>6
<1>4. CASE /\ req' = [req EXCEPT ![s] = Pass("Filter", Members, "eligible")]
           /\ alone' = [p \in Requests |-> p = s /\ \A o \in Requests : ~Running(o)]
  <2>1. alone'[r] <=> r = s /\ \A o \in Requests : ~Running(o)
    BY <1>4, Zenon
  <2>2. CASE r = s /\ \A o \in Requests : ~Running(o)
    <3>1. Lands(s)
      BY <1>4, PassLands, Zenon
    <3> QED
      BY <1>1, <2>2, <3>1, LandsUndisturbed, Zenon
  <2>3. CASE ~(r = s /\ \A o \in Requests : ~Running(o))
    BY <2>1, <2>3, Zenon DEF Undisturbed
  <2> QED
    BY <2>2, <2>3, Zenon
<1> QED
  BY <1>2, <1>3, <1>4, Zenon

(* The invariant holds at first and is kept. *)
LEMMA LoadInvInductive == (Init => LoadInv) /\ (LoadInv /\ [Next]_vars => LoadInv')
<1>1. ASSUME Init PROVE LoadInv
  <2>1. IInv
    BY <1>1, IInvInductive, Zenon
  <2>2. alone = [r \in Requests |-> alone[r]] /\ \A r \in Requests : ~alone[r]
    BY <1>1, Zenon DEF Init
  <2> QED
    BY <2>1, <2>2, Zenon DEF LoadInv, Undisturbed
<1>2. ASSUME LoadInv, [Next]_vars PROVE LoadInv'
  <2>1. /\ Types /\ alone = [r \in Requests |-> alone[r]]
        /\ \A r \in Requests : Good(r) /\ Undisturbed(r)
    BY <1>2, Zenon DEF LoadInv, IInv
  <2>2. IInv'
    BY <1>2, IInvInductive, Zenon DEF LoadInv
  <2>3. CASE \E s \in Requests : Route(s)
    <3>1. PICK s \in Requests : Route(s)
      BY <2>3, Zenon
    <3>2. alone' = alone \/ alone' = [p \in Requests |-> p = s /\ \A o \in Requests : ~Running(o)]
      BY <3>1, Zenon DEF Route, history
    <3>3. alone' = [r \in Requests |-> alone'[r]]
      BY <2>1, <3>2, Zenon
    <3>4. \A r \in Requests : Undisturbed(r)'
      BY <2>1, <3>1, RouteUndisturbed, Zenon
    <3> QED
      BY <2>2, <3>3, <3>4, Zenon DEF LoadInv
  <2>4. CASE \E s \in Requests : Progress(s)
    <3>1. PICK s \in Requests : Progress(s)
      BY <2>4, Zenon
    <3>3. alone' = [r \in Requests |-> alone'[r]]
      BY <2>1, <3>1, ProgressKeepsAlone, Zenon
    <3>4. ASSUME NEW r \in Requests PROVE Undisturbed(r)'
      <4>1. CASE r = s
        BY <2>1, <3>1, <4>1, ProgressUndisturbed, Zenon
      <4>2. CASE r # s
        BY <2>1, <3>1, <4>2, OtherUndisturbed, Zenon
      <4> QED
        BY <4>1, <4>2
    <3> QED
      BY <2>2, <3>3, <3>4, Zenon DEF LoadInv
  <2>5. CASE alone' = [p \in Requests |-> FALSE]
    <3>1. alone' = [r \in Requests |-> alone'[r]] /\ \A r \in Requests : ~alone'[r]
      BY <2>5, Zenon
    <3> QED
      BY <2>2, <3>1, Zenon DEF LoadInv, Undisturbed
  <2>6. CASE Explain \/ UNCHANGED vars
    <3>1. kind' = kind /\ Still /\ alone' = alone /\ req' = req
      BY <2>6, Zenon DEF Explain, vars, memberVars, group, history, Still
    <3>2. \A r \in Requests : Running(r)' => Running(r)
      BY <3>1, Zenon DEF Running
    <3>3. \A r \in Requests : Undisturbed(r)'
      BY <2>1, <3>1, <3>2, StaysUndisturbed, Zenon
    <3> QED
      BY <2>1, <2>2, <3>1, <3>3, Zenon DEF LoadInv
  <2> QED
    BY <1>2, <2>3, <2>4, <2>5, <2>6, StepCases, Zenon DEF Release, Change
<1> QED
  BY <1>1, <1>2, Zenon

(* LeastConnections, for any group and any number of requests: a request   *)
(* that nothing interferes with, from route() to its lease, goes to a      *)
(* member with the least load of all that it may use.  The snapshot of the *)
(* loads it has by then is complete and still true.                        *)
THEOREM LeastLoadedChosen == Spec => LeastLoadedWhenAlone
<1>1. ASSUME LoadInv, NEW r \in Requests, kind = "LeastConnections", req[r].pc = "Lease", alone[r],
             NEW v \in Upstreams, Passes(req[r].pred, v)
      PROVE  load[req[r].upstream] <= load[v]
  <2>1. Running(r)
    BY <1>1, Zenon DEF Running
  <2>2. Sees(req[r])
    BY <1>1, <2>1, Zenon DEF LoadInv, Undisturbed
  <2> QED
    BY <1>1, <2>2, Zenon DEF Sees
<1>2. LoadInv => [\A r \in Requests :
         kind = "LeastConnections" /\ req[r].pc = "Lease" /\ req'[r].pc = "Done" /\ alone[r] =>
           \A v \in Upstreams : Passes(req[r].pred, v) => load[req[r].upstream] <= load[v]]_vars
  BY <1>1, Zenon
<1> QED
  BY <1>2, LoadInvInductive, PTL DEF Spec, LeastLoadedWhenAlone
-----------------------------------------------------------------------------
(* While no member changes, every pass of a request finds the    *)
(* whole group, so a ticket is a position in Members: On says which one a  *)
(* request is on its way to or was given.  The positions are given out in  *)
(* rotation (Even), whatever the requests do in between.                   *)
Size == Len(Members)
Front(k) == [j \in 1..k |-> Members[j]]

Reads(q) ==
    /\ q.pc \in {"Idle", "Filter", "Scan", "Ticket", "Pick", "Lease", "Done", "Closed"}
    /\ q.pc \in {"Filter", "Scan"} =>
          /\ DOMAIN q = {"pc", "list", "pred", "i", "found"}
          /\ q.list = Members /\ q.pred = "eligible"
          /\ q.i \in 1..Size /\ q.found = Front(q.i - 1)
    /\ q.pc = "Ticket" => q.list = Members /\ q.pred = "eligible" /\ q.found = Members
    /\ q.pc = "Pick" =>
          /\ DOMAIN q = {"pc", "list", "pred", "i", "pick"}
          /\ q.list = Members /\ q.pred = "eligible"
          /\ q.i \in 1..Size /\ q.pick \in Nat /\ q.i + q.pick <= Size
    /\ q.pc = "Lease" => q.upstream \in Upstreams

Answered(q, o) ==
    o.kind = "Upstream" => q.pc \in {"Done", "Closed"} /\ o.upstream \in Upstreams

Has(q, o) == q.pc \in {"Pick", "Lease"} \/ o.kind = "Upstream"

On(q, o, n) ==
    \/ q.pc = "Pick" /\ q.i + q.pick = n
    \/ q.pc = "Lease" /\ q.upstream = Members[n]
    \/ o.kind = "Upstream" /\ o.upstream = Members[n]

Ticketed == {r \in Requests : Has(req[r], outcome[r])}
Assigned(n) == {r \in Requests : On(req[r], outcome[r], n)}
Served == Cardinality(Ticketed)

Even ==
    \E least \in Nat : \A n \in 1..Size :
        Cardinality(Assigned(n)) = least + (IF n <= Served % Size THEN 1 ELSE 0)

Settled(r) == Reads(req[r]) /\ Answered(req[r], outcome[r])

Calm ==
    /\ healthy = Upstreams /\ enabled = Upstreams
    /\ \A r \in Requests : Settled(r)
    /\ Served < CursorMod => cursor = Served
    /\ Even

BalanceInv ==
    /\ changes \in Nat
    /\ DOMAIN req = Requests /\ DOMAIN outcome = Requests
    /\ kind = "RoundRobin" /\ changes = 0 => Calm

(* The remainder of a number that is written with its quotient. *)
LEMMA Remainder ==
    ASSUME NEW m \in Nat \ {0}, NEW q \in Nat, NEW s \in 0..(m - 1)
    PROVE  (m * q + s) % m = s
  BY SMT

(* The remainders of fetch_add follow each other in rotation. *)
LEMMA Rotates ==
    ASSUME NEW m \in Nat \ {0}, NEW c \in Nat
    PROVE  /\ c % m \in 0..(m - 1)
           /\ (c + 1) % m = IF c % m = m - 1 THEN 0 ELSE (c % m) + 1
<1> DEFINE s == c % m
           q == c \div m
<1>1. s \in 0..(m - 1)
  BY SMT
<1>2. s = c - m * q
  BY SMT
<1>3. q \in Nat
  BY SMT
<1>4. m * q \in Nat
  BY <1>3, SMT
<1> HIDE DEF s, q
<1>5. c = m * q + s
  BY <1>1, <1>2, <1>4
<1>6. CASE s = m - 1
  <2>1. c + 1 = m * (q + 1) + 0
    BY <1>3, <1>5, <1>6, SMT
  <2>2. (m * (q + 1) + 0) % m = 0
    BY <1>3, Remainder, SMT
  <2> QED BY <1>1, <1>6, <2>1, <2>2, Zenon DEF s
<1>7. CASE s # m - 1
  <2>1. s + 1 \in 0..(m - 1)
    BY <1>1, <1>7
  <2>2. c + 1 = m * q + (s + 1)
    BY <1>1, <1>4, <1>5
  <2>3. (m * q + (s + 1)) % m = s + 1
    BY <1>3, <2>1, Remainder, Zenon
  <2> QED BY <1>1, <1>7, <2>2, <2>3, Zenon DEF s
<1> QED BY <1>6, <1>7, Zenon

(* The group has a size, and no member twice. *)
LEMMA SizeFact ==
    /\ Size \in Nat \ {0} /\ Front(0) = <<>> /\ Front(Size) = Members /\ Members # <<>>
    /\ \A n \in 1..Size : Members[n] \in Upstreams
    /\ \A m, n \in 1..Size : Members[m] = Members[n] => m = n
<1>1. Members \in Seq(Upstreams) /\ Len(Members) \in Nat /\ 1 <= Len(Members)
      /\ \A n \in 1..Len(Members) : Members[n] \in Upstreams
  BY MembersFact, Zenon
<1>2. DOMAIN Members = 1..Size
  BY <1>1 DEF Size
<1>3. \A m, n \in 1..Size : Members[m] = Members[n] => m = n
  BY <1>2, RouterAssumption, Zenon DEF IsInjective
<1>4. Front(Size) = Members
  BY <1>1 DEF Front, Size
<1>5. Front(0) = <<>>
  BY DEF Front
<1> QED BY <1>1, <1>3, <1>4, <1>5 DEF Size

(* A member that passes extends what a pass has found by one. *)
LEMMA FrontNext ==
    ASSUME NEW k \in 1..Size
    PROVE  Append(Front(k - 1), Members[k]) = Front(k)
<1>0. Size \in Nat /\ k \in Nat
  BY SizeFact
<1>1. Front(k - 1) \in Seq(Upstreams) /\ Len(Front(k - 1)) = k - 1
  BY <1>0, SizeFact DEF Front
<1>2. Members[k] \in Upstreams
  BY SizeFact, Zenon
<1>3. /\ Append(Front(k - 1), Members[k]) \in Seq(Upstreams)
      /\ Len(Append(Front(k - 1), Members[k])) = k
      /\ \A i \in 1..(k - 1) : Append(Front(k - 1), Members[k])[i] = Front(k - 1)[i]
      /\ Append(Front(k - 1), Members[k])[k] = Members[k]
  BY <1>0, <1>1, <1>2
<1>4. \A i \in 1..k : Append(Front(k - 1), Members[k])[i] = Members[i]
  BY <1>0, <1>3 DEF Front
<1> QED BY <1>0, <1>3, <1>4 DEF Front

(* What a step of request r does to its ticket: it keeps it, or it draws   *)
(* the one the cursor is at.                                               *)
Keeps(r) ==
    /\ cursor' = cursor
    /\ Has(req'[r], outcome'[r]) <=> Has(req[r], outcome[r])
    /\ \A n \in 1..Size : On(req'[r], outcome'[r], n) <=> On(req[r], outcome[r], n)

Draws(r) ==
    /\ cursor' = (cursor + 1) % CursorMod
    /\ ~Has(req[r], outcome[r]) /\ Has(req'[r], outcome'[r])
    /\ \A n \in 1..Size :
          /\ ~On(req[r], outcome[r], n)
          /\ On(req'[r], outcome'[r], n) <=> n = (cursor % Size) + 1

(* One read of a pass over the whole group finds the next member. *)
LEMMA ReadFinds ==
    ASSUME healthy = Upstreams, enabled = Upstreams,
           NEW r \in Requests, Reads(req[r]), req[r].pc \in {"Filter", "Scan"}
    PROVE  LET q == Read(req[r]) IN
           /\ DOMAIN q = {"pc", "list", "pred", "i", "found"}
           /\ q.pc = req[r].pc /\ q.list = Members /\ q.pred = "eligible"
           /\ q.i = req[r].i + 1 /\ q.found = Front(req[r].i)
<1> DEFINE q == req[r]
           u == q.list[q.i]
<1>1. /\ DOMAIN q = {"pc", "list", "pred", "i", "found"}
      /\ q.list = Members /\ q.pred = "eligible" /\ q.i \in 1..Size /\ q.found = Front(q.i - 1)
  BY Zenon DEF Reads
<1>2. Passes(q.pred, u) /\ u = Members[q.i]
  BY <1>1, SizeFact, Zenon DEF Passes, IsEligible
<1>3. Append(q.found, u) = Front(q.i)
  BY <1>1, <1>2, FrontNext, Zenon
<1>4. Read(q) = [q EXCEPT !.i = q.i + 1, !.found = Front(q.i)]
  BY <1>2, <1>3, Zenon DEF Read
<1> QED BY <1>1, <1>4

(* A request of a group that does not change. *)
Ready(r) ==
    /\ kind = "RoundRobin" /\ healthy = Upstreams /\ enabled = Upstreams
    /\ cursor \in Nat
    /\ DOMAIN req = Requests /\ DOMAIN outcome = Requests
    /\ Settled(r)

(* A step taken apart: where the request is, what it was answered, and     *)
(* what became of its ticket.                                              *)
LEMMA Landing ==
    ASSUME NEW r \in Requests, NEW p, NEW o, req'[r] = p, outcome'[r] = o,
           Reads(p), Answered(p, o), cursor' = cursor,
           Has(p, o) <=> Has(req[r], outcome[r]),
           \A n \in 1..Size : On(p, o, n) <=> On(req[r], outcome[r], n)
    PROVE  Settled(r)' /\ Keeps(r)
  BY Zenon DEF Settled, Keeps

(* A request that goes on without a ticket. *)
LEMMA MovesOn ==
    ASSUME NEW r \in Requests, NEW p, Reads(p), p.pc \notin {"Pick", "Lease"},
           req[r].pc \notin {"Pick", "Lease"}, req'[r] = p, outcome'[r] = outcome[r],
           cursor' = cursor, Answered(p, outcome[r])
    PROVE  Settled(r)' /\ Keeps(r)
<1>1. Has(p, outcome[r]) <=> Has(req[r], outcome[r])
  BY Zenon DEF Has
<1>2. \A n \in 1..Size : On(p, outcome[r], n) <=> On(req[r], outcome[r], n)
  BY Zenon DEF On
<1> QED BY <1>1, <1>2, Landing, Zenon

(* route starts the filter pass, or answers without a member.              *)
LEMMA RouteBalances ==
    ASSUME NEW r \in Requests, Ready(r), Route(r)
    PROVE  Settled(r)' /\ Keeps(r)
<1> DEFINE q == req[r]
           o == outcome[r]
<1>r. /\ Reads(q) /\ Answered(q, o) /\ DOMAIN req = Requests /\ DOMAIN outcome = Requests
      /\ kind = "RoundRobin" /\ healthy = Upstreams /\ enabled = Upstreams /\ cursor \in Nat
  BY Zenon DEF Ready, Settled
<1>s. Size \in Nat \ {0} /\ Front(Size) = Members /\ Members # <<>> /\ Len(Members) = Size
  BY SizeFact, Zenon DEF Size
<1>0. q = Idle /\ UNCHANGED <<memberVars, load, cursor, changes>>
  BY Zenon DEF Route
<1>1. q.pc = "Idle" /\ cursor' = cursor
  BY <1>0 DEF Idle
<1>2. o.kind # "Upstream"
  BY <1>r, <1>1, Zenon DEF Answered
<1>3. CASE req' = [req EXCEPT ![r] = Pass("Filter", Members, "eligible")] /\ outcome' = outcome
  <2> DEFINE p == Pass("Filter", Members, "eligible")
  <2>1. Reads(p) /\ p.pc = "Filter"
    BY <1>s, SizeFact DEF Reads, Pass
  <2>2. req'[r] = p /\ outcome'[r] = o
    BY <1>r, <1>3, Zenon
  <2> HIDE DEF p
  <2>3. Answered(p, o) /\ p.pc \notin {"Pick", "Lease"} /\ q.pc \notin {"Pick", "Lease"}
    BY <1>1, <1>2, <2>1, Zenon DEF Answered
  <2> QED BY <1>1, <2>1, <2>2, <2>3, MovesOn, Zenon
<1>4. ASSUME NEW out, Finish(r, out), out.kind # "Upstream" PROVE Settled(r)' /\ Keeps(r)
  <2> DEFINE p == [pc |-> "Done"]
  <2>1. req'[r] = p /\ outcome'[r] = out /\ p.pc = "Done"
    BY <1>r, <1>4, Zenon DEF Finish
  <2> HIDE DEF p
  <2>2. Reads(p) /\ Answered(p, out)
    BY <1>4, <2>1, Zenon DEF Reads, Answered
  <2>3. Has(p, out) <=> Has(q, o)
    BY <1>1, <1>2, <1>4, <2>1, Zenon DEF Has
  <2>4. \A n \in 1..Size : On(p, out, n) <=> On(q, o, n)
    BY <1>1, <1>2, <1>4, <2>1, Zenon DEF On
  <2> QED BY <1>1, <2>1, <2>2, <2>3, <2>4, Landing, Zenon
<1>5. \/ Finish(r, [kind |-> "Direct"]) \/ Finish(r, [kind |-> "Rejected"])
      \/ Finish(r, [kind |-> "UnknownGroup"])
      \/ req' = [req EXCEPT ![r] = Pass("Filter", Members, "eligible")] /\ outcome' = outcome
  BY Zenon DEF Route
<1> QED BY <1>3, <1>4, <1>5, Zenon

(* The filter pass reads on, or hands all the members to the scheduler.    *)
LEMMA FilterBalances ==
    ASSUME NEW r \in Requests, Ready(r), Filter(r)
    PROVE  Settled(r)' /\ Keeps(r)
<1> DEFINE q == req[r]
           o == outcome[r]
<1>r. /\ Reads(q) /\ Answered(q, o) /\ DOMAIN req = Requests /\ DOMAIN outcome = Requests
      /\ kind = "RoundRobin" /\ healthy = Upstreams /\ enabled = Upstreams /\ cursor \in Nat
  BY Zenon DEF Ready, Settled
<1>s. Size \in Nat \ {0} /\ Front(Size) = Members /\ Members # <<>> /\ Len(Members) = Size
  BY SizeFact DEF Size
<1>1. q.pc = "Filter" /\ cursor' = cursor
  BY Zenon DEF Filter
<1> DEFINE p == Read(q)
<1>2. /\ DOMAIN p = {"pc", "list", "pred", "i", "found"}
      /\ p.pc = "Filter" /\ p.list = Members /\ p.pred = "eligible"
      /\ p.i = q.i + 1 /\ p.found = Front(q.i) /\ q.i \in 1..Size
  BY <1>r, <1>1, ReadFinds, Zenon DEF Reads
<1>3. IF p.i <= Len(p.list) THEN req' = [req EXCEPT ![r] = p] /\ outcome' = outcome
      ELSE AfterFilter(r, p.found)
  BY Zenon DEF Filter
<1> HIDE DEF p
<1>4. CASE p.i <= Size
  <2>1. Reads(p)
    BY <1>s, <1>2, <1>4 DEF Reads
  <2>2. req'[r] = p /\ outcome'[r] = o
    BY <1>r, <1>s, <1>2, <1>3, <1>4, Zenon
  <2>3. Answered(p, o) /\ p.pc \notin {"Pick", "Lease"} /\ q.pc \notin {"Pick", "Lease"}
    BY <1>r, <1>1, <1>2, Zenon DEF Answered
  <2> QED BY <1>1, <2>1, <2>2, <2>3, MovesOn, Zenon
<1>5. CASE ~(p.i <= Size)
  <2>1. p.found = Members
    BY <1>s, <1>2, <1>5
  <2>2. req' = [req EXCEPT ![r] = Pass("Scan", Members, "eligible")] /\ outcome' = outcome
    BY <1>s, <1>2, <1>3, <1>5, <2>1, Zenon DEF AfterFilter
  <2> DEFINE s == Pass("Scan", Members, "eligible")
  <2>3. Reads(s) /\ s.pc = "Scan"
    BY <1>s, SizeFact DEF Reads, Pass
  <2>4. req'[r] = s /\ outcome'[r] = o
    BY <1>r, <2>2, Zenon
  <2> HIDE DEF s
  <2>5. Answered(s, o) /\ s.pc \notin {"Pick", "Lease"} /\ q.pc \notin {"Pick", "Lease"}
    BY <1>r, <1>1, <2>3, Zenon DEF Answered
  <2> QED BY <1>1, <2>3, <2>4, <2>5, MovesOn, Zenon
<1> QED BY <1>4, <1>5, Zenon

(* The scheduler counts on, or has counted all the members.                *)
LEMMA ScanCountBalances ==
    ASSUME NEW r \in Requests, Ready(r), ScanCount(r)
    PROVE  Settled(r)' /\ Keeps(r)
<1> DEFINE q == req[r]
           o == outcome[r]
<1>r. /\ Reads(q) /\ Answered(q, o) /\ DOMAIN req = Requests /\ DOMAIN outcome = Requests
      /\ kind = "RoundRobin" /\ healthy = Upstreams /\ enabled = Upstreams /\ cursor \in Nat
  BY Zenon DEF Ready, Settled
<1>s. Size \in Nat \ {0} /\ Front(Size) = Members /\ Members # <<>> /\ Len(Members) = Size
  BY SizeFact DEF Size
<1>1. q.pc = "Scan" /\ cursor' = cursor
  BY Zenon DEF ScanCount
<1> DEFINE p == Read(q)
<1>2. /\ DOMAIN p = {"pc", "list", "pred", "i", "found"}
      /\ p.pc = "Scan" /\ p.list = Members /\ p.pred = "eligible"
      /\ p.i = q.i + 1 /\ p.found = Front(q.i) /\ q.i \in 1..Size
  BY <1>r, <1>1, ReadFinds, Zenon DEF Reads
<1>3. IF p.i <= Len(p.list) THEN req' = [req EXCEPT ![r] = p] /\ outcome' = outcome
      ELSE IF p.found = <<>> THEN NoneChosen(r)
      ELSE req' = [req EXCEPT ![r] = [p EXCEPT !.pc = "Ticket"]] /\ outcome' = outcome
  BY Zenon DEF ScanCount
<1> HIDE DEF p
<1>4. CASE p.i <= Size
  <2>1. Reads(p)
    BY <1>s, <1>2, <1>4 DEF Reads
  <2>2. req'[r] = p /\ outcome'[r] = o
    BY <1>r, <1>s, <1>2, <1>3, <1>4, Zenon
  <2>3. Answered(p, o) /\ p.pc \notin {"Pick", "Lease"} /\ q.pc \notin {"Pick", "Lease"}
    BY <1>r, <1>1, <1>2, Zenon DEF Answered
  <2> QED BY <1>1, <2>1, <2>2, <2>3, MovesOn, Zenon
<1>5. CASE ~(p.i <= Size)
  <2>1. p.found = Members
    BY <1>s, <1>2, <1>5
  <2> DEFINE s == [p EXCEPT !.pc = "Ticket"]
  <2>2. req'[r] = s /\ outcome'[r] = o
    BY <1>r, <1>s, <1>2, <1>3, <1>5, <2>1, Zenon
  <2>3. s.pc = "Ticket" /\ s.list = Members /\ s.pred = "eligible" /\ s.found = Members
    BY <1>2, <2>1
  <2> HIDE DEF s
  <2>4. Reads(s)
    BY <2>3, Zenon DEF Reads
  <2>5. Answered(s, o) /\ s.pc \notin {"Pick", "Lease"} /\ q.pc \notin {"Pick", "Lease"}
    BY <1>r, <1>1, <2>3, Zenon DEF Answered
  <2> QED BY <1>1, <2>2, <2>4, <2>5, MovesOn, Zenon
<1> QED BY <1>4, <1>5

(* fetch_add draws the ticket for the next member in rotation.             *)
LEMMA TicketBalances ==
    ASSUME NEW r \in Requests, Ready(r), Ticket(r)
    PROVE  Settled(r)' /\ Draws(r)
<1> DEFINE q == req[r]
           o == outcome[r]
<1>r. /\ Reads(q) /\ Answered(q, o) /\ DOMAIN req = Requests /\ DOMAIN outcome = Requests
      /\ kind = "RoundRobin" /\ healthy = Upstreams /\ enabled = Upstreams /\ cursor \in Nat
  BY Zenon DEF Ready, Settled
<1>s. Size \in Nat \ {0} /\ Front(Size) = Members /\ Members # <<>> /\ Len(Members) = Size
  BY SizeFact DEF Size
<1>1. /\ q.pc = "Ticket" /\ cursor' = (cursor + 1) % CursorMod /\ outcome' = outcome
      /\ req' = [req EXCEPT ![r] = PickPass(q, cursor % Len(q.found))]
  BY <1>r, Zenon DEF Ticket
<1>2. q.list = Members /\ q.pred = "eligible" /\ q.found = Members
  BY <1>r, <1>1, Zenon DEF Reads
<1>3. o.kind # "Upstream"
  BY <1>r, <1>1, Zenon DEF Answered
<1> DEFINE p == PickPass(q, cursor % Size)
<1>4. req'[r] = p /\ outcome'[r] = o
  BY <1>r, <1>s, <1>1, <1>2, Zenon
<1>5. /\ DOMAIN p = {"pc", "list", "pred", "i", "pick"}
      /\ p.pc = "Pick" /\ p.list = Members /\ p.pred = "eligible"
      /\ p.i = 1 /\ p.pick = cursor % Size
  BY <1>2, Zenon DEF PickPass
<1>6. cursor % Size \in 0..(Size - 1)
  BY <1>r, <1>s, Rotates, Zenon
<1> HIDE DEF p
<1>7. Reads(p) /\ Answered(p, o)
  BY <1>s, <1>3, <1>5, <1>6 DEF Reads, Answered
<1>8. \A n \in 1..Size : On(p, o, n) <=> n = (cursor % Size) + 1
  BY <1>s, <1>3, <1>5, <1>6 DEF On
<1>9. ~Has(q, o) /\ Has(p, o)
  BY <1>1, <1>3, <1>5, Zenon DEF Has
<1>10. \A n \in 1..Size : ~On(q, o, n)
  BY <1>1, <1>3, Zenon DEF On
<1> QED BY <1>1, <1>4, <1>7, <1>8, <1>9, <1>10, Zenon DEF Draws, Settled

(* The arithmetic of the second pass. *)
LEMMA Nearer ==
    ASSUME NEW m \in Nat, NEW i \in 1..m, NEW k \in Nat, i + k <= m
    PROVE  /\ k = 0 => i + k = i
           /\ k # 0 => /\ i < m /\ ~(k - 1 < 0) /\ i + 1 \in 1..m /\ k - 1 \in Nat
                       /\ (i + 1) + (k - 1) = i + k
OBVIOUS

(* The second pass walks to the member of the ticket.                      *)
LEMMA PickBalances ==
    ASSUME NEW r \in Requests, Ready(r), Pick(r)
    PROVE  Settled(r)' /\ Keeps(r)
<1> DEFINE q == req[r]
           o == outcome[r]
<1>r. /\ Reads(q) /\ Answered(q, o) /\ DOMAIN req = Requests /\ DOMAIN outcome = Requests
      /\ kind = "RoundRobin" /\ healthy = Upstreams /\ enabled = Upstreams /\ cursor \in Nat
  BY Zenon DEF Ready, Settled
<1>s. Size \in Nat \ {0} /\ Front(Size) = Members /\ Members # <<>> /\ Len(Members) = Size
  BY SizeFact DEF Size
<1>1. q.pc = "Pick" /\ cursor' = cursor
  BY Zenon DEF Pick
<1>2. /\ DOMAIN q = {"pc", "list", "pred", "i", "pick"}
      /\ q.list = Members /\ q.pred = "eligible"
      /\ q.i \in 1..Size /\ q.pick \in Nat /\ q.i + q.pick <= Size
  BY <1>r, <1>1, Zenon DEF Reads
<1>3. Passes(q.pred, Members[q.i]) /\ o.kind # "Upstream"
  BY <1>r, <1>1, <1>2, SizeFact, Zenon DEF Passes, IsEligible, Answered
<1>4. IF q.pick - 1 < 0 THEN Chosen(r, Members[q.i])
      ELSE IF q.i < Size
           THEN /\ req' = [req EXCEPT ![r] = [q EXCEPT !.i = q.i + 1, !.pick = q.pick - 1]]
                /\ outcome' = outcome
      ELSE NoneChosen(r)
  BY <1>s, <1>2, <1>3, Zenon DEF Pick
<1>n. /\ q.pick = 0 => q.i + q.pick = q.i
      /\ q.pick # 0 => /\ q.i < Size /\ ~(q.pick - 1 < 0) /\ q.i + 1 \in 1..Size
                        /\ q.pick - 1 \in Nat /\ (q.i + 1) + (q.pick - 1) = q.i + q.pick
  <2>1. PICK i, k : i = q.i /\ k = q.pick
    BY Zenon
  <2>2. i \in 1..Size /\ k \in Nat /\ i + k <= Size /\ Size \in Nat
    BY <1>s, <1>2, <2>1, Zenon
  <2> HIDE DEF q
  <2> QED BY <2>1, <2>2, Nearer
<1>5. CASE q.pick = 0
  <2> DEFINE p == [pc |-> "Lease", upstream |-> Members[q.i], pred |-> q.pred]
  <2>1. req'[r] = p /\ outcome'[r] = o
    BY <1>r, <1>4, <1>5 DEF Chosen
  <2>2. p.pc = "Lease" /\ p.upstream = Members[q.i]
    BY Zenon
  <2> HIDE DEF p
  <2>3. Reads(p) /\ Answered(p, o)
    BY <1>2, <1>3, <2>2, SizeFact, Zenon DEF Reads, Answered
  <2>4. \A n \in 1..Size : On(p, o, n) <=> On(q, o, n)
    <3>1. q.i + q.pick = q.i /\ q.pc # "Lease" /\ p.pc # "Pick"
      <4>1. q.i + q.pick = q.i
        BY <1>5, <1>n, Zenon
      <4> QED BY <1>1, <2>2, <4>1
    <3>2. \A n \in 1..Size : Members[q.i] = Members[n] <=> q.i = n
      BY <1>2, SizeFact, Zenon
    <3> QED BY <1>1, <1>3, <2>2, <3>1, <3>2, Zenon DEF On
  <2>5. Has(p, o) <=> Has(q, o)
    BY <1>1, <2>2, Zenon DEF Has
  <2> QED BY <1>1, <2>1, <2>3, <2>4, <2>5, Landing, Zenon
<1>6. CASE q.pick # 0
  <2> DEFINE p == [q EXCEPT !.i = q.i + 1, !.pick = q.pick - 1]
  <2>1. /\ q.i < Size /\ ~(q.pick - 1 < 0) /\ q.i + 1 \in 1..Size /\ q.pick - 1 \in Nat
        /\ (q.i + 1) + (q.pick - 1) = q.i + q.pick
    BY <1>6, <1>n, Zenon
  <2>2. req'[r] = p /\ outcome'[r] = o
    BY <1>r, <1>4, <2>1, Zenon
  <2>3. /\ DOMAIN p = {"pc", "list", "pred", "i", "pick"} /\ p.pc = "Pick"
        /\ p.list = Members /\ p.pred = "eligible" /\ p.i = q.i + 1 /\ p.pick = q.pick - 1
    BY <1>1, <1>2, Zenon
  <2> HIDE DEF p
  <2>4. Reads(p) /\ Answered(p, o)
    <3>1. p.i \in 1..Size /\ p.pick \in Nat /\ p.i + p.pick <= Size
      BY <1>2, <2>1, <2>3, Zenon
    <3> QED BY <1>3, <2>3, <3>1, Zenon DEF Reads, Answered
  <2>5. \A n \in 1..Size : On(p, o, n) <=> On(q, o, n)
    BY <1>1, <1>3, <2>1, <2>3, Zenon DEF On
  <2>6. Has(p, o) <=> Has(q, o)
    BY <1>1, <2>3, Zenon DEF Has
  <2> QED BY <1>1, <2>2, <2>4, <2>5, <2>6, Landing, Zenon
<1> QED BY <1>5, <1>6, Zenon

(* The lease is taken on the member of the ticket.                         *)
LEMMA TakeLeaseBalances ==
    ASSUME NEW r \in Requests, Ready(r), TakeLease(r)
    PROVE  Settled(r)' /\ Keeps(r)
<1> DEFINE q == req[r]
           o == outcome[r]
<1>r. /\ Reads(q) /\ Answered(q, o) /\ DOMAIN req = Requests /\ DOMAIN outcome = Requests
      /\ kind = "RoundRobin" /\ healthy = Upstreams /\ enabled = Upstreams /\ cursor \in Nat
  BY Zenon DEF Ready, Settled
<1> DEFINE out == [kind |-> "Upstream", upstream |-> q.upstream, reason |-> Reason(q.pred)]
<1>1. q.pc = "Lease" /\ cursor' = cursor /\ Finish(r, out)
  BY Zenon DEF TakeLease
<1> DEFINE p == [pc |-> "Done"]
<1>2. req'[r] = p /\ outcome'[r] = out /\ p.pc = "Done"
  BY <1>r, <1>1, Zenon DEF Finish
<1>3. out.kind = "Upstream" /\ out.upstream = q.upstream
  BY Zenon
<1>4. q.upstream \in Upstreams /\ o.kind # "Upstream"
  BY <1>r, <1>1, Zenon DEF Reads, Answered
<1> HIDE DEF out, p
<1>5. Reads(p) /\ Answered(p, out)
  BY <1>2, <1>3, <1>4, Zenon DEF Reads, Answered
<1>6. Has(p, out) <=> Has(q, o)
  BY <1>1, <1>3, Zenon DEF Has
<1>7. \A n \in 1..Size : On(p, out, n) <=> On(q, o, n)
  BY <1>1, <1>2, <1>3, <1>4, Zenon DEF On
<1> QED BY <1>1, <1>2, <1>5, <1>6, <1>7, Landing, Zenon

(* A lease given back leaves the answer.                                   *)
LEMMA ReleaseBalances ==
    ASSUME NEW r \in Requests, Ready(r), Release(r)
    PROVE  Settled(r)' /\ Keeps(r)
<1> DEFINE q == req[r]
           o == outcome[r]
<1>r. /\ Reads(q) /\ Answered(q, o) /\ DOMAIN req = Requests /\ DOMAIN outcome = Requests
      /\ kind = "RoundRobin" /\ healthy = Upstreams /\ enabled = Upstreams /\ cursor \in Nat
  BY Zenon DEF Ready, Settled
<1>1. q.pc = "Done" /\ cursor' = cursor /\ req'[r].pc = "Closed" /\ outcome'[r] = o
  BY <1>r, Zenon DEF Release
<1>2. Settled(r)'
  BY <1>r, <1>1, Zenon DEF Settled, Reads, Answered
<1> QED BY <1>1, <1>2, Zenon DEF Keeps, Has, On

(* A step of a request in a group that does not change. *)
LEMMA StepBalances ==
    ASSUME NEW r \in Requests, Ready(r), RequestStep(r)
    PROVE  Settled(r)' /\ (Keeps(r) \/ Draws(r))
<1>1. ~FilterEnabled(r) /\ ~ScanFirst(r) /\ ~ScanLoads(r)
  BY Zenon DEF FilterEnabled, ScanFirst, ScanLoads, Ready, Settled, Reads
<1> QED
  BY <1>1, RouteBalances, FilterBalances, ScanCountBalances, TicketBalances, PickBalances,
     TakeLeaseBalances, ReleaseBalances, Zenon DEF RequestStep

(* A request other than r keeps its state and its answer in a step of r. *)
LEMMA OthersStay ==
    ASSUME Types, NEW r \in Requests, Good(r), RequestStep(r)
    PROVE  /\ \A p \in Requests \ {r} : req'[p] = req[p] /\ outcome'[p] = outcome[p]
           /\ DOMAIN req' = Requests /\ DOMAIN outcome' = Requests
           /\ kind' = kind /\ healthy' = healthy /\ enabled' = enabled /\ changes' = changes
<1>1. changes' = changes
  BY Zenon DEF RequestStep, Route, Filter, FilterEnabled, ScanFirst, ScanCount, ScanLoads, Ticket,
     Pick, TakeLease, Release
<1>2. DOMAIN req = Requests /\ DOMAIN outcome = Requests
  BY Zenon DEF Types
<1>3. ASSUME NEW q, req' = [req EXCEPT ![r] = q], NEW out,
             outcome' = outcome \/ outcome' = [outcome EXCEPT ![r] = out]
      PROVE  /\ \A p \in Requests \ {r} : req'[p] = req[p] /\ outcome'[p] = outcome[p]
             /\ DOMAIN req' = Requests /\ DOMAIN outcome' = Requests
  BY <1>2, <1>3, Zenon
<1>4. CASE Route(r)
  <2>1. RouteAnswers(r) \/ RouteBegins(r)
    BY <1>4, RouteCases, Zenon
  <2> QED BY <1>1, <1>3, <2>1, Zenon DEF RouteAnswers, RouteBegins, Kept, Finish
<1>5. CASE Progress(r)
  BY <1>1, <1>3, <1>5, ProgressStep, Zenon DEF Kept, Moving, Answering, Finish
<1>6. CASE Release(r)
  <2>1. kind' = kind /\ healthy' = healthy /\ enabled' = enabled
    BY <1>6, Zenon DEF Release, memberVars, group
  <2> QED BY <1>1, <1>3, <1>6, <2>1, Zenon DEF Release
<1> QED BY <1>4, <1>5, <1>6, Zenon DEF RequestStep, Progress

(* Keeping its ticket, a request leaves the shares of the members alone. *)
LEMMA KeepsEven ==
    ASSUME NEW r \in Requests, Keeps(r),
           \A p \in Requests \ {r} : req'[p] = req[p] /\ outcome'[p] = outcome[p]
    PROVE  Ticketed' = Ticketed /\ \A n \in 1..Size : Assigned(n)' = Assigned(n)
<1>1. ASSUME NEW p \in Requests PROVE Has(req'[p], outcome'[p]) <=> Has(req[p], outcome[p])
  BY Zenon DEF Keeps
<1>2. ASSUME NEW p \in Requests, NEW n \in 1..Size
      PROVE  On(req'[p], outcome'[p], n) <=> On(req[p], outcome[p], n)
  BY Zenon DEF Keeps
<1> QED BY <1>1, <1>2, Zenon DEF Ticketed, Assigned

(* Drawing a ticket, it adds itself to the share of one member. *)
LEMMA DrawsOne ==
    ASSUME NEW r \in Requests, Draws(r),
           \A p \in Requests \ {r} : req'[p] = req[p] /\ outcome'[p] = outcome[p]
    PROVE  /\ r \notin Ticketed /\ Ticketed' = Ticketed \cup {r}
           /\ \A n \in 1..Size :
                 /\ r \notin Assigned(n)
                 /\ Assigned(n)' = IF n = (cursor % Size) + 1 THEN Assigned(n) \cup {r}
                                                             ELSE Assigned(n)
<1>1. \A p \in Requests : Has(req'[p], outcome'[p]) <=> Has(req[p], outcome[p]) \/ p = r
  BY Zenon DEF Draws
<1>2. ASSUME NEW n \in 1..Size
      PROVE  \A p \in Requests : On(req'[p], outcome'[p], n) <=>
                On(req[p], outcome[p], n) \/ (p = r /\ n = (cursor % Size) + 1)
  BY Zenon DEF Draws
<1>3. r \notin Ticketed /\ Ticketed' = Ticketed \cup {r}
  BY <1>1, Zenon DEF Ticketed, Draws
<1>4. ASSUME NEW n \in 1..Size
      PROVE  /\ r \notin Assigned(n)
             /\ Assigned(n)' = IF n = (cursor % Size) + 1 THEN Assigned(n) \cup {r}
                                                          ELSE Assigned(n)
  <2>1. r \notin Assigned(n)
    BY Zenon DEF Assigned, Draws
  <2> QED BY <1>2, <2>1, Zenon DEF Assigned
<1> QED BY <1>3, <1>4, Zenon

(* The shares f of m members when c tickets are out, and g when one more   *)
(* is.                                                                     *)
Dealt(f, m, c) ==
    \E least \in Nat : \A n \in 1..m : f[n] = least + (IF n <= c % m THEN 1 ELSE 0)

OneMore(f, g, m, c) == \A n \in 1..m : g[n] = f[n] + (IF n = (c % m) + 1 THEN 1 ELSE 0)

(* One more ticket keeps the shares even: the next member in rotation gets *)
(* it.                                                                     *)
LEMMA OneMoreIsEven ==
    ASSUME NEW f, NEW g, NEW m \in Nat \ {0}, NEW c \in Nat,
           Dealt(f, m, c), OneMore(f, g, m, c)
    PROVE  Dealt(g, m, c + 1)
<1> DEFINE s == c % m
           t == (c + 1) % m
<1>1. s \in 0..(m - 1) /\ t = IF s = m - 1 THEN 0 ELSE s + 1
  BY Rotates, Zenon
<1>2. PICK least \in Nat : \A n \in 1..m : f[n] = least + (IF n <= s THEN 1 ELSE 0)
  BY Zenon DEF Dealt
<1>3. \A n \in 1..m : g[n] = f[n] + (IF n = s + 1 THEN 1 ELSE 0)
  BY Zenon DEF OneMore
<1> SUFFICES \E most \in Nat : \A n \in 1..m : g[n] = most + (IF n <= t THEN 1 ELSE 0)
  BY Zenon DEF Dealt
<1> HIDE DEF s, t
<1>4. CASE s = m - 1
  <2>1. \A n \in 1..m : g[n] = (least + 1) + (IF n <= t THEN 1 ELSE 0)
    BY <1>1, <1>2, <1>3, <1>4
  <2>2. least + 1 \in Nat
    BY <1>2
  <2> QED BY <2>1, <2>2, Zenon
<1>5. CASE s # m - 1
  <2>1. \A n \in 1..m : g[n] = least + (IF n <= t THEN 1 ELSE 0)
    BY <1>1, <1>2, <1>3, <1>5
  <2> QED BY <1>2, <2>1, Zenon
<1> QED BY <1>4, <1>5, Zenon

(* The number of tickets drawn, and of those for each member, are numbers. *)
LEMMA SharesFact ==
    ASSUME IsFiniteSet(Requests)
    PROVE  /\ IsFiniteSet(Ticketed) /\ Served \in Nat /\ Served <= Cardinality(Requests)
           /\ \A n : IsFiniteSet(Assigned(n)) /\ Cardinality(Assigned(n)) \in Nat
<1>1. Ticketed \subseteq Requests /\ \A n : Assigned(n) \subseteq Requests
  BY Zenon DEF Ticketed, Assigned
<1> QED BY <1>1, FS_Subset, FS_CardinalityType, Zenon DEF Served

(* A ticket drawn keeps the shares even and the cursor in step with the    *)
(* number of tickets.                                                      *)
LEMMA DrawsEven ==
    ASSUME IsFiniteSet(Requests), Cardinality(Requests) <= CursorMod,
           Served < CursorMod => cursor = Served, Even, NEW r \in Requests, Draws(r),
           \A p \in Requests \ {r} : req'[p] = req[p] /\ outcome'[p] = outcome[p]
    PROVE  (Served < CursorMod => cursor = Served)' /\ Even'
<1> DEFINE f == [n \in 1..Size |-> Cardinality(Assigned(n))]
           g == [n \in 1..Size |-> Cardinality(Assigned(n)')]
<1>1. /\ IsFiniteSet(Ticketed) /\ Served \in Nat /\ Served <= Cardinality(Requests)
      /\ \A n : IsFiniteSet(Assigned(n)) /\ Cardinality(Assigned(n)) \in Nat
  BY SharesFact, Zenon
<1>2. r \notin Ticketed /\ Ticketed' = Ticketed \cup {r}
  BY DrawsOne, Zenon
<1>3. Served' = Served + 1
  BY <1>1, <1>2, FS_AddElement, Zenon DEF Served
<1>4. Served + 1 <= Cardinality(Requests)
  <2>1. Ticketed \cup {r} \subseteq Requests
    BY Zenon DEF Ticketed
  <2>2. Cardinality(Ticketed \cup {r}) = Served + 1
    BY <1>2, <1>3, Zenon DEF Served
  <2> QED BY <2>1, <2>2, FS_Subset
<1>5. Cardinality(Requests) \in Nat /\ CursorMod \in Nat \ {0} /\ Size \in Nat \ {0}
  BY FS_CardinalityType, RouterAssumption, SizeFact, Zenon
<1>6. cursor = Served
  BY <1>1, <1>4, <1>5
<1>7. Served' < CursorMod => cursor' = Served'
  <2>1. cursor' = (cursor + 1) % CursorMod
    BY Zenon DEF Draws
  <2> QED BY <1>1, <1>3, <1>5, <1>6, <2>1
<1>8. Dealt(f, Size, Served)
  BY Zenon DEF Even, Dealt
<1>9. ASSUME NEW n \in 1..Size PROVE g[n] = f[n] + (IF n = (Served % Size) + 1 THEN 1 ELSE 0)
  <2>1. /\ r \notin Assigned(n)
        /\ Assigned(n)' = IF n = (Served % Size) + 1 THEN Assigned(n) \cup {r} ELSE Assigned(n)
    BY <1>6, DrawsOne, Zenon
  <2>2. Cardinality(Assigned(n) \cup {r}) = Cardinality(Assigned(n)) + 1
    BY <1>1, <2>1, FS_AddElement, Zenon
  <2>3. CASE n = (Served % Size) + 1
    <3>1. g[n] = f[n] + 1
      BY <2>1, <2>2, <2>3, Zenon
    <3> HIDE DEF f, g
    <3> QED BY <2>3, <3>1, Zenon
  <2>4. CASE n # (Served % Size) + 1
    <3>1. g[n] = f[n] /\ f[n] \in Nat
      BY <1>1, <2>1, <2>4, Zenon
    <3> HIDE DEF f, g
    <3> QED BY <2>4, <3>1
  <2> QED BY <2>3, <2>4, Zenon
<1>10. OneMore(f, g, Size, Served)
  BY <1>9, Zenon DEF OneMore
<1>11. Even'
  <2> HIDE DEF f, g
  <2>1. Dealt(g, Size, Served')
    BY <1>1, <1>3, <1>5, <1>8, <1>10, OneMoreIsEven, Zenon
  <2> USE DEF g
  <2> QED BY <2>1, Zenon DEF Dealt, Even, Size
<1> QED BY <1>7, <1>11, Zenon

(* Every step keeps the balance. *)
LEMMA BalanceKept ==
    ASSUME IsFiniteSet(Requests), Cardinality(Requests) <= CursorMod,
           IInv, BalanceInv, [Next]_vars
    PROVE  BalanceInv'
<1>0. Types /\ \A r \in Requests : Good(r)
  BY Zenon DEF IInv
<1>t. DOMAIN req' = Requests /\ DOMAIN outcome' = Requests
  BY IInvInductive, Zenon DEF IInv, Types
<1>d. DOMAIN req = Requests /\ DOMAIN outcome = Requests
  BY Zenon DEF BalanceInv
<1>1. ASSUME NEW r \in Requests, RequestStep(r) PROVE BalanceInv'
  <2>1. /\ \A p \in Requests \ {r} : req'[p] = req[p] /\ outcome'[p] = outcome[p]
        /\ kind' = kind /\ healthy' = healthy /\ enabled' = enabled /\ changes' = changes
    BY <1>0, <1>1, OthersStay, Zenon
  <2>2. SUFFICES ASSUME kind = "RoundRobin", changes = 0 PROVE Calm'
    BY <1>t, <2>1, Zenon DEF BalanceInv
  <2>3. Calm
    BY <2>2, Zenon DEF BalanceInv
  <2>4. Settled(r)' /\ (Keeps(r) \/ Draws(r))
    BY <1>0, <1>1, <1>d, <2>2, <2>3, StepBalances, Zenon DEF Calm, Types, Ready
  <2>5. \A p \in Requests : Settled(p)'
    BY <2>1, <2>3, <2>4, Zenon DEF Calm, Settled
  <2>6. (Served < CursorMod => cursor = Served)' /\ Even'
    <3>1. CASE Keeps(r)
      <4>1. Ticketed' = Ticketed /\ \A n \in 1..Size : Assigned(n)' = Assigned(n)
        BY <2>1, <3>1, KeepsEven, Zenon
      <4>2. cursor' = cursor /\ Served' = Served
        BY <3>1, <4>1, Zenon DEF Keeps, Served
      <4> QED BY <2>3, <4>1, <4>2, Zenon DEF Calm, Even, Size
    <3>2. CASE Draws(r)
      BY <2>1, <2>3, <3>2, DrawsEven, Zenon DEF Calm
    <3> QED BY <2>4, <3>1, <3>2, Zenon
  <2> QED BY <2>1, <2>3, <2>5, <2>6, Zenon DEF Calm
<1>2. ASSUME NEW h, NEW e, Change(h, e) PROVE BalanceInv'
  <2>1. changes' = changes + 1 /\ changes \in Nat
    BY <1>2, Zenon DEF Change, BalanceInv
  <2>2. changes' \in Nat /\ changes' # 0
    BY <2>1
  <2> QED BY <1>t, <2>2, Zenon DEF BalanceInv
<1>3. CASE Explain \/ UNCHANGED vars
  <2>1. /\ req' = req /\ outcome' = outcome /\ healthy' = healthy /\ enabled' = enabled
        /\ kind' = kind /\ changes' = changes /\ (kind = "RoundRobin" => cursor' = cursor)
    BY <1>3, Zenon DEF Explain, CursorAfterPreview, memberVars, group, vars
  <2>2. Served' = Served /\ (Even' <=> Even)
    BY <2>1, Zenon DEF Served, Even, Ticketed, Assigned, Size
  <2>3. \A r \in Requests : Settled(r)' <=> Settled(r)
    BY <2>1, Zenon DEF Settled
  <2>4. kind = "RoundRobin" /\ Calm => Calm'
    BY <2>1, <2>2, <2>3, Zenon DEF Calm
  <2> QED BY <1>t, <2>1, <2>4, Zenon DEF BalanceInv
<1>4. CASE \E r \in Requests : Route(r) \/ Progress(r) \/ Release(r)
  BY <1>1, <1>4, Zenon DEF RequestStep, Progress
<1> QED BY <1>2, <1>3, <1>4, StepCases, Zenon

(* At first nobody has a ticket. *)
LEMMA BalanceInit ==
    ASSUME Init PROVE BalanceInv
<1>1. /\ changes = 0 /\ DOMAIN req = Requests /\ DOMAIN outcome = Requests
      /\ healthy = Upstreams /\ enabled = Upstreams /\ cursor = 0
  BY Zenon DEF Init
<1>2. \A r \in Requests : req[r].pc = "Idle" /\ outcome[r].kind = "None"
  BY Zenon DEF Init, Idle
<1>3. Ticketed = {} /\ \A n : Assigned(n) = {}
  BY <1>2, Zenon DEF Ticketed, Assigned, Has, On
<1>4. Served = 0 /\ \A n : Cardinality(Assigned(n)) = 0
  BY <1>3, FS_EmptySet, Zenon DEF Served
<1>5. Even
  <2>1. Size \in Nat \ {0} /\ 0 % Size = 0
    BY SizeFact
  <2>2. \A n \in 1..Size : Cardinality(Assigned(n)) = 0 + (IF n <= Served % Size THEN 1 ELSE 0)
    BY <1>4, <2>1
  <2> QED BY <2>2, Zenon DEF Even
<1>6. \A r \in Requests : Settled(r)
  BY <1>2, Zenon DEF Settled, Reads, Answered
<1> QED BY <1>1, <1>4, <1>5, <1>6, Zenon DEF BalanceInv, Calm

(* RoundRobin spreads the requests evenly: as long as the members stay as  *)
(* they are, and once nobody is choosing, any two members of the group     *)
(* were given numbers of requests that differ by at most one, however the  *)
(* scans, the fetch_adds and the previews of any number of requests were   *)
(* interleaved.  The cursor does not wrap: there are at most CursorMod     *)
(* (2^64) requests.  Past that a group whose size does not divide          *)
(* CursorMod repeats some of its members early.                            *)
THEOREM RoundRobinStaysBalanced ==
    ASSUME IsFiniteSet(Requests), Cardinality(Requests) <= CursorMod
    PROVE  Spec => []RoundRobinBalanced
<1>1. Init => IInv /\ BalanceInv
  BY IInvInductive, BalanceInit
<1>2. IInv /\ BalanceInv /\ [Next]_vars => (IInv /\ BalanceInv)'
  BY IInvInductive, BalanceKept, Zenon
<1>3. ASSUME BalanceInv PROVE RoundRobinBalanced
  <2>1. SUFFICES ASSUME kind = "RoundRobin", changes = 0, \A r \in Requests : ~Running(r),
                        NEW u \in Upstreams, NEW v \in Upstreams
                 PROVE  Routed(u) - Routed(v) <= 1
    BY Zenon DEF RoundRobinBalanced
  <2>2. Calm
    BY <1>3, <2>1, Zenon DEF BalanceInv
  <2>3. ASSUME NEW n \in 1..Size PROVE Routed(Members[n]) = Cardinality(Assigned(n))
    <3>1. \A r \in Requests : req[r].pc \in {"Idle", "Done", "Closed"}
      BY <2>1, Zenon DEF Running
    <3>2. Assigned(n) = {r \in Requests : outcome[r].kind = "Upstream"
                                          /\ outcome[r].upstream = Members[n]}
      BY <3>1, Zenon DEF Assigned, On
    <3> QED BY <3>2, Zenon DEF Routed
  <2>4. PICK least \in Nat : \A n \in 1..Size :
           Cardinality(Assigned(n)) = least + (IF n <= Served % Size THEN 1 ELSE 0)
    BY <2>2, Zenon DEF Calm, Even
  <2>5. PICK a \in 1..Size : u = Members[a]
    BY MembersFact, Zenon DEF Size
  <2>6. PICK b \in 1..Size : v = Members[b]
    BY MembersFact, Zenon DEF Size
  <2>7. Routed(u) = Cardinality(Assigned(a)) /\ Routed(v) = Cardinality(Assigned(b))
    BY <2>3, <2>5, <2>6, Zenon
  <2> QED BY <2>4, <2>7
<1> QED BY <1>1, <1>2, <1>3, PTL DEF Spec
=============================================================================
