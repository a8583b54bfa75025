------------------------------- MODULE Router -------------------------------
(***************************************************************************)
(* Route selection: Router::decide, Router::select, Router::explain and    *)
(* the four schedulers of eggress-routing/src/{router,scheduler,explain}.rs*)
(*                                                                         *)
(* route() is synchronous but shares the members with the health probes    *)
(* and with other requests on other threads, so every read of a member's   *)
(* eligibility is a step of its own.  A request reads it once to collect   *)
(* the candidates, once more in the scheduler and, for RoundRobin and      *)
(* Random, a third time to pick.  is_eligible's two relaxed loads are      *)
(* taken as one read, and so is current_load (UpstreamLease tells its two  *)
(* loads apart).                                                           *)
(***************************************************************************)
EXTENDS Integers, Sequences, FiniteSets, Functions

CONSTANTS
    Members,    \* UpstreamGroup.members, in order
    Kinds,      \* the schedulers a group may be configured with
    Fallbacks,  \* the fallbacks a group may be configured with
    Rules,      \* CompiledRules in order: [matches |-> set of classes, action]
    Default,    \* default_action
    Requests,   \* route() calls; each runs once
    Classes,    \* kinds of request the rules tell apart
    MaxChanges, \* bound: health and enabled changes
    CursorMod   \* where the scheduler cursor wraps (2^64)

Actions == {"Direct", "Reject", "Group", "MissingGroup"}

ASSUME RouterAssumption ==
    /\ Kinds \subseteq {"FirstAvailable", "RoundRobin", "Random", "LeastConnections"}
    /\ Fallbacks \subseteq {"Reject", "Direct", "UseUnhealthy"}
    /\ Members \in Seq(Range(Members)) /\ Len(Members) > 0 /\ IsInjective(Members)
    /\ Default \in Actions
    /\ CursorMod \in Nat \ {0}

Upstreams == Range(Members)

VARIABLES
    kind,         \* UpstreamGroup.scheduler_kind, fixed by the configuration
    fallback,     \* UpstreamGroup.fallback, fixed by the configuration
    healthy,      \* members whose published HealthState is eligible
    enabled,      \* members whose enabled flag is set
    load,         \* current_load of each member
    cursor,       \* the scheduler's AtomicU64
    req,          \* each request's position in route()
    outcome,      \* each request's result
    everUp, everDown, everEnabled,  \* history: see RouteSelection
    alone,        \* history: nothing else moved since the request began
    changes       \* number of changes made, for the bound

group == <<kind, fallback>>
memberVars == <<healthy, enabled, group>>
history == <<everUp, everDown, everEnabled, alone>>
vars == <<kind, fallback, healthy, enabled, load, cursor, req, outcome, everUp, everDown, everEnabled,
          alone, changes>>

IsEligible(u) == u \in healthy \cap enabled
Passes(pred, u) == IF pred = "enabled" THEN u \in enabled ELSE IsEligible(u)

Idle == [pc |-> "Idle"]
Running(r) == req[r].pc \notin {"Idle", "Done", "Closed"}

(* A fresh pass over list; found collects the members that pass.           *)
Pass(pc, list, pred) == [pc |-> pc, list |-> list, pred |-> pred, i |-> 1, found |-> <<>>]
-----------------------------------------------------------------------------
(* Router::decide: the first rule that matches, else the default action.   *)
Decide(class) ==
    LET hits == {n \in 1..Len(Rules) : class \in Rules[n].matches}
    IN  IF hits = {} THEN Default
        ELSE Rules[CHOOSE n \in hits : \A m \in hits : n <= m].action

Finish(r, out) ==
    /\ req' = [req EXCEPT ![r] = [pc |-> "Done"]]
    /\ outcome' = [outcome EXCEPT ![r] = out]

(* The scheduler chose u; the lease is taken in a step of its own.         *)
Chosen(r, u) ==
    /\ req' = [req EXCEPT ![r] = [pc |-> "Lease", upstream |-> u, pred |-> req[r].pred]]
    /\ UNCHANGED outcome

(* The scheduler returned None: an error in the normal case, the first     *)
(* enabled member under the use-unhealthy fallback.                        *)
NoneChosen(r) ==
    IF req[r].pred = "enabled" THEN Chosen(r, req[r].list[1])
                               ELSE Finish(r, [kind |-> "NoEligible"])

Init ==
    /\ kind \in Kinds
    /\ fallback \in Fallbacks
    /\ healthy = Upstreams
    /\ enabled = Upstreams
    /\ load = [u \in Upstreams |-> 0]
    /\ cursor = 0
    /\ req = [r \in Requests |-> Idle]
    /\ outcome = [r \in Requests |-> [kind |-> "None"]]
    /\ everUp = [r \in Requests |-> {}]
    /\ everDown = [r \in Requests |-> {}]
    /\ everEnabled = [r \in Requests |-> {}]
    /\ alone = [r \in Requests |-> FALSE]
    /\ changes = 0

(* route(): decide, then the arms of select that need no group member.     *)
Route(r) ==
    /\ req[r] = Idle
    /\ \E class \in Classes :
         LET action == Decide(class)
         IN  \/ /\ action = "Direct" /\ Finish(r, [kind |-> "Direct"])
                /\ UNCHANGED history
             \/ /\ action = "Reject" /\ Finish(r, [kind |-> "Rejected"])
                /\ UNCHANGED history
             \/ /\ action = "MissingGroup" /\ Finish(r, [kind |-> "UnknownGroup"])
                /\ UNCHANGED history
             \/ /\ action = "Group"
                /\ req' = [req EXCEPT ![r] = Pass("Filter", Members, "eligible")]
                /\ everUp' = [everUp EXCEPT ![r] = healthy \cap enabled]
                /\ everDown' = [everDown EXCEPT ![r] = Upstreams \ (healthy \cap enabled)]
                /\ everEnabled' = [everEnabled EXCEPT ![r] = enabled]
                /\ alone' = [p \in Requests |-> p = r /\ \A o \in Requests : ~Running(o)]
                /\ UNCHANGED outcome
    /\ UNCHANGED <<memberVars, load, cursor, changes>>

(* One read of a pass: the state of the pass afterwards.                   *)
Read(q) ==
    LET u == q.list[q.i]
    IN  [q EXCEPT !.i = @ + 1, !.found = IF Passes(q.pred, u) THEN Append(@, u) ELSE @]

(* As AfterFilter, with the group's fallback ignored. *)
AfterFilterDirect(r, found) ==
    IF found # <<>> THEN
        /\ req' = [req EXCEPT ![r] = Pass("Scan", found, "eligible")]
        /\ UNCHANGED outcome
    ELSE Finish(r, [kind |-> "DirectFallback"])

(* As AfterFilter, with a group that serves only when all members are up. *)
AfterFilterAll(r, found) ==
    IF found = Members THEN
        /\ req' = [req EXCEPT ![r] = Pass("Scan", found, "eligible")]
        /\ UNCHANGED outcome
    ELSE Finish(r, [kind |-> "NoEligible"])

(* What select does once the candidates are collected: schedule among      *)
(* them, or apply the group's fallback.                                    *)
AfterFilter(r, found) ==
    IF found # <<>> THEN
        /\ req' = [req EXCEPT ![r] = Pass("Scan", found, "eligible")]
        /\ UNCHANGED outcome
    ELSE
        \/ /\ fallback = "Reject"
           /\ Finish(r, [kind |-> "NoEligible"])
        \/ /\ fallback = "Direct"
           /\ Finish(r, [kind |-> "DirectFallback"])
        \/ /\ fallback = "UseUnhealthy"
           /\ req' = [req EXCEPT ![r] = Pass("FilterEnabled", Members, "enabled")]
           /\ UNCHANGED outcome

(* select: one member of the group is tested with is_eligible. *)
Filter(r) ==
    /\ req[r].pc = "Filter"
    /\ LET q == Read(req[r])
       IN  IF q.i <= Len(q.list)
           THEN req' = [req EXCEPT ![r] = q] /\ UNCHANGED outcome
           ELSE AfterFilter(r, q.found)
    /\ UNCHANGED <<memberVars, load, cursor, history, changes>>

(* select, use-unhealthy: one member of the group is tested with           *)
(* is_enabled; with none enabled there is no upstream at all.              *)
FilterEnabled(r) ==
    /\ req[r].pc = "FilterEnabled"
    /\ LET q == Read(req[r])
       IN  IF q.i <= Len(q.list)
           THEN req' = [req EXCEPT ![r] = q] /\ UNCHANGED outcome
           ELSE IF q.found = <<>> THEN Finish(r, [kind |-> "NoEligible"])
           ELSE req' = [req EXCEPT ![r] = Pass("Scan", q.found, "enabled")] /\ UNCHANGED outcome
    /\ UNCHANGED <<memberVars, load, cursor, history, changes>>
-----------------------------------------------------------------------------
(* FirstAvailable: the first member that passes now. *)
ScanFirst(r) ==
    /\ req[r].pc = "Scan" /\ kind = "FirstAvailable"
    /\ LET q == Read(req[r])
       IN  IF q.found # <<>> THEN Chosen(r, q.found[1])
           ELSE IF q.i <= Len(q.list) THEN req' = [req EXCEPT ![r] = q] /\ UNCHANGED outcome
           ELSE NoneChosen(r)
    /\ UNCHANGED <<memberVars, load, cursor, history, changes>>

(* RoundRobin and Random: count the members that pass. *)
ScanCount(r) ==
    /\ req[r].pc = "Scan" /\ kind \in {"RoundRobin", "Random"}
    /\ LET q == Read(req[r])
       IN  IF q.i <= Len(q.list) THEN req' = [req EXCEPT ![r] = q] /\ UNCHANGED outcome
           ELSE IF q.found = <<>> THEN NoneChosen(r)
           ELSE req' = [req EXCEPT ![r] = [q EXCEPT !.pc = "Ticket"]] /\ UNCHANGED outcome
    /\ UNCHANGED <<memberVars, load, cursor, history, changes>>

(* As LeastLoaded, with the loads left out of account. *)
AnyLoaded(loads) == DOMAIN loads

(* The places of the loads snapshot with the least load. *)
LeastLoaded(loads) ==
    {i \in DOMAIN loads : \A j \in DOMAIN loads : loads[i][2] <= loads[j][2]}

(* Ticket n falls on place i: the n-th, in rotation, of the tied ones. *)
FallsOn(n, i, tied) ==
    i \in tied /\ Cardinality({j \in tied : j < i}) = n % Cardinality(tied)

(* LeastConnections: one member is tested and its load recorded. *)
ScanLoads(r) ==
    /\ req[r].pc = "Scan" /\ kind = "LeastConnections"
    /\ LET q == req[r]
           u == q.list[q.i]
           found == IF Passes(q.pred, u) THEN Append(q.found, <<u, load[u]>>) ELSE q.found
           next == [q EXCEPT !.i = @ + 1, !.found = found]
       IN  IF next.i <= Len(q.list) THEN req' = [req EXCEPT ![r] = next] /\ UNCHANGED outcome
           ELSE IF found = <<>> THEN NoneChosen(r)
           ELSE req' = [req EXCEPT ![r] = [next EXCEPT !.pc = "Ticket"]] /\ UNCHANGED outcome
    /\ UNCHANGED <<memberVars, load, cursor, history, changes>>

(* A second pass that picks the n-th member that passes now. *)
PickPass(q, n) == [pc |-> "Pick", list |-> q.list, pred |-> q.pred, i |-> 1, pick |-> n]

(* As Ticket, with a load of the cursor in place of the fetch_add. *)
TicketLoad(r) ==
    /\ req[r].pc = "Ticket"
    /\ req' = [req EXCEPT ![r] = PickPass(req[r], cursor % Len(req[r].found))]
    /\ UNCHANGED <<memberVars, cursor, outcome, load, history, changes>>

(* fetch_add on the cursor (or one call of the random generator).          *)
Ticket(r) ==
    /\ req[r].pc = "Ticket"
    /\ LET q == req[r]
       IN  \/ /\ kind = "RoundRobin"
              /\ cursor' = (cursor + 1) % CursorMod
              /\ req' = [req EXCEPT ![r] = PickPass(q, cursor % Len(q.found))]
              /\ UNCHANGED outcome
           \/ /\ kind = "Random"
              /\ \E n \in 0..(Len(q.found) - 1) : req' = [req EXCEPT ![r] = PickPass(q, n)]
              /\ UNCHANGED <<cursor, outcome>>
           \/ /\ kind = "LeastConnections"
              /\ cursor' = (cursor + 1) % CursorMod
              /\ \E i \in DOMAIN q.found :
                   FallsOn(cursor, i, LeastLoaded(q.found)) /\ Chosen(r, q.found[i][1])
    /\ UNCHANGED <<memberVars, load, history, changes>>

(* RoundRobin and Random: eligibility is read again; the member on which   *)
(* pick reaches zero is returned, None if the pass runs out of members.    *)
Pick(r) ==
    /\ req[r].pc = "Pick"
    /\ LET q == req[r]
           u == q.list[q.i]
           pick == IF Passes(q.pred, u) THEN q.pick - 1 ELSE q.pick
       IN  IF pick < 0 THEN Chosen(r, u)
           ELSE IF q.i < Len(q.list)
                THEN /\ req' = [req EXCEPT ![r] = [q EXCEPT !.i = @ + 1, !.pick = pick]]
                     /\ UNCHANGED outcome
           ELSE NoneChosen(r)
    /\ UNCHANGED <<memberVars, load, cursor, history, changes>>

Reason(pred) == IF pred = "enabled" THEN "UnhealthyFallback" ELSE "Normal"

(* PendingLease::new on the chosen member, then route() returns. *)
TakeLease(r) ==
    /\ req[r].pc = "Lease"
    /\ LET u == req[r].upstream
       IN  /\ load' = [load EXCEPT ![u] = @ + 1]
           /\ Finish(r, [kind |-> "Upstream", upstream |-> u, reason |-> Reason(req[r].pred)])
    /\ UNCHANGED <<memberVars, cursor, history, changes>>

(* The connection ends: its lease is dropped. *)
Release(r) ==
    /\ req[r].pc = "Done"
    /\ outcome[r].kind = "Upstream"
    /\ load' = [load EXCEPT ![outcome[r].upstream] = @ - 1]
    /\ req' = [req EXCEPT ![r] = [pc |-> "Closed"]]
    /\ alone' = [p \in Requests |-> FALSE]
    /\ UNCHANGED <<memberVars, cursor, outcome, everUp, everDown, everEnabled, changes>>
-----------------------------------------------------------------------------
(* As CursorAfterPreview, with every scheduler on the default preview. *)
CursorAfterSelect == (cursor + 1) % CursorMod

(* Scheduler::preview on the candidates: only LeastConnections, which does *)
(* not override it, goes through select and advances the cursor.           *)
CursorAfterPreview ==
    IF kind = "LeastConnections" /\ healthy \cap enabled # {}
    THEN (cursor + 1) % CursorMod ELSE cursor

(* Router::explain, from the admin endpoint or the CLI. *)
Explain ==
    /\ cursor' = CursorAfterPreview
    /\ UNCHANGED <<memberVars, load, req, outcome, history, changes>>

(* The members change under the requests in progress. *)
Change(h, e) ==
    /\ changes < MaxChanges
    /\ changes' = changes + 1
    /\ healthy' = h
    /\ enabled' = e
    /\ everUp' = [r \in Requests |->
         IF Running(r) THEN everUp[r] \cup (h \cap e) ELSE everUp[r]]
    /\ everDown' = [r \in Requests |->
         IF Running(r) THEN everDown[r] \cup (Upstreams \ (h \cap e)) ELSE everDown[r]]
    /\ everEnabled' = [r \in Requests |->
         IF Running(r) THEN everEnabled[r] \cup e ELSE everEnabled[r]]
    /\ alone' = [r \in Requests |-> FALSE]
    /\ UNCHANGED <<group, load, cursor, req, outcome>>

(* A probe publishes a state on the other side of eligibility. *)
HealthChange(u) ==
    Change(IF u \in healthy THEN healthy \ {u} ELSE healthy \cup {u}, enabled)

(* UpstreamRuntime::set_enabled *)
SetEnabled(u) ==
    Change(healthy, IF u \in enabled THEN enabled \ {u} ELSE enabled \cup {u})

RequestStep(r) ==
    \/ Route(r) \/ Filter(r) \/ FilterEnabled(r) \/ ScanFirst(r) \/ ScanCount(r)
    \/ ScanLoads(r) \/ Ticket(r) \/ Pick(r) \/ TakeLease(r) \/ Release(r)

Next ==
    \/ \E r \in Requests : RequestStep(r)
    \/ \E u \in Upstreams : HealthChange(u) \/ SetEnabled(u)
    \/ Explain

Spec == Init /\ [][Next]_vars
-----------------------------------------------------------------------------
phase == [r \in Requests |->
            IF req[r].pc = "Idle" THEN "Idle"
            ELSE IF Running(r) THEN "Choosing" ELSE "Done"]

Selection == INSTANCE RouteSelection WITH
                 phase <- phase,
                 outcome <- outcome,
                 everUp <- everUp,
                 everDown <- everDown,
                 everEnabled <- everEnabled

(* Every outcome is justified by the window of the request: a normal       *)
(* selection was eligible at some moment of it, a direct or unhealthy      *)
(* fallback found every member ineligible at some moment (Router::select). *)
ImplementsSelection == Selection!Spec

(* With a scheduler that reads its candidates in one pass, a request fails *)
(* for lack of an upstream only if every member was ineligible at some     *)
(* moment of it: one member that is up throughout is enough to be served.  *)
(* RoundRobin and Random count in one pass and pick in a second, and do    *)
(* not have this property.                                                 *)
ErrorMeansAllDown ==
    kind \in {"FirstAvailable", "LeastConnections"} =>
        \A r \in Requests : outcome[r].kind = "NoEligible" => everDown[r] = Upstreams

Routed(u) == Cardinality({r \in Requests : outcome[r].kind = "Upstream" /\ outcome[r].upstream = u})

(* RoundRobin spreads requests evenly although they run concurrently: when *)
(* no request is in progress and health never changed, any two members     *)
(* served numbers of requests that differ by at most one, also if explain  *)
(* previewed a choice in between.                                          *)
RoundRobinBalanced ==
    kind = "RoundRobin" /\ changes = 0 /\ (\A r \in Requests : ~Running(r)) =>
        \A u, v \in Upstreams : Routed(u) - Routed(v) <= 1

(* LeastConnections: a request that nothing interferes with goes to a      *)
(* member with the least load among the members it may use.                *)
LeastLoadedWhenAlone ==
    [][\A r \in Requests :
         kind = "LeastConnections" /\ req[r].pc = "Lease" /\ req'[r].pc = "Done" /\ alone[r] =>
           \A v \in Upstreams :
             Passes(req[r].pred, v) => load[req[r].upstream] <= load[v]]_vars
=============================================================================
