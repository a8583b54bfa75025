--------------------------- MODULE RouteSelection ---------------------------
(***************************************************************************)
(* What route selection promises, without saying how it reads the health   *)
(* of the members: a request overlaps a window of health changes, and its  *)
(* outcome must be justified by what each member was at some moment of     *)
(* that window.  Router implements this specification.                     *)
(***************************************************************************)
CONSTANTS
    Upstreams,  \* the members of the upstream group
    Requests,   \* route() calls
    Fallbacks   \* the GroupFallbacks a group may have

VARIABLES
    fallback,     \* GroupFallback of the group
    healthy,      \* members whose published health state is eligible
    enabled,      \* members whose enabled flag is set
    phase,        \* "Idle", "Choosing" or "Done" for each request
    outcome,      \* result of each request that is Done
    everUp,       \* members that were eligible at some moment of the request
    everDown,     \* members that were not eligible at some moment of it
    everEnabled   \* members that were enabled at some moment of it

vars == <<fallback, healthy, enabled, phase, outcome, everUp, everDown, everEnabled>>

Up(h, e) == h \cap e
Choosing(r) == phase[r] = "Choosing"

NoOutcome == [kind |-> "None"]
Policy == {[kind |-> "Direct"], [kind |-> "Rejected"], [kind |-> "UnknownGroup"]}

Init ==
    /\ fallback \in Fallbacks
    /\ healthy = Upstreams
    /\ enabled = Upstreams
    /\ phase = [r \in Requests |-> "Idle"]
    /\ outcome = [r \in Requests |-> NoOutcome]
    /\ everUp = [r \in Requests |-> {}]
    /\ everDown = [r \in Requests |-> {}]
    /\ everEnabled = [r \in Requests |-> {}]

(* A probe or an operator changes what the members are; every request in   *)
(* progress may see the old or the new value.                              *)
Change ==
    /\ healthy' \in SUBSET Upstreams
    /\ enabled' \in SUBSET Upstreams
    /\ everUp' = [r \in Requests |->
         IF Choosing(r) THEN everUp[r] \cup Up(healthy', enabled') ELSE everUp[r]]
    /\ everDown' = [r \in Requests |->
         IF Choosing(r) THEN everDown[r] \cup (Upstreams \ Up(healthy', enabled'))
                        ELSE everDown[r]]
    /\ everEnabled' = [r \in Requests |->
         IF Choosing(r) THEN everEnabled[r] \cup enabled' ELSE everEnabled[r]]
    /\ UNCHANGED <<fallback, phase, outcome>>

(* The policy alone answers the request. *)
Decide(r) ==
    /\ phase[r] = "Idle"
    /\ phase' = [phase EXCEPT ![r] = "Done"]
    /\ \E o \in Policy : outcome' = [outcome EXCEPT ![r] = o]
    /\ UNCHANGED <<fallback, healthy, enabled, everUp, everDown, everEnabled>>

Begin(r) ==
    /\ phase[r] = "Idle"
    /\ phase' = [phase EXCEPT ![r] = "Choosing"]
    /\ everUp' = [everUp EXCEPT ![r] = Up(healthy, enabled)]
    /\ everDown' = [everDown EXCEPT ![r] = Upstreams \ Up(healthy, enabled)]
    /\ everEnabled' = [everEnabled EXCEPT ![r] = enabled]
    /\ UNCHANGED <<fallback, healthy, enabled, outcome>>

(* The outcomes the window of request r justifies. *)
Justified(r) ==
    {[kind |-> "Upstream", upstream |-> u, reason |-> "Normal"] : u \in everUp[r]}
    \cup (IF everDown[r] = Upstreams /\ fallback = "Direct"
          THEN {[kind |-> "DirectFallback"]} ELSE {})
    \cup (IF everDown[r] = Upstreams /\ fallback = "UseUnhealthy"
          THEN {[kind |-> "Upstream", upstream |-> u, reason |-> "UnhealthyFallback"]
                  : u \in everEnabled[r]}
          ELSE {})
    \cup (IF everDown[r] # {} THEN {[kind |-> "NoEligible"]} ELSE {})

Finish(r) ==
    /\ Choosing(r)
    /\ phase' = [phase EXCEPT ![r] = "Done"]
    /\ \E o \in Justified(r) : outcome' = [outcome EXCEPT ![r] = o]
    /\ UNCHANGED <<fallback, healthy, enabled, everUp, everDown, everEnabled>>

Next == Change \/ \E r \in Requests : Decide(r) \/ Begin(r) \/ Finish(r)

Spec == Init /\ [][Next]_vars
=============================================================================
