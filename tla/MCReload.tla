------------------------------ MODULE MCReload ------------------------------
EXTENDS Reload, TLC

Base == [listeners |-> "v1", timeouts |-> "v1", admin |-> "v1", reverse |-> "v1",
         transparent |-> "none",
         ups |-> [a |-> "s1", b |-> "s1"], groups |-> [g |-> {"a", "b"}], rules |-> {"g"}]

Of(cfg) == [kind |-> "Config", cfg |-> cfg]

(* Accepted reloads: another chain for a and other reverse servers, and a  *)
(* without b.                                                              *)
Rechained == [Base EXCEPT !.ups = [a |-> "s2", b |-> "s1"], !.reverse = "v2"]
Smaller == [Base EXCEPT !.ups = [a |-> "s1"], !.groups = [g |-> {"a"}]]

(* Transparent section: switched off is accepted, switched on is not. *)
SwitchedOff == [Base EXCEPT !.transparent = "off"]
SwitchedOn == [Base EXCEPT !.transparent = "on"]

(* Reloads that cannot be applied. *)
Rebound == [Base EXCEPT !.listeners = "v2"]
Dangling == [Base EXCEPT !.ups = [a |-> "s1"]]

AllInputs ==
    {Of(Base), Of(Rechained), Of(Smaller), Of(SwitchedOff), Of(SwitchedOn), Of(Rebound),
     Of(Dangling), [kind |-> "Unparsable"]}
=============================================================================
