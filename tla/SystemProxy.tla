---------------------------- MODULE SystemProxy -----------------------------
(***************************************************************************)
(* The operating system's proxy settings, and what --sys does to them:     *)
(* eggress-system-proxy/src/apply.rs, inspection.rs and the three backends. *)
(*                                                                         *)
(* A host has a platform, and the kind of proxy that is announced.  Its    *)
(* settings are addresses, and switches that say whether they are used:    *)
(* GNOME has one mode for its three addresses, macOS a switch for each,    *)
(* Windows one switch for one value that holds all addresses.  An address  *)
(* is nobody's ("empty"), the user's, ours, or the user's in a form that   *)
(* parse_proxy_address refuses ("odd": an IPv6 address without brackets).  *)
(* The lists of hosts to be reached directly are left out: apply does not  *)
(* write them.                                                             *)
(***************************************************************************)

Keys(h) == IF h.platform = "windows" THEN {"server"} ELSE {"http", "https", "socks"}

(* The addresses that are overwritten. *)
Written(h) ==
    IF h.platform = "windows" THEN {"server"}
    ELSE IF h.proxy = "http" THEN {"http", "https"} ELSE {"socks"}

Switch(h, k) == IF h.platform = "macos" THEN k ELSE "mode"

Switches(h) == {Switch(h, k) : k \in Keys(h)}

Positions(h) == IF h.platform = "linux" THEN {"off", "on", "auto"} ELSE {"off", "on"}

AllSettings(h) ==
    [on : [Switches(h) -> Positions(h)], server : [Keys(h) -> {"empty", "user", "odd", "ours"}]]

Given(h, s) == {k \in Keys(h) : s.server[k] # "empty"}

(* GNOME's addresses are not read in mode none. *)
InspectGnome(h, s) == IF s.on["mode"] = "off" THEN {} ELSE Given(h, s)

(* macOS's are read whether they are switched on or not. *)
InspectMacos(h, s) == Given(h, s)

(* The switch is a number and only strings are read: it is never found on. *)
InspectWindows(h, s) == {}

(* The addresses in the RollbackState. *)
Inspect(h, s) ==
    CASE h.platform = "linux"   -> InspectGnome(h, s)
      [] h.platform = "macos"   -> InspectMacos(h, s)
      [] h.platform = "windows" -> InspectWindows(h, s)

Turned(h, K, s) ==
    [w \in Switches(h) |-> IF \E k \in K : w = Switch(h, k) THEN "on" ELSE s.on[w]]

(* execute_apply. *)
Applied(h, s) ==
    [on |-> Turned(h, Written(h), s),
     server |-> [k \in Keys(h) |-> IF k \in Written(h) THEN "ours" ELSE s.server[k]]]

(* Every revert begins with the commands that switch all off. *)
Disabled(h, s) == [on |-> [w \in Switches(h) |-> "off"], server |-> s.server]

(* What generate_revert_commands writes of what was found: on GNOME        *)
(* nothing if one address of it is refused.                                *)
Back(h, p) ==
    IF h.platform = "linux" /\ \E k \in Inspect(h, p) : p.server[k] = "odd"
    THEN {} ELSE Inspect(h, p)

(* The settings s after the commands that go back to p: an address that    *)
(* was not inspected stays as it is.                                       *)
Reverted(h, s, p) ==
    [on |-> Turned(h, Back(h, p), Disabled(h, s)),
     server |-> [k \in Keys(h) |-> IF k \in Back(h, p) THEN p.server[k] ELSE s.server[k]]]

-----------------------------------------------------------------------------
(* What programs take from the settings. *)
Effect(h, s) ==
    [k \in Keys(h) |->
        CASE s.on[Switch(h, k)] = "on"   -> s.server[k]
          [] s.on[Switch(h, k)] = "auto" -> "auto"
          [] s.on[Switch(h, k)] = "off"  -> "empty"]

(* What a revert can bring back.  On GNOME the mode auto is lost, so is a  *)
(* manual one with an address that is refused, and one that leaves an      *)
(* address empty which apply has written keeps ours; macOS switches an     *)
(* address on that was kept switched off; Windows only ever switches off.  *)
Restorable(h, s) ==
    CASE h.platform = "linux" ->
              \/ s.on["mode"] = "off"
              \/ /\ s.on["mode"] = "on"
                 /\ \A k \in Keys(h) : s.server[k] # "odd"
                 /\ Given(h, s) = {} \/ Written(h) \subseteq Given(h, s)
      [] h.platform = "macos"   -> \A k \in Given(h, s) : s.on[k] = "on"
      [] h.platform = "windows" -> s.on["mode"] = "off" \/ Given(h, s) = {}
=============================================================================
