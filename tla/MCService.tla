----------------------------- MODULE MCService ------------------------------
EXTENDS Service, TLC

CONSTANTS c1, c2

(* An H2 connection with streams and a SOCKS5 control connection with a    *)
(* UDP association (cancelled, it behaves as a plain connection) share the *)
(* TCP listener; a WebSocket session is one that no token cancels; two     *)
(* connections compete for the slot of a Unix listener; an H3 connection   *)
(* runs beside a raw QUIC one.                                             *)
Cases == {c1 :> "h2" @@ c2 :> "udp", c1 :> "websocket" @@ c2 :> "none",
          c1 :> "slot" @@ c2 :> "slot", c1 :> "h3" @@ c2 :> "quic"}

(* With --sys, no connection is needed: the settings do not depend on any. *)
SysCases == {c1 :> "none" @@ c2 :> "none"}

AllCases == Cases \cup SysCases

(* Settings that come back and settings that do not, on GNOME and Windows; *)
(* on macOS both arise from a life in which a command had no effect.       *)
Gnome(announced, mode, http, https, socks) ==
    [platform |-> "linux", proxy |-> announced,
     found |-> [on |-> [w \in {"mode"} |-> mode],
                server |-> [http |-> http, https |-> https, socks |-> socks]]]

Mac(announced, http, socks) ==
    [platform |-> "macos", proxy |-> announced,
     found |-> [on |-> [http |-> http, https |-> "off", socks |-> socks],
                server |-> [http |-> "user", https |-> "empty", socks |-> "user"]]]

Windows(mode) ==
    [platform |-> "windows", proxy |-> "http",
     found |-> [on |-> [w \in {"mode"} |-> mode], server |-> [k \in {"server"} |-> "user"]]]

AllHosts ==
    { Gnome("http", "off", "user", "empty", "empty"),
      Gnome("http", "on", "user", "user", "empty"),
      Gnome("socks", "on", "user", "empty", "empty"),
      Gnome("http", "auto", "empty", "empty", "empty"),
      Gnome("socks", "on", "user", "odd", "user"),
      Mac("socks", "on", "on"), Windows("off"), Windows("on") }

(* Restorable is what the two conversions bring back, and nothing else.    *)
ASSUME RestorableExactly ==
    \A h \in AllHosts : \A s \in AllSettings(h) :
        Restorable(h, s) <=> Effect(h, Reverted(h, Applied(h, s), s)) = Effect(h, s)
=============================================================================
