----------------------------- MODULE MCUdpRelay -----------------------------
EXTENDS UdpRelay, TLC

CONSTANTS direct, socks, composed

(* A flow without a lease, one with a control connection, and one with the *)
(* lease taken early; a Shadowsocks flow takes its lease as a SOCKS5 one   *)
(* and has no control connection, as a direct one.                         *)
Kinds == direct :> "direct" @@ socks :> "socks5" @@ composed :> "composed"

Setting(mode, pin, shorter) == [mode |-> mode, clientPin |-> pin, shorter |-> shorter]

(* client_pin matters to associations, the order of the two idle limits to *)
(* the standalone relays.                                                  *)
AllConfigs ==
    { Setting("association", TRUE, FALSE), Setting("association", FALSE, FALSE),
      Setting("standalone", FALSE, FALSE), Setting("standalone", FALSE, TRUE),
      Setting("shadowsocks", FALSE, FALSE), Setting("shadowsocks", FALSE, TRUE) }
=============================================================================
