----------------------------- MODULE MCSession -----------------------------
EXTENDS Session, TLC

CONSTANTS u1, u2, u3, p1, p2, p3

(* A raw QUIC hop with a proxy protocol over it, and an HTTP/3 hop, each   *)
(* before an ordinary one; and an HTTP/3 hop after one, which is passed    *)
(* over.                                                                   *)
TwoHops ==
    u1 :> <<{"quic", "app"}, {"app"}>> @@ u2 :> <<{"h3"}, {"app"}>> @@ u3 :> <<{"app"}, {"h3"}>>

EarlierPeers == {{p1, p2}}

AllLeases == Sessions \X (1..MaxRequests)

(* Every protocol, every policy with a protocol of each way to log in, and *)
(* every way to tell of success with every kind of route.                  *)
AllConfigs ==
    [protocols : {{"socks5"}, {"socks4", "connect"}, {"http3"}}, policy : {"WithReuse"}, routes : {{}}]
    \cup [protocols : {{"socks5", "udp"}, {"http2"}, {"http3"}, {"websocket"}},
          policy : {"UsernamePassword"}, routes : {{u1}}]
    \cup [protocols : {{"connect"}, {"forward"}, {"http2"}, {"shadowsocks"}, {"ssr"}, {"trojan"}, {"raw"}, {"echo"}},
          policy : {"None"}, routes : {{u1, u2}}]
    \cup [protocols : {{"connect"}}, policy : {"None"}, routes : {{u3}}]
=============================================================================
