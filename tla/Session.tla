------------------------------ MODULE Session ------------------------------
(***************************************************************************)
(* A session from the accepted connection to its terminal record:          *)
(* serve_connection of eggress-server/src/lib.rs, the handlers of accept/, *)
(* execute/mod.rs, reply.rs, the HTTP/2 and WebSocket variants of          *)
(* advanced.rs, the HTTP/3 one of the supervisor, and the chain executor   *)
(* of eggress-core/src/chain.rs.                                           *)
(*                                                                         *)
(* Sessions interleave at every await.  They share the cache of            *)
(* authenticated peers (AuthReuseCache) and the load counters of the       *)
(* upstreams (UpstreamLease): the lease of a route is pending while the    *)
(* chain is opened, active while the path is used, and dropped with the    *)
(* function that owns it.                                                  *)
(***************************************************************************)
EXTENDS UpstreamLease, AuthReuseCache, Sequences

CONSTANTS
    Sessions,       \* connections accepted by the listener
    MaxRequests,    \* MAX_REQUESTS_PER_CONNECTION (100)
    Configs,        \* what a listener may be configured with: its protocols, its
                    \* InboundAuthentication (None, UsernamePassword, WithReuse),
                    \* and the upstreams the rules for it choose from
    ChainOf         \* the hops of each upstream's chain, each a set of protocols

VARIABLES
    config,  \* ConnectionConfig
    sess,    \* every session's task
    proof    \* history: the login each peer's entry was last recorded for

sessionVars == <<config, sess, proof>>
allVars == <<vars, cacheVars, sessionVars>>

(* What tells the protocols apart: how the client authenticates, whether a *)
(* cache hit is recorded again, how success is told, what is run.  HTTP/3  *)
(* requests are checked against the password alone, without the cache.     *)
Shape ==
    [ socks5      |-> [auth |-> "negotiated", refresh |-> {},                     reply |-> "late",  run |-> "tunnel"],
      udp         |-> [auth |-> "negotiated", refresh |-> {},                     reply |-> "late",  run |-> "udp"],
      socks4      |-> [auth |-> "inline",     refresh |-> {"Username", "Opaque"}, reply |-> "late",  run |-> "tunnel"],
      connect     |-> [auth |-> "inline",     refresh |-> {"Username"},           reply |-> "late",  run |-> "tunnel"],
      forward     |-> [auth |-> "inline",     refresh |-> {"Username"},           reply |-> "late",  run |-> "forward"],
      http2       |-> [auth |-> "inline",     refresh |-> {},                     reply |-> "early", run |-> "tunnel"],
      websocket   |-> [auth |-> "inline",     refresh |-> {},                     reply |-> "early", run |-> "tunnel"],
      http3       |-> [auth |-> "password",   refresh |-> {},                     reply |-> "early", run |-> "tunnel"],
      shadowsocks |-> [auth |-> "key",        refresh |-> {},                     reply |-> "none",  run |-> "tunnel"],
      ssr         |-> [auth |-> "key",        refresh |-> {},                     reply |-> "mismatch", run |-> "tunnel"],
      trojan      |-> [auth |-> "key",        refresh |-> {},                     reply |-> "none",  run |-> "tunnel"],
      raw         |-> [auth |-> "open",       refresh |-> {},                     reply |-> "none",  run |-> "tunnel"],
      echo        |-> [auth |-> "open",       refresh |-> {},                     reply |-> "none",  run |-> "echo"] ]

(* parse_proxy_chain returns no empty chain and validate_chain accepts no  *)
(* hop without protocols; "app" stands for a proxy protocol of any kind.   *)
ASSUME SessionAssumption ==
    /\ MaxRequests \in Nat \ {0}
    /\ Leases = Sessions \X (1..MaxRequests)
    /\ \A c \in Configs :
          /\ c.policy \in {"None", "UsernamePassword", "WithReuse"}
          /\ c.protocols \subseteq DOMAIN Shape
    /\ \A u \in Upstreams :
          ChainOf[u] \in Seq(SUBSET {"quic", "h3", "app"} \ {{}}) \ {<<>>}

Fresh ==
    [phase |-> "Closed", peer |-> "None", protocol |-> "None", cached |-> "None",
     started |-> FALSE, recorded |-> 0, request |-> 1, chain |-> <<>>, path |-> <<>>,
     hop |-> 1, reply |-> "None", outcome |-> "None"]

SessionInit ==
    /\ LeaseInit /\ upstream = [l \in Leases |-> CHOOSE u \in Upstreams : TRUE]
    /\ reader = [phase |-> "Idle"] /\ moved = {}
    /\ CacheInit
    /\ config \in Configs
    /\ sess = [s \in Sessions |-> Fresh]
    /\ proof = [ip \in Peers |-> [identity |-> IF ip \in DOMAIN entries THEN "Username" ELSE "None",
                                  at |-> 0]]
-----------------------------------------------------------------------------
Lease(s) == <<s, sess[s].request>>

(* What is left of a session whose frames are gone. *)
Over(s, phase, outcome) ==
    [Fresh EXCEPT !.phase = phase, !.protocol = sess[s].protocol, !.started = sess[s].started,
                  !.recorded = sess[s].recorded, !.request = sess[s].request,
                  !.outcome = outcome]

Required == config.policy # "None"
Reuses == config.policy = "WithReuse"

UsesCache(s) == Reuses /\ Shape[sess[s].protocol].auth # "password"

(* The session's steps that touch neither the cache nor a lease. *)
Private(s, new) ==
    /\ sess' = [sess EXCEPT ![s] = new]
    /\ UNCHANGED <<config, proof, vars, cacheVars>>

(* A step of the session's lease.  Nobody reads the load counters here. *)
WithLease(s, new) ==
    /\ sess' = [sess EXCEPT ![s] = new]
    /\ UNCHANGED <<config, proof, readVars, cacheVars>>

(* A function that owns the lease returns or is dropped. *)
DropLease(s) ==
    \/ state[Lease(s)] = "Pending" /\ DropPending(Lease(s))
    \/ state[Lease(s)] = "Active" /\ DropActive(Lease(s))
    \/ state[Lease(s)] \in {"Unused", "Dropped"} /\ UNCHANGED leaseVars

(* A report is returned: what the session still owns goes with the frame   *)
(* that returns it; serve_connection then records it.                      *)
Return(s, outcome) ==
    /\ DropLease(s)
    /\ WithLease(s, Over(s, "Report", outcome))

(* The reports of accept, where nothing is owned yet. *)
Refuse(s, outcome) ==
    Private(s, Over(s, "Report", outcome))
-----------------------------------------------------------------------------
(* A connection is handed to serve_connection, or is a stream of an HTTP/2 *)
(* or HTTP/3 connection or an upgraded one; those count their session only *)
(* once it is authenticated.                                               *)
Accept(s, peer, protocol) ==
    /\ sess[s].phase = "Closed"
    /\ protocol \in config.protocols
    /\ Private(s, [Fresh EXCEPT !.phase = "Accept", !.peer = peer, !.protocol = protocol,
                                !.started = Shape[protocol].reply # "early"])

(* cached_identity, the first thing every authenticating handler does once *)
(* it has the client's opening bytes.                                      *)
LookupPeer(s) ==
    /\ sess[s].phase = "Accept"
    /\ Shape[sess[s].protocol].auth \in {"negotiated", "inline", "password"}
    /\ IF UsesCache(s) THEN Lookup(sess[s].peer) ELSE UNCHANGED cacheVars
    /\ sess' = [sess EXCEPT ![s].phase = "Login",
                            ![s].cached = IF UsesCache(s) /\ Hit(sess[s].peer)
                                          THEN entries[sess[s].peer].identity ELSE "None"]
    /\ UNCHANGED <<config, proof, vars>>

(* Where an authenticated client's session goes on; where it comes from no  *)
(* longer matters.                                                         *)
Admitted(s) ==
    LET shape == Shape[sess[s].protocol] IN
    [sess[s] EXCEPT
        !.peer = "None", !.cached = "None",
        !.phase = IF shape.reply = "early" THEN "Greet"
                  ELSE IF shape.auth = "negotiated" \/ shape.run = "forward" THEN "Request"
                  ELSE "Route"]

(* The identity is recorded, if there is a cache to record it in. *)
Admit(s, identity, record) ==
    /\ IF UsesCache(s) /\ record
       THEN /\ Record(sess[s].peer, identity)
            /\ proof' = [proof EXCEPT ![sess[s].peer] = [identity |-> identity, at |-> now]]
       ELSE UNCHANGED <<cacheVars, proof>>
    /\ sess' = [sess EXCEPT ![s] = Admitted(s)]
    /\ UNCHANGED <<config, vars>>

(* What right credentials identify a client as. *)
IdentityOf(protocol) == IF protocol = "socks4" THEN "Opaque" ELSE "Username"

(* A cache hit: SOCKS5 offers it as "no authentication", and the client    *)
(* may still insist on a password; the others take it as it is.            *)
LoginFromCache(s) ==
    /\ sess[s].phase = "Login" /\ sess[s].cached # "None"
    /\ Admit(s, sess[s].cached,
             sess[s].cached \in Shape[sess[s].protocol].refresh)

(* Right credentials. *)
LoginWithCredentials(s) ==
    /\ sess[s].phase = "Login" /\ Required
    /\ sess[s].cached = "None" \/ Shape[sess[s].protocol].auth = "negotiated"
    /\ Admit(s, IdentityOf(sess[s].protocol), TRUE)

(* The refusal as it would be if every refused client were reported. *)
LoginFailsReported(s) ==
    /\ sess[s].phase = "Login" /\ Required /\ sess[s].cached = "None"
    /\ Private(s, Over(s, "Report", "AuthenticationFailed"))

(* Wrong or missing credentials, answered in the protocol's own words; a   *)
(* SOCKS5 client may also offer no method that will do.  An HTTP/2 or      *)
(* HTTP/3 stream or a WebSocket upgrade that fails was never counted.      *)
LoginFails(s) ==
    /\ sess[s].phase = "Login" /\ Required
    /\ sess[s].cached = "None" \/ Shape[sess[s].protocol].auth = "negotiated"
    /\ \E outcome \in {"AuthenticationFailed", "ClientProtocolError"} :
          /\ outcome = "ClientProtocolError" => Shape[sess[s].protocol].auth = "negotiated"
          /\ Private(s, Over(s, IF sess[s].started THEN "Report" ELSE "Done",
                             IF sess[s].started THEN outcome ELSE "None"))

(* No authentication is asked for. *)
LoginOpen(s) ==
    /\ sess[s].phase = "Login" /\ ~Required
    /\ Admit(s, "Anonymous", FALSE)

(* Listeners that authenticate with a key of their own, or not at all.  A  *)
(* Trojan client with the wrong password may be sent to a fallback target. *)
AcceptKeyed(s) ==
    /\ sess[s].phase = "Accept" /\ Shape[sess[s].protocol].auth \in {"key", "open"}
    /\ \/ Private(s, [sess[s] EXCEPT
              !.peer = "None",
              !.phase = IF Shape[sess[s].protocol].run = "echo" THEN "Echo" ELSE "Route"])
       \/ sess[s].protocol = "trojan" /\ Refuse(s, "AuthenticationFailed")

(* The request behind the login: a command, or an HTTP request to forward. *)
ReadRequest(s) ==
    /\ sess[s].phase = "Request"
    /\ Private(s, [sess[s] EXCEPT
          !.phase = IF Shape[sess[s].protocol].run = "udp" THEN "Associate" ELSE "Route"])

(* Where a handshake waits for its client: those that authenticate inline  *)
(* go from the lookup to the verdict without waiting.                      *)
AwaitsClient(s) ==
    \/ sess[s].phase \in {"Accept", "Request"}
    \/ sess[s].phase = "Login" /\ Shape[sess[s].protocol].auth = "negotiated"

(* Bytes that are no request of the protocol (a BIND command is one), or   *)
(* the end of the stream, anywhere in the handshake.                       *)
Malformed(s) ==
    /\ AwaitsClient(s) /\ sess[s].started
    /\ Shape[sess[s].protocol].auth # "open"
    /\ Refuse(s, "ClientProtocolError")

(* handshake_timeout around accept; HTTP/2 and HTTP/3 streams and          *)
(* WebSocket upgrades are not under it.                                    *)
HandshakeTimeout(s) ==
    /\ AwaitsClient(s) /\ sess[s].started
    /\ Shape[sess[s].protocol].reply # "early"
    /\ Refuse(s, "HandshakeTimedOut")

(* The 200 of an HTTP/2 or HTTP/3 stream, the 101 of an upgrade: success   *)
(* is told before anything is routed, and only now is the session counted. *)
SendEarlySuccess(s) ==
    /\ sess[s].phase = "Greet"
    /\ Private(s, [sess[s] EXCEPT !.phase = "Route", !.reply = "Success", !.started = TRUE])

(* A stream or an upgrade the client gives up before it is counted; an     *)
(* HTTP/3 one is given up even after its 200 if the listener has no slot   *)
(* for it or its authority names no target.                                *)
GiveUp(s) ==
    /\ ~sess[s].started
    /\ \/ sess[s].phase = "Accept"
       \/ sess[s].phase = "Login" /\ sess[s].protocol = "websocket"
       \/ sess[s].phase = "Greet" /\ sess[s].protocol \in {"http2", "http3"}
    /\ Private(s, Over(s, "Done", "None"))
-----------------------------------------------------------------------------
(* open_route.  The chosen upstream's lease is pending from here on; a     *)
(* rule may also send the session direct, reject it, or find no upstream.  *)
SelectDirect(s) ==
    /\ sess[s].phase = "Route"
    /\ Private(s, [sess[s] EXCEPT !.phase = "Connect", !.chain = <<>>])

SelectUpstream(s, u) ==
    /\ sess[s].phase = "Route" /\ u \in config.routes
    /\ NewPending(Lease(s), u)
    /\ WithLease(s, [sess[s] EXCEPT !.phase = "Connect", !.chain = ChainOf[u]])

(* A report that is preceded by a failure reply.  What the reply is sent   *)
(* from under still owns the lease of an opened route.                     *)
Refusing(s, outcome) ==
    Private(s, [sess[s] EXCEPT !.phase = "Refuse", !.outcome = outcome])

RouteRefused(s) ==
    /\ sess[s].phase = "Route"
    /\ Refusing(s, "RouteFailed")

(* execute_http_forward refuses an Expect header before it routes. *)
ExpectationFailed(s) ==
    /\ sess[s].phase = "Route" /\ Shape[sess[s].protocol].run = "forward"
    /\ Refusing(s, "ClientProtocolError")

(* send_tunnel_failure, send_http_forward_failure and the like: only some  *)
(* protocols have words for it, the others just close; a failed write is   *)
(* ignored.                                                                *)
SendFailure(s) ==
    /\ sess[s].phase = "Refuse"
    /\ Return(s, sess[s].outcome)
-----------------------------------------------------------------------------
(* A path is the nodes a byte written to the stream passes: the hops by    *)
(* number, then the destination.                                           *)
Destination(s) == Len(sess[s].chain) + 1

WholePath(s) == [i \in 1..Destination(s) |-> i]

ConnectDirect(s) ==
    /\ sess[s].phase = "Connect" /\ sess[s].chain = <<>>
    /\ Private(s, [sess[s] EXCEPT !.path = <<1>>, !.phase = "Reply"])

ApplicationProtocols(hop) == hop \ {"quic", "h3"}

(* The first hop's transport: a socket, a raw QUIC stream, or an HTTP/3    *)
(* request that already names the next node.                               *)
OpenFirstHop(s) ==
    /\ sess[s].phase = "Connect" /\ sess[s].chain # <<>> /\ sess[s].path = <<>>
    /\ Private(s, [sess[s] EXCEPT
          !.path = IF "h3" \in sess[s].chain[1] THEN <<1, 2>> ELSE <<1>>])

(* The handshake as it would be if a raw QUIC hop were taken for one that  *)
(* has named the next node.                                                *)
HopHandshakeSkipsQuic(s) ==
    /\ sess[s].phase = "Connect" /\ sess[s].path # <<>>
    /\ LET hop == sess[s].hop IN
       Private(s, [sess[s] EXCEPT
          !.path = IF sess[s].chain[hop] = {"app"} THEN Append(@, hop + 1) ELSE @,
          !.hop = hop + 1,
          !.phase = IF hop = Len(sess[s].chain) THEN "Opened" ELSE "Connect"])

(* TLS and the handshake of the next hop, which names the node after it.   *)
(* A hop with no application protocol is passed over, wherever it stands.  *)
HopHandshake(s) ==
    /\ sess[s].phase = "Connect" /\ sess[s].path # <<>>
    /\ LET hop == sess[s].hop IN
       Private(s, [sess[s] EXCEPT
          !.path = IF ApplicationProtocols(sess[s].chain[hop]) = {} THEN @ ELSE Append(@, hop + 1),
          !.hop = hop + 1,
          !.phase = IF hop = Len(sess[s].chain) THEN "Opened" ELSE "Connect"])

(* pending_lease.established(), its two halves. *)
LeaveInFlight(s) ==
    /\ sess[s].phase = "Opened" /\ EstablishedSub(Lease(s))
    /\ WithLease(s, sess[s])

EnterActive(s) ==
    /\ sess[s].phase = "Opened" /\ EstablishedAdd(Lease(s))
    /\ WithLease(s, [sess[s] EXCEPT !.phase = "Reply"])

(* The deadline as it would be if it covered the connection alone. *)
OpenFailsBeforeHandshake(s) ==
    /\ sess[s].phase = "Connect" /\ sess[s].path = <<>>
    /\ DropLease(s)
    /\ WithLease(s, [sess[s] EXCEPT !.phase = "Refuse", !.outcome = "RouteFailed"])

(* A connection refused, a handshake that fails, or connect_timeout around *)
(* all of it: the future that owns the pending lease ends.                 *)
OpenFails(s) ==
    /\ sess[s].phase = "Connect"
    /\ DropLease(s)
    /\ WithLease(s, [sess[s] EXCEPT !.phase = "Refuse", !.outcome = "RouteFailed"])
-----------------------------------------------------------------------------
(* send_tunnel_success and send_udp_associate_reply.  A ShadowsocksR session carries the reply context  *)
(* of Shadowsocks, which no arm of it matches.                             *)
SendSuccess(s) ==
    LET shape == Shape[sess[s].protocol] IN
    /\ sess[s].phase = "Reply" /\ shape.reply # "mismatch"
    /\ Private(s, [sess[s] EXCEPT
          !.phase = IF shape.run = "forward" THEN "Upload"
                    ELSE IF shape.run = "udp" THEN "Udp"
                    ELSE "Relay",
          !.reply = IF shape.reply = "late" /\ shape.run # "forward" THEN "Success" ELSE @])

SuccessNotSent(s) ==
    /\ sess[s].phase = "Reply"
    /\ Shape[sess[s].protocol].reply \in {"late", "mismatch"}
    /\ Shape[sess[s].protocol].run # "forward"
    /\ Return(s, "ClientProtocolError")

(* The relay (Relay) comes to an end. *)
RelayEnds(s) ==
    /\ sess[s].phase = "Relay"
    /\ \E outcome \in {"Completed", "RelayFailed"} : Return(s, outcome)
-----------------------------------------------------------------------------
(* execute_http_forward: the head and the body go out, the response comes  *)
(* back, and the connection may carry another request.                     *)
UploadRequest(s) ==
    /\ sess[s].phase = "Upload"
    /\ \/ Private(s, [sess[s] EXCEPT !.phase = "Response"])
       \/ Refusing(s, "RelayFailed")                 \* the head
       \/ Return(s, "ClientProtocolError")   \* the body

ForwardResponse(s) ==
    /\ sess[s].phase = "Response"
    /\ \/ Private(s, [sess[s] EXCEPT !.phase = "Idle", !.reply = "Success"])
       \/ Refusing(s, "RelayFailed")                 \* an upgrade
       \/ Return(s, "RelayFailed")

(* Either side closes, the requests of a connection are used up, or no     *)
(* next request comes in time.                                             *)
ForwardEnds(s) ==
    /\ sess[s].phase = "Idle"
    /\ Return(s, "Completed")

(* The next request as it would be if the last one's lease lived on. *)
NextRequestKeepsLease(s) ==
    /\ sess[s].phase = "Idle" /\ sess[s].request < MaxRequests
    /\ Private(s, [sess[s] EXCEPT !.phase = "Route", !.request = @ + 1,
                      !.chain = <<>>, !.path = <<>>, !.hop = 1, !.reply = "None"])

(* The next request, on a route of its own: the last one's stream and      *)
(* lease go out of scope only now.                                         *)
NextRequest(s) ==
    /\ sess[s].phase = "Idle" /\ sess[s].request < MaxRequests
    /\ DropLease(s)
    /\ WithLease(s, [sess[s] EXCEPT !.phase = "Route", !.request = @ + 1,
                        !.chain = <<>>, !.path = <<>>, !.hop = 1, !.reply = "None"])
-----------------------------------------------------------------------------
(* execute_udp_associate (UdpAssociations has the associations). *)
CreateAssociation(s) ==
    /\ sess[s].phase = "Associate"
    /\ \/ Private(s, [sess[s] EXCEPT !.phase = "Reply"])
       \/ Refusing(s, "RouteFailed")

AssociateTimeout(s) ==
    /\ sess[s].phase = "Associate"
    /\ Refusing(s, "HandshakeTimedOut")

(* The control connection of an association, or an echo session, ends. *)
ControlEnds(s) ==
    /\ sess[s].phase \in {"Udp", "Echo"}
    /\ Refuse(s, "Completed")
-----------------------------------------------------------------------------
(* The report goes to the metrics, and that is the end of the session. *)
RecordSession(s) ==
    /\ sess[s].phase = "Report"
    /\ Private(s, [sess[s] EXCEPT !.phase = "Done", !.recorded = @ + 1, !.outcome = "None"])

(* Where a session waits, and so where it can be dropped. *)
Awaits(s) ==
    \/ AwaitsClient(s)
    \/ sess[s].phase \in {"Connect", "Refuse", "Reply", "Relay", "Upload", "Response",
                          "Idle", "Associate", "Udp", "Echo"}

(* connection_cancel while the session waits: serve_connection is dropped  *)
(* where it stands, and with it the call that would have recorded it; an   *)
(* HTTP/2 stream records a cancelled report.  An upgraded connection and   *)
(* the task of an HTTP/3 request do not watch the token.                   *)
Cancel(s) ==
    /\ sess[s].started /\ sess[s].protocol \notin {"websocket", "http3"} /\ Awaits(s)
    /\ DropLease(s)
    /\ WithLease(s, Over(s, IF sess[s].protocol = "http2" THEN "Report" ELSE "Done",
                         "Cancelled"))

Login(s) ==
    LoginFromCache(s) \/ LoginWithCredentials(s) \/ LoginFails(s) \/ LoginOpen(s)

Routed(s) ==
    \/ SelectDirect(s) \/ (\E u \in Upstreams : SelectUpstream(s, u))
    \/ RouteRefused(s) \/ ExpectationFailed(s)

Step(s) ==
    \/ \E peer \in Peers, protocol \in config.protocols : Accept(s, peer, protocol)
    \/ LookupPeer(s) \/ Login(s) \/ AcceptKeyed(s) \/ ReadRequest(s) \/ Malformed(s)
    \/ HandshakeTimeout(s) \/ SendEarlySuccess(s) \/ GiveUp(s)
    \/ Routed(s) \/ SendFailure(s) \/ ConnectDirect(s) \/ OpenFirstHop(s)
    \/ HopHandshake(s) \/ LeaveInFlight(s) \/ EnterActive(s) \/ OpenFails(s)
    \/ SendSuccess(s) \/ SuccessNotSent(s) \/ RelayEnds(s)
    \/ UploadRequest(s) \/ ForwardResponse(s) \/ ForwardEnds(s) \/ NextRequest(s)
    \/ CreateAssociation(s) \/ AssociateTimeout(s) \/ ControlEnds(s)
    \/ RecordSession(s) \/ Cancel(s)

(* Time only matters where a cache looks at it. *)
Clock == Reuses /\ Tick /\ UNCHANGED <<vars, sessionVars>>

SessionNext == Clock \/ \E s \in Sessions : Step(s)

(* A ready task runs and a timer that is due fires; peers owe nothing. *)
SessionFairness ==
    \A s \in Sessions :
        /\ WF_allVars(~AwaitsClient(s) /\ sess[s].started /\ Login(s))
        /\ WF_allVars(HandshakeTimeout(s)) /\ WF_allVars(OpenFails(s))
        /\ WF_allVars(AssociateTimeout(s)) /\ WF_allVars(ForwardEnds(s))
        /\ WF_allVars(Routed(s)) /\ WF_allVars(LeaveInFlight(s)) /\ WF_allVars(EnterActive(s))
        /\ WF_allVars(RecordSession(s))

SessionSpec == SessionInit /\ [][SessionNext]_allVars /\ SessionFairness
-----------------------------------------------------------------------------
Using == {"Reply", "Relay", "Upload", "Response", "Idle"}

(* A lease lives exactly as long as the part of the session that needs it  *)
(* (open_route, execute_tunnel, the loop of execute_http_forward): pending *)
(* while the chain is opened, active while the opened path is used, held   *)
(* by the current request alone and never by a session that has returned   *)
(* its report, was cancelled, or is being routed; and the two counters of  *)
(* an upstream are exactly its pending and its active leases.              *)
LeaseFollowsSession ==
    /\ AccountingExact
    /\ \A l \in Leases : state[l] \in {"Pending", "Transferred", "Active"} =>
          /\ l = Lease(l[1])
          /\ sess[l[1]].phase \in Using \cup {"Connect", "Opened", "Refuse"}
    /\ \A s \in Sessions : sess[s].chain # <<>> =>
          /\ sess[s].phase = "Connect" => state[Lease(s)] = "Pending"
          /\ sess[s].phase \in Using => state[Lease(s)] = "Active"

(* Every hop of a chain names the node after it once: an HTTP/3 first hop  *)
(* when it is opened, any other by the handshake of its application        *)
(* protocol.  Neither the parser nor validate_chain asks for it.           *)
NamesEveryNode(chain) ==
    \A i \in DOMAIN chain :
        IF i = 1 /\ "h3" \in chain[i]
        THEN ApplicationProtocols(chain[i]) = {}
        ELSE ApplicationProtocols(chain[i]) # {}

(* A client that is told of success (send_tunnel_success, the forwarded    *)
(* response) has a stream that passes every hop of the chosen chain in     *)
(* order and ends at its target, for a chain that names every node.  With  *)
(* a hop that is passed over, HTTP/3 or bare QUIC anywhere but first or    *)
(* bare QUIC there, it is told so over a stream that stops short of the    *)
(* node the hop should have named; with one that names it twice, over a    *)
(* stream with a stray handshake in it.  HTTP/2, HTTP/3 and WebSocket      *)
(* clients are told before anything is opened.                             *)
SuccessMeansConnected ==
    \A s \in Sessions :
        /\ sess[s].reply = "Success"
        /\ Shape[sess[s].protocol].reply = "late" /\ Shape[sess[s].protocol].run # "udp"
        /\ NamesEveryNode(sess[s].chain)
        => sess[s].path = WholePath(s)

(* After record_session_start exactly one record_session follows, and none *)
(* without it: a session that is over was recorded once if it was counted, *)
(* except that serve_connection is dropped by connection_cancel before it  *)
(* records anything.                                                       *)
ReportedOnce ==
    \A s \in Sessions :
        /\ sess[s].recorded <= 1
        /\ sess[s].recorded = 1 => sess[s].started /\ sess[s].phase = "Done"
        /\ sess[s].phase = "Done" /\ sess[s].started =>
              \/ sess[s].recorded = 1
              \/ sess[s].outcome = "Cancelled" /\ sess[s].protocol # "http2"

(* What cached_identity lets a client in with is the identity the same     *)
(* peer's entry was last recorded for, no longer than the timeout ago,     *)
(* whatever other sessions recorded, removed or evicted in between.        *)
ReuseIsFresh ==
    \A s \in Sessions : sess[s].cached = "None" /\ sess'[s].cached # "None" =>
        LET last == proof[sess[s].peer] IN
        last.identity = sess'[s].cached /\ now - last.at <= Timeout

(* The cache at its limits, in time and in space: no step lets a client in *)
(* with an identity that is not fresh, or evicts (record) a peer that      *)
(* could still use its own before one that could not.                      *)
CacheSound == [][ReuseIsFresh /\ EvictsDeadFirst]_allVars

Bounded(s) ==
    \/ sess[s].phase \in {"Connect", "Opened", "Idle", "Associate", "Route", "Report"}
    \/ sess[s].phase \in {"Accept", "Login", "Request"} /\ sess[s].started

(* Every deadline is one: a counted client does not stay in its handshake  *)
(* (handshake_timeout), a route is not left half open with its lease       *)
(* pending (connect_timeout), an idle connection is given up, and a report *)
(* that is due is recorded.                                                *)
SetupEnds == \A s \in Sessions : Bounded(s) ~> ~Bounded(s)
=============================================================================
