------------------------------ MODULE Service -------------------------------
(***************************************************************************)
(* The service over its lives: module Shutdown, composed with the system   *)
(* proxy settings that --sys changes while it runs                         *)
(* (eggress-system-proxy/src/apply.rs, supervisor/services.rs).  What the  *)
(* settings say outlives the process; nothing else that the guard holds is *)
(* persisted.                                                              *)
(*                                                                         *)
(* A settings command reports an error only if it cannot be run: its exit  *)
(* status is not read.  What the commands write is in SystemProxy.         *)
(***************************************************************************)
EXTENDS Shutdown, SystemProxy

CONSTANTS
    Hosts,           \* where it runs: the platform, the proxy announced, the
                     \* settings first found
    SysMixes,        \* the cases in which --sys is given
    UnlinkExisting   \* unlink_existing of the Unix listener

ASSUME HostAssumption ==
    /\ Hosts # {}
    /\ \A h \in Hosts :
          /\ h.platform \in {"linux", "macos", "windows"} /\ h.proxy \in {"http", "socks"}
          /\ h.found \in AllSettings(h)

VARIABLES
    host,      \* one of Hosts
    settings,  \* what the operating system's settings say
    prior,     \* what they said when this life began (RollbackState)
    guard,     \* AppliedProxy
    failed     \* a command of this life could not be run or had no effect

proxy == <<host, settings, prior, guard, failed>>
svars == <<vars, proxy>>

ServiceInit ==
    /\ Init
    /\ host \in IF kind \in SysMixes THEN Hosts ELSE {CHOOSE h \in Hosts : TRUE}
    /\ settings = host.found
    /\ prior = settings
    /\ guard = "pending"
    /\ failed = FALSE

-----------------------------------------------------------------------------
\* What commands that go through the settings S may leave if some have no effect.
Mixed(S) ==
    {m \in AllSettings(host) :
        /\ \A w \in Switches(host) : \E s \in S : m.on[w] = s.on[w]
        /\ \A k \in Keys(host) : \E s \in S : m.server[k] = s.server[k]}

Applying == {settings, Applied(host, settings)}

\* Without --sys nothing is applied.
Apply ==
    /\ guard = "pending"
    /\ stage = "starting"
    /\ \/ /\ kind \notin SysMixes
          /\ guard' = "none"
          /\ UNCHANGED <<settings, failed>>
       \/ /\ kind \in SysMixes
          /\ guard' = "held"
          /\ \/ settings' = Applied(host, settings) /\ UNCHANGED failed
             \/ settings' \in Mixed(Applying) /\ failed' = TRUE
    /\ UNCHANGED <<vars, host, prior>>

\* The revert of s, whose commands may be without effect as well.
Revert(s) ==
    \/ settings' = Reverted(host, s, prior) /\ UNCHANGED failed
    \/ /\ settings' \in Mixed({s, Disabled(host, s), Reverted(host, s, prior)})
       /\ failed' = TRUE

\* Mutant: a command that cannot be run leaves what was applied before it.
ApplyFailsHalfway ==
    /\ guard = "pending"
    /\ kind \in SysMixes
    /\ guard' = "none"
    /\ settings' \in Mixed(Applying)
    /\ UNCHANGED <<host, prior, failed>>

\* Apply is not supported, or a command could not be run and what was applied
\* before it is reverted.
ApplyFails ==
    /\ guard = "pending"
    /\ kind \in SysMixes
    /\ guard' = "none"
    /\ \/ UNCHANGED <<settings, failed>>
       \/ \E s \in Mixed(Applying) : Revert(s)
    /\ UNCHANGED <<host, prior>>

\* restore() at the end of shutdown_ordered, or the drop of the guard when
\* run() fails.  The rollback is taken first: a restore is never repeated.
Restore ==
    /\ guard = "held"
    /\ guard' = "spent"
    /\ Revert(settings)
    /\ UNCHANGED <<host, prior>>

Returning == stage' = "returned" /\ stage # "returned"

\* The TCP and QUIC accept loops are spawned after the settings were applied,
\* those of transparent and Unix listeners before.
Spawned ==
    \/ guard # "pending"
    \/ /\ loop' \in {loop, "ended"}
       /\ ready' = FALSE
       /\ \A l \in {"h3", "quic"} : others'[l] \in {others[l], "ended"}

Step(A) ==
    /\ A
    /\ \/ Returning /\ (Restore \/ ApplyFails)
       \/ Returning /\ guard = "none" /\ UNCHANGED proxy
       \/ ~Returning /\ Spawned /\ UNCHANGED proxy

\* The next start of the service, after a stop or after the process died.  A
\* socket file that was left is in its way unless it may be unlinked.
Restart ==
    /\ stage = "dropped"
    /\ socket = "removed" \/ UnlinkExisting
    /\ stage' = "starting"
    /\ ready' = FALSE
    /\ cancel' = FALSE
    /\ listenerCancel' = FALSE
    /\ connCancel' = FALSE
    /\ adminCancel' = FALSE
    /\ expired' = FALSE
    /\ late' = {}
    /\ loop' = "permit"
    /\ permits' = Limit
    /\ others' = [l \in OtherKinds |-> IF Of({l}) = {} THEN "ended" ELSE "accept"]
    /\ slots' = 0
    /\ socket' = IF Of({"slot"}) = {} THEN "removed" ELSE "bound"
    /\ conn' = [k \in Conns |-> "new"]
    /\ cut' = {}
    /\ active' = 0
    /\ streams' = [k \in Conns |-> 0]
    /\ assoc' = [k \in Conns |-> "none"]
    /\ service' = [s \in Services |-> "running"]
    /\ admin' = "running"
    /\ kind' = kind
    /\ host' = host
    /\ settings' = settings
    /\ prior' = settings
    /\ guard' = "pending"
    /\ failed' = FALSE

ServiceNext == Step(Next) \/ Apply \/ Restart

\* Nobody need start the service again, and nothing is assumed of clients.
ServiceSpec ==
    /\ ServiceInit
    /\ [][ServiceNext]_svars
    /\ WF_svars(Apply)
    /\ WF_svars(Step(Supervisor))
    /\ WF_svars(Step(Expire))

-----------------------------------------------------------------------------
(* A life that has ended, well or with an error (restore, the rollback of  *)
(* a failed apply, the drop of AppliedProxy), leaves programs the proxies  *)
(* they had before it, if every command took effect, the process was not   *)
(* killed, and the settings it found are Restorable; and it leaves no      *)
(* socket file behind if its accept loops were waited for in time, so that *)
(* the next start can bind it.                                             *)
LeavesNothingBehind ==
    stage = "dropped" /\ "crash" \notin late =>
        /\ ~failed /\ Restorable(host, prior) => Effect(host, settings) = Effect(host, prior)
        /\ late \cap {"start", "tasks"} = {} => socket = "removed"
=============================================================================
