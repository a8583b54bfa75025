------------------------------- MODULE Health -------------------------------
(***************************************************************************)
(* Upstream health: HealthCell and HealthManager of                        *)
(* eggress-routing/src/health.rs.                                          *)
(*                                                                         *)
(* A HealthCell keeps the authoritative snapshot (state and two counters)  *)
(* under a write lock and publishes the state alone in an atomic that the  *)
(* router reads without the lock.  A HealthManager runs one probe task per *)
(* upstream.  A reload aborts the old manager's tasks without joining them *)
(* and starts a new manager on the same cells (restart_health_probes in    *)
(* eggress-runtime/src/supervisor/state.rs).  An abort only takes effect   *)
(* where a task awaits, so a task that already holds a probe result still  *)
(* records it.                                                             *)
(***************************************************************************)
EXTENDS Integers, FiniteSets

CONSTANTS
    Upstreams,            \* upstreams kept by every reload: their cells are shared
    Permits,              \* semaphore permits of one manager (10 in the code)
    FailuresToUnhealthy,  \* HealthConfig.failures_to_unhealthy
    SuccessesToHealthy,   \* HealthConfig.successes_to_healthy
    InitialState,         \* HealthConfig.initial_state
    CounterMax,           \* where the saturating counters stop (u32::MAX)
    MaxGen                \* bound: number of managers started

HealthStates == {"Unknown", "Healthy", "Suspect", "Unhealthy", "Recovering", "Disabled"}

ASSUME HealthAssumption ==
    /\ IsFiniteSet(Upstreams)
    /\ Permits \in Nat \ {0}
    /\ CounterMax \in Nat
    /\ FailuresToUnhealthy \in 1..CounterMax
    /\ SuccessesToHealthy \in 1..CounterMax
    /\ InitialState \in HealthStates
    /\ MaxGen \in Nat \ {0}

Gens == 1..MaxGen
Tasks == Gens \X Upstreams
NoTask == <<>>

VARIABLES
    cell,       \* HealthCell.inner: state, consecutive_successes, consecutive_failures
    published,  \* HealthCell.state, the atomic read by is_eligible
    writer,     \* the task inside the cell's write lock, or NoTask
    phase,      \* where each probe task is
    result,     \* outcome of the task's last probe
    gen,        \* the manager now stored in RuntimeState.health
    cancelled,  \* health_cancel
    streak,     \* history: length of the last run of equal outcomes, < 0 for failures
    late        \* history: observations a task made after its manager was stopped

cellVars == <<cell, published, writer, streak>>
taskVars == <<phase, result, late>>
vars == <<cell, published, writer, phase, result, gen, cancelled, streak, late>>

Up(t) == t[2]

(* The task's manager has been replaced: stop_all was called on it. *)
Stopped(t) == t[1] < gen

(* stop_all as it would be if it kept the JoinSet running. *)
NeverAborted(t) == FALSE

(* abort_all has marked the task; the mark takes effect where it awaits.   *)
Aborted(t) == Stopped(t)

(* A permit of the task's manager is held from acquire_owned to drop.      *)
Holders(g) == {t \in Tasks : t[1] = g /\ phase[t] \in {"Probing", "Result", "Publishing"}}

Saturating(n) == IF n < CounterMax THEN n + 1 ELSE n
-----------------------------------------------------------------------------
(* The match of observe_success on the current state; succ is the counter  *)
(* after its increment.                                                    *)
AfterSuccess(st, succ) ==
    CASE st \in {"Disabled", "Healthy"} -> st
      [] st = "Unhealthy" -> "Recovering"
      [] OTHER -> IF succ >= SuccessesToHealthy THEN "Healthy" ELSE st

(* observe_failure without the threshold for a recovering upstream. *)
AfterFailureFlapping(st, fail) ==
    IF st \in {"Disabled", "Unhealthy"} THEN st
    ELSE IF fail >= FailuresToUnhealthy \/ st = "Recovering" THEN "Unhealthy"
    ELSE "Suspect"

(* The match of observe_failure; fail is the counter after its increment.  *)
AfterFailure(st, fail) ==
    IF st \in {"Disabled", "Unhealthy"} THEN st
    ELSE IF fail >= FailuresToUnhealthy THEN "Unhealthy"
    ELSE IF st = "Recovering" THEN st ELSE "Suspect"

Success(c) ==
    LET succ == Saturating(c.succ)
    IN  [state |-> AfterSuccess(c.state, succ), succ |-> succ, fail |-> 0]

Failure(c) ==
    LET fail == Saturating(c.fail)
    IN  [state |-> AfterFailure(c.state, fail), succ |-> 0, fail |-> fail]

Init ==
    /\ cell = [u \in Upstreams |-> [state |-> InitialState, succ |-> 0, fail |-> 0]]
    /\ published = [u \in Upstreams |-> InitialState]
    /\ writer = [u \in Upstreams |-> NoTask]
    /\ phase = [t \in Tasks |-> IF t[1] = 1 THEN "Sleeping" ELSE "Unborn"]
    /\ result = [t \in Tasks |-> FALSE]
    /\ gen = 1
    /\ cancelled = FALSE
    /\ streak = [u \in Upstreams |-> 0]
    /\ late = [t \in Tasks |-> 0]
-----------------------------------------------------------------------------
(* The jittered delay elapses and the token is not cancelled. *)
Wake(t) ==
    /\ phase[t] = "Sleeping" /\ ~Aborted(t) /\ ~cancelled
    /\ phase' = [phase EXCEPT ![t] = "Waiting"]
    /\ UNCHANGED <<cellVars, result, late, gen, cancelled>>

(* acquire_owned on the manager's own semaphore, without watching the token *)
Acquire(t) ==
    /\ phase[t] = "Waiting" /\ ~Aborted(t)
    /\ Cardinality(Holders(t[1])) < Permits
    /\ phase' = [phase EXCEPT ![t] = "Probing"]
    /\ UNCHANGED <<cellVars, result, late, gen, cancelled>>

(* probe_tcp connects, is refused or times out.  From here to the end of   *)
(* the loop body the task does not await.                                  *)
ProbeDone(t) ==
    /\ phase[t] = "Probing" /\ ~Aborted(t)
    /\ \E ok \in BOOLEAN : result' = [result EXCEPT ![t] = ok]
    /\ phase' = [phase EXCEPT ![t] = "Result"]
    /\ UNCHANGED <<cellVars, late, gen, cancelled>>

(* The loop with `continue` where it has `break`. *)
BreakContinues(t) ==
    /\ phase[t] \in {"Sleeping", "Probing"} /\ cancelled
    /\ phase' = [phase EXCEPT ![t] = "Waiting"]
    /\ UNCHANGED <<cellVars, result, late, gen, cancelled>>

(* The loop breaks on the token: during the delay, or in the select around *)
(* the probe.  A task waiting for a permit does not watch the token.       *)
Break(t) ==
    /\ phase[t] \in {"Sleeping", "Probing"} /\ cancelled
    /\ phase' = [phase EXCEPT ![t] = "Ended"]
    /\ UNCHANGED <<cellVars, result, late, gen, cancelled>>

(* An aborted task is dropped where it awaits; its permit is released. *)
AbortLands(t) ==
    /\ phase[t] \in {"Sleeping", "Waiting", "Probing"} /\ Aborted(t)
    /\ phase' = [phase EXCEPT ![t] = "Ended"]
    /\ UNCHANGED <<cellVars, result, late, gen, cancelled>>

(* The history of late observations is only told apart up to two. *)
AtMostTwo(n) == IF n < 2 THEN n + 1 ELSE n

(* observe_success or observe_failure: the snapshot changes under the lock *)
Observe(t) ==
    /\ phase[t] = "Result" /\ writer[Up(t)] = NoTask
    /\ writer' = [writer EXCEPT ![Up(t)] = t]
    /\ cell' = [cell EXCEPT ![Up(t)] = IF result[t] THEN Success(@) ELSE Failure(@)]
    /\ streak' = [streak EXCEPT ![Up(t)] =
                    IF result[t] THEN Saturating(IF @ > 0 THEN @ ELSE 0)
                                 ELSE -Saturating(IF @ < 0 THEN -@ ELSE 0)]
    /\ late' = [late EXCEPT ![t] = IF Stopped(t) THEN AtMostTwo(@) ELSE @]
    /\ phase' = [phase EXCEPT ![t] = "Publishing"]
    /\ UNCHANGED <<published, result, gen, cancelled>>

(* The end of observe_* as it would be without the store to the atomic. *)
PublishNothing(t) ==
    /\ phase[t] = "Publishing"
    /\ writer' = [writer EXCEPT ![Up(t)] = NoTask]
    /\ phase' = [phase EXCEPT ![t] = "Sleeping"]
    /\ result' = [result EXCEPT ![t] = FALSE]
    /\ UNCHANGED <<cell, published, streak, late, gen, cancelled>>

(* The atomic is stored before the lock is released; the permit is dropped *)
(* and the loop starts over.                                               *)
Publish(t) ==
    /\ phase[t] = "Publishing"
    /\ published' = [published EXCEPT ![Up(t)] = cell[Up(t)].state]
    /\ writer' = [writer EXCEPT ![Up(t)] = NoTask]
    /\ phase' = [phase EXCEPT ![t] = "Sleeping"]
    /\ result' = [result EXCEPT ![t] = FALSE]
    /\ UNCHANGED <<cell, streak, late, gen, cancelled>>

(* restart_health_probes under the health mutex: stop_all on the stored    *)
(* manager, then a new manager with one task per upstream.                 *)
Restart ==
    /\ gen < MaxGen
    /\ gen' = gen + 1
    /\ phase' = [t \in Tasks |-> IF t[1] = gen + 1 THEN "Sleeping" ELSE phase[t]]
    /\ UNCHANGED <<cellVars, result, late, cancelled>>

(* shutdown_ordered cancels the token that every manager was built with.   *)
Cancel ==
    /\ ~cancelled
    /\ cancelled' = TRUE
    /\ UNCHANGED <<cellVars, taskVars, gen>>

(* Every task is polled when it can move: sleeps and probes end (probe_tcp *)
(* has a timeout), aborts land, and a cell's lock is contended by a task   *)
(* and at most one late observation of each stopped manager.  The tokio    *)
(* semaphore serves its waiters in order, so a waiting task that finds a   *)
(* permit free again and again gets one.                                   *)
Polled(t) ==
    Wake(t) \/ ProbeDone(t) \/ Break(t) \/ AbortLands(t) \/ Observe(t) \/ Publish(t)

Done == cancelled /\ (\A t \in Tasks : phase[t] \in {"Unborn", "Ended"}) /\ UNCHANGED vars

Next == (\E t \in Tasks : Polled(t) \/ Acquire(t)) \/ Restart \/ Cancel \/ Done

Fairness == \A t \in Tasks : WF_vars(Polled(t)) /\ SF_vars(Acquire(t))

SafetySpec == Init /\ [][Next]_vars

Spec == SafetySpec /\ Fairness
-----------------------------------------------------------------------------
Eligible(st) == st \in {"Unknown", "Healthy", "Suspect", "Recovering"}

(* Type correctness of the cells, the tasks and the two history variables. *)
TypeOK ==
    /\ cell \in [Upstreams -> [state : HealthStates, succ : 0..CounterMax, fail : 0..CounterMax]]
    /\ published \in [Upstreams -> HealthStates]
    /\ writer \in [Upstreams -> Tasks \cup {NoTask}]
    /\ phase \in [Tasks -> {"Unborn", "Sleeping", "Waiting", "Probing", "Result",
                            "Publishing", "Ended"}]
    /\ result \in [Tasks -> BOOLEAN]
    /\ gen \in Gens
    /\ cancelled \in BOOLEAN
    /\ streak \in [Upstreams -> -CounterMax..CounterMax]
    /\ late \in [Tasks -> 0..2]

(* The counters are the length of the current run of equal outcomes, over  *)
(* all the probe tasks that ever wrote the cell, aborted ones included     *)
(* (observe_success and observe_failure reset each other's counter).       *)
CountersAreStreak ==
    \A u \in Upstreams :
        /\ cell[u].succ = (IF streak[u] > 0 THEN streak[u] ELSE 0)
        /\ cell[u].fail = (IF streak[u] < 0 THEN -streak[u] ELSE 0)

(* The state and the counters agree: Healthy has no failure behind it,     *)
(* Unhealthy no success, and reaching failures_to_unhealthy always makes   *)
(* an upstream Unhealthy unless it is Disabled.                            *)
StateMatchesCounters ==
    \A u \in Upstreams :
        /\ cell[u].state = "Healthy" => cell[u].fail = 0
        /\ cell[u].state = "Unhealthy" => cell[u].succ = 0
        /\ cell[u].fail >= FailuresToUnhealthy => cell[u].state \in {"Unhealthy", "Disabled"}

(* Outside the write lock the atomic the router reads is the state of the  *)
(* snapshot, whatever probe tasks wrote the cell before.                   *)
PublishedIsCurrent ==
    \A u \in Upstreams : writer[u] = NoTask => published[u] = cell[u].state

(* stop_all aborts without joining: each stopped task records at most one  *)
(* more observation, the one whose result it already held.                 *)
AtMostOneLateObservation == \A t \in Tasks : late[t] <= 1

(* An upstream the router considers eligible stops being eligible only     *)
(* when the last failures_to_unhealthy observations all failed, and an     *)
(* ineligible one becomes eligible again only after a success.             *)
EligibilityNeedsStreak ==
    [][\A u \in Upstreams :
         /\ Eligible(published[u]) /\ ~Eligible(published'[u])
              => streak'[u] <= -FailuresToUnhealthy
         /\ ~Eligible(published[u]) /\ Eligible(published'[u]) => streak'[u] > 0]_vars

(* After health_cancel every probe task ends, also the ones queued for a   *)
(* permit when the token was cancelled.                                    *)
CancelEndsProbes ==
    cancelled ~> \A t \in Tasks : phase[t] \in {"Unborn", "Ended"}

(* As long as shutdown does not begin, every upstream is probed again and  *)
(* again, however few permits there are and however often probes restart.  *)
ProbesKeepRunning ==
    \A u \in Upstreams : []<>(cancelled \/ \E g \in Gens : phase[<<g, u>>] = "Publishing")

(* Probing goes on until the token is cancelled, and then it ends. *)
ProbesLive == CancelEndsProbes /\ ProbesKeepRunning
=============================================================================
