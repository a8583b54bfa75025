------------------------- MODULE SupervisionProofs --------------------------
(***************************************************************************)
(* Proofs about the tasks that change what sessions route by while they    *)
(* run: the health checks (Health) and the reload transaction (Reload).    *)
(* They hold for any finite set of upstreams, any thresholds, any number   *)
(* of manager replacements, any callers, configurations and reloads.       *)
(*                                                                         *)
(* Health.  CountersAreStreak, StateMatchesCounters and PublishedIsCurrent *)
(* are about a cell that several probe tasks write.  They need LockOwned:  *)
(* the task inside a cell's write lock is exactly the one that is          *)
(* publishing, so that no second task can store to the atomic.             *)
(*                                                                         *)
(* Reload.  Consistent speaks of the moments when no reload runs; the      *)
(* inductive invariant says what has been published at every point of the  *)
(* transaction (Progress), that only the holder of the lock is in it       *)
(* (OneCaller), and what the snapshot being built will be (Successor).     *)
(***************************************************************************)
EXTENDS Health, Reload, FiniteSetTheorems, TLAPS
-----------------------------------------------------------------------------
(* Health checks. *)
(* A cell's lock is held by t exactly while t is between the change of the *)
(* snapshot and the store to the atomic.                                   *)
LockOwned ==
    \A t \in Tasks : phase[t] = "Publishing" <=> writer[Up(t)] = t

(* The tasks of a manager that is not started yet do not exist. *)
UnbornManagers == \A t \in Tasks : t[1] > gen => phase[t] = "Unborn"

IInv ==
    /\ TypeOK
    /\ LockOwned
    /\ UnbornManagers
    /\ CountersAreStreak
    /\ StateMatchesCounters
    /\ PublishedIsCurrent

CellType == [state : HealthStates, succ : 0..CounterMax, fail : 0..CounterMax]

(* The agreement of one cell with the run of outcomes s behind it, and of  *)
(* its state with its counters.                                            *)
Coherent(c, s) ==
    /\ c.succ = (IF s > 0 THEN s ELSE 0)
    /\ c.fail = (IF s < 0 THEN -s ELSE 0)
    /\ c.state = "Healthy" => c.fail = 0
    /\ c.state = "Unhealthy" => c.succ = 0
    /\ c.fail >= FailuresToUnhealthy => c.state \in {"Unhealthy", "Disabled"}

(* observe_success keeps a cell coherent with the run it extends. *)
LEMMA SuccessCoherent ==
    ASSUME NEW c \in CellType, NEW s \in -CounterMax..CounterMax, Coherent(c, s)
    PROVE  LET s2 == Saturating(IF s > 0 THEN s ELSE 0)
           IN  /\ s2 \in -CounterMax..CounterMax
               /\ Success(c) \in CellType
               /\ Coherent(Success(c), s2)
  BY HealthAssumption
     DEF CellType, HealthStates, Coherent, Saturating, Success, AfterSuccess

(* observe_failure keeps a cell coherent with the run it extends. *)
LEMMA FailureCoherent ==
    ASSUME NEW c \in CellType, NEW s \in -CounterMax..CounterMax, Coherent(c, s)
    PROVE  LET s2 == -Saturating(IF s < 0 THEN -s ELSE 0)
           IN  /\ s2 \in -CounterMax..CounterMax
               /\ Failure(c) \in CellType
               /\ Coherent(Failure(c), s2)
  BY HealthAssumption
     DEF CellType, HealthStates, Coherent, Saturating, Failure, AfterFailure

(* The cells are coherent exactly when the two invariants hold. *)
LEMMA CellsCoherent ==
    (CountersAreStreak /\ StateMatchesCounters)
      <=> (\A u \in Upstreams : Coherent(cell[u], streak[u]))
  BY DEF Coherent, CountersAreStreak, StateMatchesCounters

(* IInv holds initially: no task publishes, every counter is zero. *)
LEMMA InitIInv == Init => IInv
<1> SUFFICES ASSUME Init PROVE IInv
  OBVIOUS
<1> USE DEF Init
<1>1. TypeOK
  <2>1. InitialState \in HealthStates /\ 0 \in 0..CounterMax
          /\ 0 \in -CounterMax..CounterMax /\ 1 \in Gens
    BY HealthAssumption DEF Gens
  <2> QED
    <3>1. cell \in [Upstreams -> [state : HealthStates, succ : 0..CounterMax, fail : 0..CounterMax]]
      BY <2>1
    <3>2. published \in [Upstreams -> HealthStates] /\ writer \in [Upstreams -> Tasks \cup {NoTask}]
      BY <2>1
    <3>3. phase \in [Tasks -> {"Unborn", "Sleeping", "Waiting", "Probing", "Result",
                               "Publishing", "Ended"}]
      OBVIOUS
    <3>4. result \in [Tasks -> BOOLEAN] /\ gen \in Gens /\ cancelled \in BOOLEAN
      BY <2>1, Zenon
    <3>5. streak \in [Upstreams -> -CounterMax..CounterMax] /\ late \in [Tasks -> 0..2]
      BY <2>1
    <3> QED
      BY <3>1, <3>2, <3>3, <3>4, <3>5 DEF TypeOK
<1>2. LockOwned
  <2> SUFFICES ASSUME NEW t \in Tasks PROVE phase[t] # "Publishing" /\ writer[Up(t)] # t
    BY DEF LockOwned
  <2>1. t # NoTask
    BY DEF Tasks, NoTask
  <2> QED
    BY <2>1 DEF Tasks, Up
<1>3. CountersAreStreak /\ StateMatchesCounters /\ PublishedIsCurrent
  BY HealthAssumption DEF CountersAreStreak, StateMatchesCounters, PublishedIsCurrent
<1>4. UnbornManagers
  BY DEF UnbornManagers
<1> QED
  BY <1>1, <1>2, <1>3, <1>4 DEF IInv

Phases == {"Unborn", "Sleeping", "Waiting", "Probing", "Result", "Publishing", "Ended"}

(* A step of a live task that touches no cell and does not begin or end a  *)
(* publication preserves IInv.                                             *)
LEMMA TaskMoves ==
    ASSUME IInv, NEW t \in Tasks, NEW new \in Phases \ {"Publishing"},
           phase[t] \notin {"Publishing", "Unborn"},
           phase' = [phase EXCEPT ![t] = new],
           result' \in [Tasks -> BOOLEAN],
           UNCHANGED <<cell, published, writer, streak, late, gen, cancelled>>
    PROVE  IInv'
<1>1. TypeOK'
  <2>1. phase' \in [Tasks -> Phases]
    BY DEF IInv, TypeOK, Phases
  <2> QED
    BY <2>1 DEF IInv, TypeOK, Phases
<1>2. LockOwned' /\ UnbornManagers'
  BY DEF IInv, TypeOK, LockOwned, UnbornManagers, Phases
<1>3. CountersAreStreak' /\ StateMatchesCounters' /\ PublishedIsCurrent'
  BY DEF IInv, CountersAreStreak, StateMatchesCounters, PublishedIsCurrent
<1> QED
  BY <1>1, <1>2, <1>3 DEF IInv

(* Recording an outcome preserves IInv (observe_success, observe_failure). *)
LEMMA ObserveIInv ==
    ASSUME IInv, NEW t \in Tasks, Observe(t)
    PROVE  IInv'
<1> DEFINE u == Up(t)
<1>0. u \in Upstreams /\ t # NoTask
  BY DEF Tasks, Up, NoTask
<1>1. \A v \in Upstreams : Coherent(cell[v], streak[v])
  BY CellsCoherent DEF IInv
<1>2. cell[u] \in CellType /\ streak[u] \in -CounterMax..CounterMax
  BY <1>0 DEF IInv, TypeOK, CellType
<1>3. cell'[u] \in CellType /\ streak'[u] \in -CounterMax..CounterMax
        /\ Coherent(cell'[u], streak'[u])
  <2>1. CASE result[t]
    <3>1. cell'[u] = Success(cell[u])
            /\ streak'[u] = Saturating(IF streak[u] > 0 THEN streak[u] ELSE 0)
      BY <1>0, <2>1 DEF IInv, TypeOK, Observe
    <3> QED
      BY <1>0, <1>1, <1>2, <3>1, SuccessCoherent
  <2>2. CASE ~result[t]
    <3>1. cell'[u] = Failure(cell[u])
            /\ streak'[u] = -Saturating(IF streak[u] < 0 THEN -streak[u] ELSE 0)
      BY <1>0, <2>2 DEF IInv, TypeOK, Observe
    <3> QED
      BY <1>0, <1>1, <1>2, <3>1, FailureCoherent
  <2> QED
    BY <2>1, <2>2
<1>4. \A v \in Upstreams \ {u} : cell'[v] = cell[v] /\ streak'[v] = streak[v]
  BY DEF IInv, TypeOK, Observe
<1>5. cell' = [cell EXCEPT ![u] = cell'[u]] /\ streak' = [streak EXCEPT ![u] = streak'[u]]
  BY <1>0 DEF IInv, TypeOK, Observe
<1>6. TypeOK'
  <2>1. cell' \in [Upstreams -> CellType] /\ streak' \in [Upstreams -> -CounterMax..CounterMax]
    BY <1>0, <1>3, <1>5 DEF IInv, TypeOK, CellType
  <2>2. writer' \in [Upstreams -> Tasks \cup {NoTask}]
    BY <1>0 DEF IInv, TypeOK, Observe
  <2>3. late' \in [Tasks -> 0..2]
    BY DEF IInv, TypeOK, Observe, AtMostTwo
  <2>4. phase' \in [Tasks -> {"Unborn", "Sleeping", "Waiting", "Probing", "Result",
                              "Publishing", "Ended"}]
    BY DEF IInv, TypeOK, Observe
  <2> QED
    BY <2>1, <2>2, <2>3, <2>4, Zenon DEF IInv, TypeOK, Observe, CellType
<1>7. LockOwned'
  <2> SUFFICES ASSUME NEW k \in Tasks
               PROVE  phase'[k] = "Publishing" <=> writer'[Up(k)] = k
    BY DEF LockOwned
  <2>1. CASE k = t
    BY <1>0, <2>1 DEF IInv, TypeOK, Observe
  <2>2. CASE k # t
    <3>1. Up(k) \in Upstreams
      BY DEF Tasks, Up
    <3>2. phase'[k] = phase[k]
      BY <2>2 DEF IInv, TypeOK, Observe
    <3>3. Up(k) = u => writer[Up(k)] # k /\ writer'[Up(k)] # k
      BY <1>0, <2>2, <3>1 DEF IInv, TypeOK, Observe, Tasks, NoTask
    <3>4. Up(k) # u => writer'[Up(k)] = writer[Up(k)]
      BY <3>1 DEF IInv, TypeOK, Observe
    <3> QED
      BY <3>2, <3>3, <3>4 DEF IInv, LockOwned
  <2> QED
    BY <2>1, <2>2
<1>8. \A v \in Upstreams : Coherent(cell'[v], streak'[v])
  BY <1>1, <1>3, <1>4, Zenon
<1>9. CountersAreStreak' /\ StateMatchesCounters'
  BY <1>8 DEF Coherent, CountersAreStreak, StateMatchesCounters
<1>10. PublishedIsCurrent'
  BY <1>0, <1>4 DEF IInv, TypeOK, Observe, PublishedIsCurrent
<1>11. UnbornManagers'
  BY DEF IInv, TypeOK, Observe, UnbornManagers
<1> QED
  BY <1>6, <1>7, <1>9, <1>10, <1>11 DEF IInv

(* Storing the atomic and leaving the lock preserves IInv. *)
LEMMA PublishIInv ==
    ASSUME IInv, NEW t \in Tasks, Publish(t)
    PROVE  IInv'
<1> DEFINE u == Up(t)
<1>0. u \in Upstreams /\ \A k \in Tasks : k # NoTask /\ Up(k) \in Upstreams
  BY DEF Tasks, Up, NoTask
<1>1. writer[u] = t
  BY DEF IInv, LockOwned, Publish
<1>2. TypeOK'
  BY <1>0 DEF IInv, TypeOK, Publish
<1>3. LockOwned'
  <2> SUFFICES ASSUME NEW k \in Tasks
               PROVE  phase'[k] = "Publishing" <=> writer'[Up(k)] = k
    BY DEF LockOwned
  <2>1. CASE k = t
    BY <1>0, <2>1 DEF IInv, TypeOK, Publish
  <2>2. CASE k # t
    <3>1. phase'[k] = phase[k]
      BY <2>2 DEF IInv, TypeOK, Publish
    <3>2. Up(k) = u => writer[Up(k)] # k /\ writer'[Up(k)] # k
      BY <1>0, <1>1, <2>2 DEF IInv, TypeOK, Publish
    <3>3. Up(k) # u => writer'[Up(k)] = writer[Up(k)]
      BY <1>0 DEF IInv, TypeOK, Publish
    <3> QED
      BY <3>1, <3>2, <3>3 DEF IInv, LockOwned
  <2> QED
    BY <2>1, <2>2
<1>4. CountersAreStreak' /\ StateMatchesCounters'
  BY DEF IInv, Publish, CountersAreStreak, StateMatchesCounters
<1>5. PublishedIsCurrent'
  BY <1>0 DEF IInv, TypeOK, Publish, PublishedIsCurrent
<1>6. UnbornManagers'
  BY DEF IInv, TypeOK, Publish, UnbornManagers
<1> QED
  BY <1>2, <1>3, <1>4, <1>5, <1>6 DEF IInv

(* Every step preserves IInv. *)
LEMMA NextIInv == IInv /\ [Next]_vars => IInv'
<1> SUFFICES ASSUME IInv, [Next]_vars PROVE IInv'
  OBVIOUS
<1>1. ASSUME NEW t \in Tasks, Wake(t) PROVE IInv'
  <2>1. /\ phase[t] \notin {"Publishing", "Unborn"} /\ phase' = [phase EXCEPT ![t] = "Waiting"]
        /\ result' \in [Tasks -> BOOLEAN]
        /\ UNCHANGED <<cell, published, writer, streak, late, gen, cancelled>>
    BY <1>1 DEF Wake, IInv, TypeOK, cellVars
  <2>2. "Waiting" \in Phases \ {"Publishing"}
    BY DEF Phases
  <2> QED
    BY <2>1, <2>2, TaskMoves, Zenon
<1>2. ASSUME NEW t \in Tasks, Acquire(t) PROVE IInv'
  <2>1. /\ phase[t] \notin {"Publishing", "Unborn"} /\ phase' = [phase EXCEPT ![t] = "Probing"]
        /\ result' \in [Tasks -> BOOLEAN]
        /\ UNCHANGED <<cell, published, writer, streak, late, gen, cancelled>>
    BY <1>2 DEF Acquire, IInv, TypeOK, cellVars
  <2>2. "Probing" \in Phases \ {"Publishing"}
    BY DEF Phases
  <2> QED
    BY <2>1, <2>2, TaskMoves, Zenon
<1>3. ASSUME NEW t \in Tasks, ProbeDone(t) PROVE IInv'
  <2>1. /\ phase[t] \notin {"Publishing", "Unborn"} /\ phase' = [phase EXCEPT ![t] = "Result"]
        /\ result' \in [Tasks -> BOOLEAN]
        /\ UNCHANGED <<cell, published, writer, streak, late, gen, cancelled>>
    BY <1>3 DEF ProbeDone, IInv, TypeOK, cellVars
  <2>2. "Result" \in Phases \ {"Publishing"}
    BY DEF Phases
  <2> QED
    BY <2>1, <2>2, TaskMoves, Zenon
<1>4. ASSUME NEW t \in Tasks, Break(t) PROVE IInv'
  <2>1. /\ phase[t] \notin {"Publishing", "Unborn"} /\ phase' = [phase EXCEPT ![t] = "Ended"]
        /\ result' \in [Tasks -> BOOLEAN]
        /\ UNCHANGED <<cell, published, writer, streak, late, gen, cancelled>>
    BY <1>4 DEF Break, IInv, TypeOK, cellVars
  <2>2. "Ended" \in Phases \ {"Publishing"}
    BY DEF Phases
  <2> QED
    BY <2>1, <2>2, TaskMoves, Zenon
<1>5. ASSUME NEW t \in Tasks, AbortLands(t) PROVE IInv'
  <2>1. /\ phase[t] \notin {"Publishing", "Unborn"} /\ phase' = [phase EXCEPT ![t] = "Ended"]
        /\ result' \in [Tasks -> BOOLEAN]
        /\ UNCHANGED <<cell, published, writer, streak, late, gen, cancelled>>
    BY <1>5 DEF AbortLands, IInv, TypeOK, cellVars
  <2>2. "Ended" \in Phases \ {"Publishing"}
    BY DEF Phases
  <2> QED
    BY <2>1, <2>2, TaskMoves, Zenon
<1>6. CASE Restart
  <2>1. TypeOK'
    <3>1. phase' \in [Tasks -> Phases]
      BY <1>6 DEF IInv, TypeOK, Restart, Phases
    <3>2. gen' \in Gens
      BY <1>6, HealthAssumption DEF IInv, TypeOK, Restart, Gens
    <3> QED
      BY <1>6, <3>1, <3>2 DEF IInv, TypeOK, Restart, Phases, cellVars
  <2>2. \A t \in Tasks : t[1] = gen + 1 => phase[t] = "Unborn"
    BY DEF IInv, TypeOK, UnbornManagers, Gens
  <2>3. LockOwned'
    BY <1>6, <2>2 DEF IInv, TypeOK, LockOwned, Restart, cellVars
  <2>4. UnbornManagers'
    BY <1>6 DEF IInv, TypeOK, UnbornManagers, Restart, Gens, Tasks
  <2>5. CountersAreStreak' /\ StateMatchesCounters' /\ PublishedIsCurrent'
    BY <1>6, Zenon DEF IInv, CountersAreStreak, StateMatchesCounters, PublishedIsCurrent, Restart, cellVars
  <2> QED
    BY <2>1, <2>3, <2>4, <2>5 DEF IInv
<1>7. ASSUME UNCHANGED <<cellVars, taskVars, gen>>, cancelled' \in BOOLEAN PROVE IInv'
  BY <1>7, Zenon DEF IInv, TypeOK, LockOwned, UnbornManagers, CountersAreStreak,
              StateMatchesCounters, PublishedIsCurrent, cellVars, taskVars
<1>8. CASE Cancel
  BY <1>7, <1>8 DEF Cancel
<1>9. CASE UNCHANGED vars
  BY <1>7, <1>9, Zenon DEF vars, cellVars, taskVars, IInv, TypeOK
<1> QED
  BY <1>1, <1>2, <1>3, <1>4, <1>5, <1>6, <1>8, <1>9, ObserveIInv, PublishIInv
     DEF Next, Polled, Done

(* What a cell may hold that its atomic does not show yet: a transition    *)
(* that the thresholds justify.                                            *)
PendingTransition ==
    \A u \in Upstreams :
        /\ published[u] = "Disabled" <=> cell[u].state = "Disabled"
        /\ Eligible(published[u]) /\ cell[u].state = "Unhealthy"
             => cell[u].fail >= FailuresToUnhealthy
        /\ ~Eligible(published[u]) /\ Eligible(cell[u].state) => cell[u].succ > 0

(* One observation makes only justified transitions. *)
LEMMA TransitionJustified ==
    ASSUME NEW c \in CellType
    PROVE  /\ \A d \in {Success(c), Failure(c)} : d.state = "Disabled" <=> c.state = "Disabled"
           /\ Eligible(c.state) => Success(c).state # "Unhealthy"
           /\ Eligible(c.state) /\ Failure(c).state = "Unhealthy"
                => Failure(c).fail >= FailuresToUnhealthy
           /\ ~Eligible(c.state) => ~Eligible(Failure(c).state)
           /\ Success(c).succ > 0
  BY HealthAssumption
     DEF CellType, HealthStates, Eligible, Saturating, Success, AfterSuccess, Failure, AfterFailure

(* Only observations and publications touch what PendingTransition says. *)
LEMMA NextPending ==
    IInv /\ PendingTransition /\ [Next]_vars => PendingTransition'
<1> SUFFICES ASSUME IInv, PendingTransition, [Next]_vars PROVE PendingTransition'
  OBVIOUS
<1>1. ASSUME NEW t \in Tasks, Observe(t) PROVE PendingTransition'
  <2> SUFFICES ASSUME NEW u \in Upstreams
               PROVE  /\ published'[u] = "Disabled" <=> cell'[u].state = "Disabled"
                      /\ Eligible(published'[u]) /\ cell'[u].state = "Unhealthy"
                           => cell'[u].fail >= FailuresToUnhealthy
                      /\ ~Eligible(published'[u]) /\ Eligible(cell'[u].state)
                           => cell'[u].succ > 0
    BY Zenon DEF PendingTransition
  <2>1. published' = published
    BY <1>1, Zenon DEF Observe
  <2>2. CASE u = Up(t)
    <3>1. cell[u] \in CellType /\ published[u] = cell[u].state
      BY <1>1, <2>2, Zenon DEF IInv, TypeOK, CellType, PublishedIsCurrent, Observe
    <3>2. cell'[u] = IF result[t] THEN Success(cell[u]) ELSE Failure(cell[u])
      BY <1>1, <2>2, Zenon DEF IInv, TypeOK, Observe
    <3> QED
      BY <2>1, <3>1, <3>2, TransitionJustified, Zenon
  <2>3. CASE u # Up(t)
    <3>1. cell'[u] = cell[u]
      BY <1>1, <2>3, Zenon DEF IInv, TypeOK, Observe
    <3> QED
      BY <2>1, <3>1, Zenon DEF PendingTransition
  <2> QED
    BY <2>2, <2>3, Zenon
<1>2. ASSUME NEW t \in Tasks, Publish(t) PROVE PendingTransition'
  BY <1>2, Zenon DEF IInv, TypeOK, PendingTransition, Publish, Eligible
<1>3. ASSUME UNCHANGED <<cell, published>> PROVE PendingTransition'
  BY <1>3, Zenon DEF PendingTransition
<1> QED
  BY <1>1, <1>2, <1>3, Zenon
     DEF Next, Polled, Done, Wake, Acquire, ProbeDone, Break, AbortLands, Restart, Cancel,
         cellVars, vars

(* The atomic changes only when a task publishes. *)
LEMMA StepNeedsStreak ==
    IInv /\ PendingTransition /\ [Next]_vars =>
      \A u \in Upstreams :
         /\ Eligible(published[u]) /\ ~Eligible(published'[u])
              => streak'[u] <= -FailuresToUnhealthy
         /\ ~Eligible(published[u]) /\ Eligible(published'[u]) => streak'[u] > 0
<1> SUFFICES ASSUME IInv, PendingTransition, [Next]_vars, NEW u \in Upstreams
             PROVE  /\ Eligible(published[u]) /\ ~Eligible(published'[u])
                         => streak'[u] <= -FailuresToUnhealthy
                    /\ ~Eligible(published[u]) /\ Eligible(published'[u]) => streak'[u] > 0
  OBVIOUS
<1>1. ASSUME NEW t \in Tasks, Publish(t), u = Up(t), published'[u] = cell[u].state
      PROVE  /\ Eligible(published[u]) /\ ~Eligible(published'[u])
                  => streak'[u] <= -FailuresToUnhealthy
             /\ ~Eligible(published[u]) /\ Eligible(published'[u]) => streak'[u] > 0
  <2>1. cell[u].state \in HealthStates /\ streak[u] \in Int /\ streak'[u] = streak[u]
    BY <1>1 DEF IInv, TypeOK, Publish
  <2>2. ~Eligible(cell[u].state) => cell[u].state \in {"Unhealthy", "Disabled"}
    BY <2>1 DEF HealthStates, Eligible
  <2>3. /\ cell[u].succ = (IF streak[u] > 0 THEN streak[u] ELSE 0)
        /\ cell[u].fail = (IF streak[u] < 0 THEN -streak[u] ELSE 0)
    BY Zenon DEF IInv, CountersAreStreak
  <2>4. FailuresToUnhealthy \in Nat /\ FailuresToUnhealthy > 0
    BY HealthAssumption
  <2>5. Eligible(published[u]) => published[u] # "Disabled"
    BY DEF Eligible
  <2> QED
    BY <1>1, <2>1, <2>2, <2>3, <2>4, <2>5 DEF PendingTransition
<1>2. ASSUME published'[u] = published[u]
      PROVE  /\ Eligible(published[u]) /\ ~Eligible(published'[u])
                  => streak'[u] <= -FailuresToUnhealthy
             /\ ~Eligible(published[u]) /\ Eligible(published'[u]) => streak'[u] > 0
  BY <1>2, Zenon
<1>3. ASSUME NEW t \in Tasks, Publish(t)
      PROVE  (u = Up(t) /\ published'[u] = cell[u].state) \/ published'[u] = published[u]
  BY <1>3, Zenon DEF IInv, TypeOK, Publish
<1>4. (\E t \in Tasks : Publish(t)) \/ UNCHANGED published
  BY Zenon DEF Next, Polled, Done, Wake, Acquire, ProbeDone, Break, AbortLands, Observe, Restart,
         Cancel, cellVars, vars
<1> QED
  BY <1>1, <1>2, <1>3, <1>4, Zenon

(* The inductive invariant holds in every behaviour. *)
THEOREM Inductive == SafetySpec => [](IInv /\ PendingTransition)
<1>1. Init => PendingTransition
  BY HealthAssumption DEF Init, PendingTransition, Eligible, HealthStates
<1> QED
  BY <1>1, InitIInv, NextIInv, NextPending, PTL DEF SafetySpec

(* The state keeps its type; the counters saturate (HealthSnapshot). *)
THEOREM TypeCorrect == SafetySpec => []TypeOK
<1>1. IInv => TypeOK
  BY DEF IInv
<1> QED
  BY <1>1, Inductive, PTL

(* The counters always are the current run of equal outcomes, whatever     *)
(* stopped probe tasks still record (observe_success, observe_failure).    *)
THEOREM CountersCorrect == SafetySpec => []CountersAreStreak
<1>1. IInv => CountersAreStreak
  BY DEF IInv
<1> QED
  BY <1>1, Inductive, PTL

(* The state always agrees with the counters and the failure threshold.    *)
THEOREM StateCorrect == SafetySpec => []StateMatchesCounters
<1>1. IInv => StateMatchesCounters
  BY DEF IInv
<1> QED
  BY <1>1, Inductive, PTL

(* The atomic that is_eligible reads is the snapshot's state whenever the  *)
(* cell's write lock is free.                                              *)
THEOREM PublicationCorrect == SafetySpec => []PublishedIsCurrent
<1>1. IInv => PublishedIsCurrent
  BY DEF IInv
<1> QED
  BY <1>1, Inductive, PTL

(* Hysteresis: an upstream loses eligibility only at the end of a run of   *)
(* failures_to_unhealthy failures and regains it only on a success, for    *)
(* any thresholds and any number of concurrent and stopped probe tasks.    *)
THEOREM Hysteresis == SafetySpec => EligibilityNeedsStreak
  BY Inductive, StepNeedsStreak, PTL DEF SafetySpec, EligibilityNeedsStreak

(* A task records its late observation with the result it held when its    *)
(* manager was stopped, and cannot get another: it is dropped where it     *)
(* next awaits.                                                            *)
LateInv ==
    \A t \in Tasks : late[t] = 0 \/ (late[t] = 1 /\ Stopped(t) /\ phase[t] # "Result")

(* Every step preserves LateInv (stop_all aborts without joining).         *)
LEMMA NextLate == IInv /\ LateInv /\ [Next]_vars => LateInv'
<1> SUFFICES ASSUME IInv, LateInv, [Next]_vars PROVE LateInv'
  OBVIOUS
<1>1. ASSUME NEW t \in Tasks, NEW new, new # "Result", phase' = [phase EXCEPT ![t] = new],
             UNCHANGED <<late, gen>>
      PROVE  LateInv'
  BY <1>1 DEF LateInv, Stopped, IInv, TypeOK
<1>2. ASSUME NEW t \in Tasks, ProbeDone(t) PROVE LateInv'
  <2>1. late[t] = 0
    BY <1>2 DEF ProbeDone, LateInv, Aborted
  <2> QED BY <1>2, <2>1, Zenon DEF ProbeDone, LateInv, Stopped, IInv, TypeOK
<1>3. ASSUME NEW t \in Tasks, Observe(t) PROVE LateInv'
  <2>1. late[t] = 0 /\ late'[t] = (IF Stopped(t) THEN 1 ELSE 0) /\ phase'[t] = "Publishing"
    BY <1>3 DEF Observe, LateInv, AtMostTwo, IInv, TypeOK
  <2>2. \A k \in Tasks \ {t} : late'[k] = late[k] /\ phase'[k] = phase[k]
    BY <1>3, Zenon DEF Observe, IInv, TypeOK
  <2>3. gen' = gen
    BY <1>3, Zenon DEF Observe
  <2> QED BY <2>1, <2>2, <2>3 DEF LateInv, Stopped
<1>4. ASSUME NEW t \in Tasks,
             Wake(t) \/ Acquire(t) \/ Break(t) \/ AbortLands(t) \/ Publish(t)
      PROVE  LateInv'
  <2>1. \E new \in {"Waiting", "Probing", "Ended", "Sleeping"} : phase' = [phase EXCEPT ![t] = new]
    BY <1>4, Zenon DEF Wake, Acquire, Break, AbortLands, Publish
  <2>2. UNCHANGED <<late, gen>>
    BY <1>4, Zenon DEF Wake, Acquire, Break, AbortLands, Publish
  <2> QED BY <1>1, <2>1, <2>2, Zenon
<1>5. CASE Restart
  <2>1. \A t \in Tasks : Stopped(t) => Stopped(t)' /\ phase'[t] = phase[t]
    BY <1>5 DEF Restart, Stopped, IInv, TypeOK, Gens, Tasks
  <2> QED BY <1>5, <2>1, Zenon DEF Restart, LateInv
<1>6. CASE UNCHANGED <<late, gen, phase>>
  BY <1>6 DEF LateInv, Stopped
<1> QED
  BY <1>2, <1>3, <1>4, <1>5, <1>6 DEF Next, Polled, Done, Cancel, taskVars, vars

(* Replacing a manager lets each of its tasks record at most one more      *)
(* outcome, for any number of upstreams and managers (stop_all).           *)
THEOREM LateAtMostOnce == SafetySpec => []AtMostOneLateObservation
<1>1. Init => LateInv
  BY Zenon DEF Init, LateInv
<1>2. LateInv => AtMostOneLateObservation
  BY DEF LateInv, AtMostOneLateObservation
<1> QED
  BY <1>1, <1>2, NextLate, Inductive, PTL DEF SafetySpec

(* At most Permits probes of one manager run at a time (the semaphore of   *)
(* HealthManager, released by every way out of a probe).                   *)
ProbesBounded == \A g \in Gens : Cardinality(Holders(g)) <= Permits

(* The holders of a manager's permits are finitely many.                   *)
LEMMA HoldersFinite ==
    ASSUME NEW g
    PROVE  IsFiniteSet(Holders(g)) /\ Cardinality(Holders(g)) \in Nat
<1>1. IsFiniteSet(Gens)
  BY FS_Interval, HealthAssumption DEF Gens
<1>2. IsFiniteSet(Tasks)
  BY <1>1, FS_Product, HealthAssumption DEF Tasks
<1>3. Holders(g) \subseteq Tasks
  BY DEF Holders
<1> QED BY <1>2, <1>3, FS_Subset, FS_CardinalityType

(* Every step keeps the number of running probes within the permits.       *)
LEMMA NextBounded == IInv /\ ProbesBounded /\ [Next]_vars => ProbesBounded'
<1> SUFFICES ASSUME IInv, ProbesBounded, [Next]_vars, NEW g \in Gens
             PROVE  Cardinality(Holders(g)') <= Permits
  BY DEF ProbesBounded
<1>1. /\ IsFiniteSet(Holders(g)) /\ Cardinality(Holders(g)) \in Nat
      /\ Cardinality(Holders(g)) <= Permits /\ Permits \in Nat
  BY HoldersFinite, HealthAssumption DEF ProbesBounded
<1>2. ASSUME Holders(g)' \subseteq Holders(g) PROVE Cardinality(Holders(g)') <= Permits
  <2>1. /\ IsFiniteSet(Holders(g)') /\ Cardinality(Holders(g)') <= Cardinality(Holders(g))
    BY <1>1, <1>2, FS_Subset, Zenon
  <2>2. Cardinality(Holders(g)') \in Nat
    BY <2>1, FS_CardinalityType, Zenon
  <2> QED BY <1>1, <2>1, <2>2
<1>3. ASSUME NEW t \in Tasks, Acquire(t) PROVE Cardinality(Holders(g)') <= Permits
  <2>1. CASE t[1] = g
    <3>1. Holders(g)' = Holders(g) \cup {t}
      BY <1>3, <2>1, Zenon DEF Acquire, Holders, IInv, TypeOK
    <3>2. Cardinality(Holders(g)) < Permits
      BY <1>3, <2>1 DEF Acquire
    <3>3. t \notin Holders(g)
      BY <1>3 DEF Acquire, Holders
    <3>4. Cardinality(Holders(g) \cup {t}) = Cardinality(Holders(g)) + 1
      BY <1>1, <3>3, FS_AddElement, Zenon
    <3> QED BY <1>1, <3>1, <3>2, <3>4
  <2>2. CASE t[1] # g
    <3>1. Holders(g)' \subseteq Holders(g)
      BY <1>3, <2>2, Zenon DEF Acquire, Holders, IInv, TypeOK
    <3> QED BY <1>2, <3>1, Zenon
  <2> QED BY <2>1, <2>2, Zenon
<1>4. ASSUME NEW t \in Tasks, Wake(t) \/ Break(t) \/ AbortLands(t) \/ Publish(t)
      PROVE  Holders(g)' \subseteq Holders(g)
  <2>1. \E new \in {"Waiting", "Ended", "Sleeping"} : phase' = [phase EXCEPT ![t] = new]
    BY <1>4, Zenon DEF Wake, Break, AbortLands, Publish
  <2> QED BY <2>1, Zenon DEF Holders, IInv, TypeOK
<1>5. ASSUME NEW t \in Tasks, ProbeDone(t) \/ Observe(t) PROVE Holders(g)' \subseteq Holders(g)
  <2>1. /\ phase[t] \in {"Probing", "Result"}
        /\ \E new : phase' = [phase EXCEPT ![t] = new]
    BY <1>5, Zenon DEF ProbeDone, Observe
  <2> QED BY <2>1, Zenon DEF Holders, IInv, TypeOK
<1>6. CASE Restart
  BY <1>2, <1>6, Zenon DEF Restart, Holders, IInv, TypeOK
<1>7. CASE UNCHANGED phase
  BY <1>1, <1>7, Zenon DEF Holders
<1> QED
  BY <1>2, <1>3, <1>4, <1>5, <1>6, <1>7, Zenon
     DEF Next, Polled, Done, Cancel, taskVars, vars

(* Whatever aborts and cancellations do, no manager has more probes under  *)
(* way than its semaphore has permits.                                     *)
THEOREM ProbesAlwaysBounded == SafetySpec => []ProbesBounded
<1>1. Init => ProbesBounded
  <2> SUFFICES ASSUME Init, NEW g \in Gens PROVE Cardinality(Holders(g)) <= Permits
    BY DEF ProbesBounded
  <2>1. Holders(g) = {}
    BY DEF Init, Holders
  <2> QED BY <2>1, FS_EmptySet, HealthAssumption
<1> QED
  BY <1>1, NextBounded, Inductive, PTL DEF SafetySpec
-----------------------------------------------------------------------------
(* Reloads. *)
Agree ==
    /\ routing = RouterOf(snapshot)
    /\ admin = snapshot.gen
    /\ metrics.gen = snapshot.gen
    /\ probed = Range(snapshot.runtimes)

WellMade(s) ==
    /\ DOMAIN s.runtimes = DOMAIN s.config.ups
    /\ \A id \in DOMAIN s.runtimes :
         s.runtimes[id].id = id /\ s.runtimes[id].spec = s.config.ups[id]

Kept(s, n) ==
    \A id \in DOMAIN s.config.ups \cap DOMAIN n.config.ups :
        s.config.ups[id] = n.config.ups[id] => n.runtimes[id] = s.runtimes[id]

Successor(s, n) ==
    /\ n.gen = NextGen(s.gen)
    /\ WellMade(n)
    /\ Effective(n.config) = Effective(s.config)
    /\ Kept(s, n)

OneCaller == \A c \in Callers : call[c] # Idle <=> lock = c

Progress(q) ==
    /\ q.pc = "Apply" => Agree
    /\ q.pc = "Store" => Agree /\ Successor(snapshot, q.new)
    /\ q.pc = "Swap" => snapshot = q.new
    /\ q.pc \in {"Admin", "Probes", "Pools", "Record"} =>
         snapshot = q.new /\ routing = RouterOf(snapshot)
    /\ q.pc \in {"Probes", "Pools", "Record"} => admin = snapshot.gen
    /\ q.pc \in {"Pools", "Record"} => probed = Range(snapshot.runtimes)

ReloadIInv ==
    /\ ReloadTypeOK
    /\ OneCaller
    /\ lock = "free" => Agree
    /\ \A c \in Callers : Progress(call[c])
    /\ RoutingLagsByOne
    /\ WellMade(snapshot)
    /\ CapturedUnchanged
-----------------------------------------------------------------------------
(* The fields of the record a connection becomes when it is accepted.      *)
LEMMA AcceptedFields ==
  ASSUME NEW c, NEW g, c = [state |-> "Accepted", gen |-> g]
  PROVE  c.state = "Accepted" /\ c.gen = g /\ c.state \notin {"Routed", "Open"}
OBVIOUS

(* What a snapshot compiled from an accepted configuration is: the next    *)
(* generation, with runtimes that match their configuration and with every *)
(* unchanged upstream carried over (compile_runtime_snapshot).             *)
LEMMA CompileMakesSuccessor ==
    ASSUME NEW s, NEW cfg, NEW serial,
           WellMade(s), Classified(s.config, cfg)
    PROVE  Successor(s, Compile(s, cfg, serial))
<1>0. PICK n : n = Compile(s, cfg, serial)
  BY Zenon
<1>1. /\ n.gen = NextGen(s.gen)
      /\ n.config = cfg
      /\ n.runtimes = Runtimes(s.runtimes, cfg, serial)
  BY <1>0, Zenon DEF Compile, Snapshot
<1>2. DOMAIN n.runtimes = DOMAIN cfg.ups
  BY <1>1, Zenon DEF Runtimes
<1>3. ASSUME NEW id \in DOMAIN cfg.ups
      PROVE  n.runtimes[id].id = id /\ n.runtimes[id].spec = cfg.ups[id]
  <2>1. CASE id \in DOMAIN s.runtimes /\ s.runtimes[id].spec = cfg.ups[id]
    BY <1>1, <1>3, <2>1, Zenon DEF Runtimes, WellMade
  <2>2. CASE ~(id \in DOMAIN s.runtimes /\ s.runtimes[id].spec = cfg.ups[id])
    <3>1. n.runtimes[id] = [id |-> id, spec |-> cfg.ups[id], serial |-> serial]
      BY <1>1, <1>3, <2>2, Zenon DEF Runtimes
    <3> QED BY <3>1
  <2> QED BY <2>1, <2>2, Zenon
<1>4. Kept(s, n)
  <2>1. ASSUME NEW id \in DOMAIN s.config.ups \cap DOMAIN n.config.ups,
               s.config.ups[id] = n.config.ups[id]
        PROVE  n.runtimes[id] = s.runtimes[id]
    <3>1. /\ id \in DOMAIN cfg.ups /\ id \in DOMAIN s.runtimes
          /\ s.runtimes[id].spec = cfg.ups[id]
      BY <1>1, <2>1, Zenon DEF WellMade
    <3> QED BY <1>1, <3>1, Zenon DEF Runtimes
  <2> QED BY <2>1, Zenon DEF Kept
<1>5. Effective(n.config) = Effective(s.config)
  <2>1. (cfg.transparent = "on") = (s.config.transparent = "on")
    BY Zenon DEF Classified, TransparentUnchanged
  <2> QED BY <1>1, <2>1, Zenon DEF Classified, Effective
<1> QED BY <1>0, <1>1, <1>2, <1>3, <1>4, <1>5, Zenon DEF Successor, WellMade

Stages == {"Store", "Swap", "Admin", "Probes", "Pools", "Record"}

(* A caller past the compilation holds a snapshot; one at its beginning    *)
(* holds an input and a serial number.                                     *)
LEMMA CallShape ==
    ASSUME NEW q \in Calls
    PROVE  /\ q.pc \in Stages => q.new \in Snapshots /\ q = [pc |-> q.pc, new |-> q.new]
           /\ q.pc = "Apply" => q.input \in Input /\ q.serial \in 1..MaxReloads
           /\ q.pc \in Stages \cup {"Apply", "Idle"}
           /\ q.pc = "Idle" <=> q = Idle
BY DEF Calls, Idle, Stages

(* Compilation keeps the type of snapshots. *)
LEMMA CompileType ==
    ASSUME NEW s \in Snapshots, NEW cfg \in Config, NEW serial \in 1..MaxReloads
    PROVE  Compile(s, cfg, serial) \in Snapshots
<1>1. NextGen(s.gen) \in 0..GenMax
  BY ReloadAssumption DEF Snapshots, NextGen
<1>2. Runtimes(s.runtimes, cfg, serial) \in Partial(Ids, Runtime)
  <2>1. PICK D \in SUBSET Ids : cfg.ups \in [D -> Specs]
    BY Zenon DEF Config, Partial
  <2>2. PICK E \in SUBSET Ids : s.runtimes \in [E -> Runtime]
    BY Zenon DEF Snapshots, Partial
  <2>3. Runtimes(s.runtimes, cfg, serial) \in [D -> Runtime]
    BY <2>1, <2>2 DEF Runtimes, Runtime
  <2> QED BY <2>3, Zenon DEF Partial
<1> QED BY <1>1, <1>2, Zenon DEF Compile, Snapshot, Snapshots

(* The router of a snapshot and the runtimes of a snapshot have their      *)
(* types.                                                                  *)
LEMMA SnapshotParts ==
    ASSUME NEW s \in Snapshots
    PROVE  /\ RouterOf(s) \in Router
           /\ Range(s.runtimes) \subseteq Runtime
           /\ s.gen \in 0..GenMax
           /\ s.config \in Config
<1>1. PICK E \in SUBSET Ids : s.runtimes \in [E -> Runtime]
  BY DEF Snapshots, Partial
<1>2. Range(s.runtimes) \subseteq Runtime
  BY <1>1 DEF Range
<1> QED BY <1>2 DEF Snapshots, RouterOf, Router
-----------------------------------------------------------------------------
(* The startup publication satisfies the invariant (init_supervisor). *)
LEMMA InitHolds == ReloadInit => ReloadIInv
<1> SUFFICES ASSUME ReloadInit PROVE ReloadIInv
  OBVIOUS
<1> DEFINE rts == [id \in DOMAIN Startup.ups |->
                     [id |-> id, spec |-> Startup.ups[id], serial |-> 0]]
<1>1. snapshot = [gen |-> 0, config |-> Startup, runtimes |-> rts]
  BY Zenon DEF ReloadInit, Snapshot
<1>2. PICK D \in SUBSET Ids : Startup.ups \in [D -> Specs]
  BY ReloadAssumption, Zenon DEF Config, Partial
<1>3. rts \in [D -> Runtime]
  BY <1>2, ReloadAssumption DEF Runtime
<1>4. snapshot \in Snapshots
  BY <1>1, <1>3, ReloadAssumption DEF Snapshots, Partial
<1>5. ReloadTypeOK
  <2>1. 0 \in 0..GenMax /\ 0 \in 0..MaxReloads /\ 0 \in Nat
    BY ReloadAssumption
  <2>2. call \in [Callers -> Calls] /\ conn \in [Conns -> Connection]
    BY Zenon DEF ReloadInit, Calls, Connection
  <2>3. metrics \in [gen : 0..GenMax, ok : Nat, failed : Nat]
    BY <2>1, Zenon DEF ReloadInit
  <2>4. applied \in Seq(0..GenMax)
    BY DEF ReloadInit
  <2> QED BY <1>4, <2>1, <2>2, <2>3, <2>4, SnapshotParts, Zenon DEF ReloadTypeOK, ReloadInit
<1>6. OneCaller
  BY ReloadAssumption, Zenon DEF OneCaller, ReloadInit
<1>7. Agree
  BY <1>1 DEF Agree, ReloadInit
<1>8. \A c \in Callers : Progress(call[c])
  BY Zenon DEF Progress, ReloadInit, Idle
<1>9. RoutingLagsByOne
  BY <1>1, Zenon DEF RoutingLagsByOne, ReloadInit, RouterOf
<1>10. WellMade(snapshot)
  BY <1>1, Zenon DEF WellMade
<1>11. CapturedUnchanged
  BY <1>1, Zenon DEF CapturedUnchanged
<1> QED BY <1>5, <1>6, <1>7, <1>8, <1>9, <1>10, <1>11 DEF ReloadIInv

(* No step of the transaction or of a connection leaves the types. *)
LEMMA TypeStep == ReloadTypeOK /\ [ReloadNext]_reloadVars => ReloadTypeOK'
<1> SUFFICES ASSUME ReloadTypeOK, [ReloadNext]_reloadVars PROVE ReloadTypeOK'
  OBVIOUS
<1> USE ReloadAssumption
<1>1. ASSUME NEW c \in Callers, NEW i \in Inputs, Begin(c, i) PROVE ReloadTypeOK'
  <2>1. [pc |-> "Apply", input |-> i, serial |-> attempts'] \in Calls
    <3>1. attempts' \in 1..MaxReloads
      BY <1>1 DEF Begin, ReloadTypeOK
    <3> QED BY <3>1, Zenon DEF Calls
  <2>2. attempts' \in 0..MaxReloads
    BY <1>1 DEF Begin, ReloadTypeOK
  <2>3. call' \in [Callers -> Calls]
    BY <1>1, <2>1, Zenon DEF Begin, ReloadTypeOK
  <2> QED BY <1>1, <2>2, <2>3, Zenon DEF Begin, ReloadTypeOK, publishedVars
<1>2. ASSUME NEW c \in Callers, Fail(c) PROVE ReloadTypeOK'
  <2>1. /\ call' = [call EXCEPT ![c] = Idle] /\ lock' = "free"
        /\ metrics' = [metrics EXCEPT !.failed = @ + 1]
        /\ UNCHANGED <<snapshot, routing, admin, probed, pools, attempts, applied, conn>>
    BY <1>2, Zenon DEF Fail, Return
  <2>2. Idle \in Calls
    BY Zenon DEF Calls
  <2>3. call' \in [Callers -> Calls]
    BY <2>1, <2>2, Zenon DEF ReloadTypeOK
  <2>4. metrics' \in [gen : 0..GenMax, ok : Nat, failed : Nat]
    <3>1. metrics \in [gen : 0..GenMax, ok : Nat, failed : Nat]
      BY Zenon DEF ReloadTypeOK
    <3> QED BY <2>1, <3>1
  <2> QED BY <2>1, <2>3, <2>4, Zenon DEF ReloadTypeOK
<1>3. ASSUME NEW c \in Callers, Build(c) PROVE ReloadTypeOK'
  <2>1. call[c].input \in Input /\ call[c].serial \in 1..MaxReloads
    BY <1>3, CallShape, Zenon DEF Build, ReloadTypeOK
  <2>2. call[c].input.cfg \in Config
    BY <1>3, <2>1, Zenon DEF Build, Input
  <2> DEFINE n == Compile(snapshot, call[c].input.cfg, call[c].serial)
  <2>3. n \in Snapshots
    BY <2>1, <2>2, CompileType, Zenon DEF ReloadTypeOK
  <2> HIDE DEF n
  <2>4. [pc |-> "Store", new |-> n] \in Calls
    BY <2>3, Zenon DEF Calls
  <2> QED BY <1>3, <2>4, Zenon DEF Build, ReloadTypeOK, publishedVars, n
<1>4. ASSUME NEW c \in Callers, NEW pc \in Stages, call[c].pc \in Stages, Goto(c, pc)
      PROVE  call' \in [Callers -> Calls]
  BY <1>4, CallShape, Zenon DEF Goto, ReloadTypeOK, Calls, Stages
<1>5. ASSUME NEW c \in Callers, Store(c) PROVE ReloadTypeOK'
  <2>1. call[c].new \in Snapshots
    BY <1>5, CallShape, Zenon DEF Store, ReloadTypeOK, Stages
  <2>2. call' \in [Callers -> Calls]
    BY <1>5, <1>4, Zenon DEF Store, Stages
  <2> QED BY <1>5, <2>1, <2>2, Zenon DEF Store, ReloadTypeOK
<1>6. ASSUME NEW c \in Callers, Swap(c) PROVE ReloadTypeOK'
  <2>1. RouterOf(call[c].new) \in Router
    BY <1>6, CallShape, SnapshotParts, Zenon DEF Swap, ReloadTypeOK, Stages
  <2>2. call' \in [Callers -> Calls]
    BY <1>6, <1>4, Zenon DEF Swap, Stages
  <2> QED BY <1>6, <2>1, <2>2, Zenon DEF Swap, ReloadTypeOK
<1>7. ASSUME NEW c \in Callers, PublishAdmin(c) PROVE ReloadTypeOK'
  <2>1. call[c].new.gen \in 0..GenMax
    BY <1>7, CallShape, SnapshotParts, Zenon DEF PublishAdmin, ReloadTypeOK, Stages
  <2>2. call' \in [Callers -> Calls]
    BY <1>7, <1>4, Zenon DEF PublishAdmin, Stages
  <2> QED BY <1>7, <2>1, <2>2, Zenon DEF PublishAdmin, ReloadTypeOK
<1>8. ASSUME NEW c \in Callers, RestartProbes(c) PROVE ReloadTypeOK'
  <2>1. Range(snapshot.runtimes) \subseteq Runtime
    BY SnapshotParts, Zenon DEF ReloadTypeOK
  <2>2. call' \in [Callers -> Calls]
    BY <1>8, <1>4, Zenon DEF RestartProbes, Stages
  <2> QED BY <1>8, <2>1, <2>2, Zenon DEF RestartProbes, ReloadTypeOK
<1>9. ASSUME NEW c \in Callers, ClearPools(c) PROVE ReloadTypeOK'
  <2>1. call' \in [Callers -> Calls]
    BY <1>9, <1>4, Zenon DEF ClearPools, Stages
  <2> QED BY <1>9, <2>1, Zenon DEF ClearPools, ReloadTypeOK
<1>10. ASSUME NEW c \in Callers, Record(c) PROVE ReloadTypeOK'
  <2>1. call[c].new.gen \in 0..GenMax
    BY <1>10, CallShape, SnapshotParts, Zenon DEF Record, ReloadTypeOK, Stages
  <2>2. call' \in [Callers -> Calls] /\ lock' = "free"
    BY <1>10, Zenon DEF Record, Return, ReloadTypeOK, Calls
  <2>3. metrics' = [gen |-> call[c].new.gen, ok |-> metrics.ok + 1, failed |-> metrics.failed]
    BY <1>10, Zenon DEF Record, ReloadTypeOK
  <2>4. applied' \in Seq(0..GenMax)
    BY <1>10, <2>1 DEF Record, ReloadTypeOK
  <2>5. metrics' \in [gen : 0..GenMax, ok : Nat, failed : Nat]
    BY <2>1, <2>3 DEF ReloadTypeOK
  <2> QED BY <1>10, <2>2, <2>4, <2>5, Zenon DEF Record, ReloadTypeOK
<1>12. ASSUME NEW k \in Conns, NEW e \in Connection, conn' = [conn EXCEPT ![k] = e]
       PROVE  conn' \in [Conns -> Connection]
  BY <1>12, Zenon DEF ReloadTypeOK
<1>13. ASSUME NEW k \in Conns, Accept(k) \/ RouteConn(k) \/ OpenPooled(k) PROVE ReloadTypeOK'
  <2>1. snapshot.gen \in 0..GenMax /\ routing.gen \in 0..GenMax
    BY Zenon DEF ReloadTypeOK, Snapshots, Router
  <2>2. conn[k] \in Connection
    BY Zenon DEF ReloadTypeOK
  <2>3. CASE Accept(k)
    <3>1. [state |-> "Accepted", gen |-> snapshot.gen] \in Connection
      BY <2>1, Zenon DEF Connection
    <3> QED BY <2>3, <3>1, <1>12, Zenon DEF Accept, ReloadTypeOK, publishedVars
  <2>4. CASE RouteConn(k)
    <3>1. conn[k].gen \in 0..GenMax
      BY <2>2, <2>4 DEF Connection, RouteConn, None
    <3>2. [state |-> "Routed", gen |-> conn[k].gen, router |-> routing.gen] \in Connection
      BY <2>1, <3>1, Zenon DEF Connection
    <3> QED BY <2>4, <3>2, <1>12, Zenon DEF RouteConn, ReloadTypeOK, publishedVars
  <2>5. CASE OpenPooled(k)
    <3>1. conn[k].gen \in 0..GenMax /\ conn[k].router \in 0..GenMax
      BY <2>2, <2>5 DEF Connection, OpenPooled, None
    <3>2. [state |-> "Open", gen |-> conn[k].gen, router |-> conn[k].router,
           late |-> conn[k].router # snapshot.gen] \in Connection
      BY <3>1, Zenon DEF Connection
    <3>3. conn' \in [Conns -> Connection]
      BY <2>5, <3>2, <1>12, Zenon DEF OpenPooled
    <3> QED BY <2>5, <3>1, <3>3, Zenon DEF OpenPooled, ReloadTypeOK
  <2> QED BY <1>13, <2>3, <2>4, <2>5
<1>14. CASE UNCHANGED reloadVars
  BY <1>14, Zenon DEF reloadVars, ReloadTypeOK
<1> QED
  BY <1>1, <1>2, <1>3, <1>5, <1>6, <1>7, <1>8, <1>9, <1>10, <1>12, <1>13, <1>14, Zenon
     DEF ReloadNext, Transaction
-----------------------------------------------------------------------------
(* While a caller is in the transaction every other caller is out of it    *)
(* (reload_mutex).                                                         *)
LEMMA OthersIdle ==
    ASSUME OneCaller, NEW c \in Callers, call[c] # Idle
    PROVE  lock = c /\ \A d \in Callers \ {c} : call[d] = Idle
BY DEF OneCaller

(* Every step preserves the invariant. *)
LEMMA StepPreserves == ReloadIInv /\ [ReloadNext]_reloadVars => ReloadIInv'
<1> SUFFICES ASSUME ReloadIInv, [ReloadNext]_reloadVars PROVE ReloadIInv'
  OBVIOUS
<1> USE ReloadAssumption
<1>t. ReloadTypeOK /\ ReloadTypeOK'
  BY TypeStep DEF ReloadIInv
<1>q. \A c \in Callers : call[c] \in Calls
  BY <1>t, Zenon DEF ReloadTypeOK
<1>i. \A q : q = Idle => q.pc = "Idle"
  BY DEF Idle
<1>s. \A q \in Calls : q.pc \in Stages \cup {"Apply"} => q # Idle
  BY <1>i DEF Stages
(* A step of c that keeps c in the transaction. *)
<1>o. ASSUME NEW c \in Callers, NEW n, call[c] # Idle, n # Idle, lock' = lock,
             call' = [call EXCEPT ![c] = n]
      PROVE  OneCaller' /\ lock' # "free" /\ (Progress(n)' => \A d \in Callers : Progress(call[d])')
  <2>1. lock = c /\ \A d \in Callers \ {c} : call[d] = Idle
    BY <1>o, OthersIdle, Zenon DEF ReloadIInv
  <2>2. call'[c] = n /\ \A d \in Callers \ {c} : call'[d] = Idle
    BY <1>o, <2>1, <1>t, Zenon DEF ReloadTypeOK
  <2>3. \A d \in Callers \ {c} : Progress(call[d])'
    BY <2>2, <1>i, Zenon DEF Progress
  <2> QED BY <1>o, <2>1, <2>2, <2>3, Zenon DEF OneCaller
<1>1. ASSUME NEW c \in Callers, NEW i \in Inputs, Begin(c, i) PROVE ReloadIInv'
  <2>1. Agree /\ UNCHANGED <<snapshot, routing, admin, probed, pools, metrics>>
    BY <1>1, Zenon DEF ReloadIInv, Begin, publishedVars
  <2>2. \A d \in Callers : call[d] = Idle
    BY <1>1, Zenon DEF ReloadIInv, OneCaller, Begin
  <2>3. call'[c].pc = "Apply" /\ \A d \in Callers \ {c} : call'[d] = Idle
    BY <1>1, <2>2, <1>t, Zenon DEF Begin, ReloadTypeOK
  <2>4. OneCaller'
    BY <1>1, <2>3, <1>i, Zenon DEF OneCaller, Begin
  <2>5. Agree'
    BY <2>1, Zenon DEF Agree
  <2>6. \A d \in Callers : Progress(call[d])'
    BY <2>3, <2>5, <1>i, Zenon DEF Progress
  <2> QED BY <1>t, <2>1, <2>4, <2>5, <2>6, Zenon DEF ReloadIInv, RoutingLagsByOne, CapturedUnchanged
<1>2. ASSUME NEW c \in Callers, Fail(c) PROVE ReloadIInv'
  <2>1. lock = c /\ \A d \in Callers \ {c} : call[d] = Idle
    BY <1>2, <1>i, OthersIdle DEF Fail, ReloadIInv
  <2>2. Agree
    BY <1>2 DEF Fail, ReloadIInv, Progress
  <2>3. \A d \in Callers : call'[d] = Idle
    BY <1>2, <2>1, <1>t DEF Fail, Return, ReloadTypeOK
  <2>4. Agree'
    BY <1>2, <2>2, <1>t DEF Fail, Agree, ReloadTypeOK
  <2>5. OneCaller'
    BY <1>2, <2>3 DEF Fail, Return, OneCaller
  <2>6. \A d \in Callers : Progress(call[d])'
    BY <2>3, <1>i, Zenon DEF Progress
  <2> QED BY <1>t, <1>2, <2>4, <2>5, <2>6 DEF ReloadIInv, Fail, RoutingLagsByOne, CapturedUnchanged
<1>3. ASSUME NEW c \in Callers, Build(c) PROVE ReloadIInv'
  <2>1. PICK n : n = Compile(snapshot, call[c].input.cfg, call[c].serial)
    OBVIOUS
  <2>2. Successor(snapshot, n)
    BY <1>3, <2>1, CompileMakesSuccessor, Zenon DEF ReloadIInv, Build
  <2>3. PICK q : q = [pc |-> "Store", new |-> n]
    BY Zenon
  <2>4. call' = [call EXCEPT ![c] = q] /\ q # Idle /\ call[c] # Idle
    <3>1. call' = [call EXCEPT ![c] = q] /\ call[c].pc = "Apply"
      BY <1>3, <2>1, <2>3, Zenon DEF Build
    <3> QED BY <2>3, <3>1, <1>i
  <2>5. Agree /\ UNCHANGED <<snapshot, routing, admin, probed, pools, metrics, lock>>
    BY <1>3, Zenon DEF ReloadIInv, Build, Progress, publishedVars
  <2>6. Agree'
    BY <2>5, Zenon DEF Agree
  <2>7. Progress(q)'
    BY <2>2, <2>3, <2>5, <2>6, Zenon DEF Progress
  <2> QED BY <1>t, <1>o, <2>4, <2>5, <2>7, Zenon DEF ReloadIInv, RoutingLagsByOne, CapturedUnchanged
(* A step from one stage to the next: the holder keeps its snapshot. *)
<1>g. ASSUME NEW c \in Callers, NEW pc \in Stages, call[c].pc \in Stages, Goto(c, pc),
             lock' = lock
      PROVE  \E n, q : /\ q = [pc |-> pc, new |-> n] /\ n = call[c].new
                       /\ OneCaller' /\ lock' # "free"
                       /\ (Progress(q)' => \A d \in Callers : Progress(call[d])')
  <2>1. PICK n, q : q = [pc |-> pc, new |-> n] /\ n = call[c].new
    BY Zenon
  <2>2. q # Idle /\ call[c] # Idle
    BY <2>1, <1>g, <1>i DEF Stages
  <2>3. call' = [call EXCEPT ![c] = q]
    BY <1>g, <2>1, Zenon DEF Goto
  <2>4. OneCaller' /\ lock' # "free" /\ (Progress(q)' => \A d \in Callers : Progress(call[d])')
    BY <1>g, <1>o, <2>2, <2>3, Zenon
  <2> QED BY <2>1, <2>4, Zenon
<1>5. ASSUME NEW c \in Callers, Store(c) PROVE ReloadIInv'
  <2>1. PICK n, q : /\ q = [pc |-> "Swap", new |-> n] /\ n = call[c].new
                    /\ OneCaller' /\ lock' # "free"
                    /\ (Progress(q)' => \A d \in Callers : Progress(call[d])')
    BY <1>5, <1>g, Zenon DEF Store, Stages
  <2>2. Agree /\ Successor(snapshot, n) /\ snapshot' = n /\ routing' = routing
    BY <1>5, <2>1, Zenon DEF Store, ReloadIInv, Progress
  <2>3. Progress(q)'
    BY <2>1, <2>2, Zenon DEF Progress
  <2>4. RoutingLagsByOne'
    <3>1. snapshot.gen \in Nat /\ routing.gen = snapshot.gen
      <4>1. snapshot.gen \in 0..GenMax
        BY <1>t, SnapshotParts, Zenon DEF ReloadTypeOK
      <4>2. routing.gen = snapshot.gen
        BY <2>2, Zenon DEF Agree, RouterOf
      <4> QED BY <4>1, <4>2
    <3>2. n.gen = NextGen(snapshot.gen)
      BY <2>2, Zenon DEF Successor
    <3>3. PICK g \in Nat : g = snapshot.gen
      BY <3>1, Zenon
    <3>4. g \in {NextGen(g) - 1, NextGen(g)}
      BY DEF NextGen
    <3> QED BY <2>2, <3>1, <3>2, <3>3, <3>4, Zenon DEF RoutingLagsByOne
  <2>5. WellMade(snapshot)' /\ CapturedUnchanged'
    BY <2>2, Zenon DEF Successor, ReloadIInv, CapturedUnchanged
  <2> QED BY <1>t, <2>1, <2>3, <2>4, <2>5, Zenon DEF ReloadIInv
<1>6. ASSUME NEW c \in Callers, Swap(c) PROVE ReloadIInv'
  <2>1. PICK n, q : /\ q = [pc |-> "Admin", new |-> n] /\ n = call[c].new
                    /\ OneCaller' /\ lock' # "free"
                    /\ (Progress(q)' => \A d \in Callers : Progress(call[d])')
    BY <1>6, <1>g, Zenon DEF Swap, Stages
  <2>2. snapshot = n /\ snapshot' = snapshot /\ routing' = RouterOf(snapshot)
    BY <1>6, <2>1, Zenon DEF Swap, ReloadIInv, Progress
  <2>3. Progress(q)'
    BY <2>1, <2>2, Zenon DEF Progress
  <2>4. RoutingLagsByOne'
    BY <2>2, Zenon DEF RoutingLagsByOne, RouterOf
  <2> QED BY <1>t, <2>1, <2>2, <2>3, <2>4, Zenon DEF ReloadIInv, CapturedUnchanged
<1>7. ASSUME NEW c \in Callers, PublishAdmin(c) PROVE ReloadIInv'
  <2>1. PICK n, q : /\ q = [pc |-> "Probes", new |-> n] /\ n = call[c].new
                    /\ OneCaller' /\ lock' # "free"
                    /\ (Progress(q)' => \A d \in Callers : Progress(call[d])')
    BY <1>7, <1>g, Zenon DEF PublishAdmin, Stages
  <2>2. /\ snapshot = n /\ routing = RouterOf(snapshot) /\ admin' = n.gen
        /\ UNCHANGED <<snapshot, routing>>
    BY <1>7, <2>1, Zenon DEF PublishAdmin, ReloadIInv, Progress
  <2>3. Progress(q)'
    BY <2>1, <2>2, Zenon DEF Progress
  <2> QED BY <1>t, <2>1, <2>2, <2>3, Zenon DEF ReloadIInv, RoutingLagsByOne, CapturedUnchanged
<1>8. ASSUME NEW c \in Callers, RestartProbes(c) PROVE ReloadIInv'
  <2>1. PICK n, q : /\ q = [pc |-> "Pools", new |-> n] /\ n = call[c].new
                    /\ OneCaller' /\ lock' # "free"
                    /\ (Progress(q)' => \A d \in Callers : Progress(call[d])')
    BY <1>8, <1>g, Zenon DEF RestartProbes, Stages
  <2>2. /\ snapshot = n /\ routing = RouterOf(snapshot) /\ admin = snapshot.gen
        /\ probed' = Range(snapshot.runtimes)
        /\ UNCHANGED <<snapshot, routing, admin>>
    BY <1>8, <2>1, Zenon DEF RestartProbes, ReloadIInv, Progress
  <2>3. Progress(q)'
    BY <2>1, <2>2, Zenon DEF Progress
  <2> QED BY <1>t, <2>1, <2>2, <2>3, Zenon DEF ReloadIInv, RoutingLagsByOne, CapturedUnchanged
<1>9. ASSUME NEW c \in Callers, ClearPools(c) PROVE ReloadIInv'
  <2>1. PICK n, q : /\ q = [pc |-> "Record", new |-> n] /\ n = call[c].new
                    /\ OneCaller' /\ lock' # "free"
                    /\ (Progress(q)' => \A d \in Callers : Progress(call[d])')
    BY <1>9, <1>g, Zenon DEF ClearPools, Stages
  <2>2. /\ snapshot = n /\ routing = RouterOf(snapshot) /\ admin = snapshot.gen
        /\ probed = Range(snapshot.runtimes)
        /\ UNCHANGED <<snapshot, routing, admin, probed>>
    BY <1>9, <2>1, Zenon DEF ClearPools, ReloadIInv, Progress
  <2>3. Progress(q)'
    BY <2>1, <2>2, Zenon DEF Progress
  <2> QED BY <1>t, <2>1, <2>2, <2>3, Zenon DEF ReloadIInv, RoutingLagsByOne, CapturedUnchanged
<1>10. ASSUME NEW c \in Callers, Record(c) PROVE ReloadIInv'
  <2>1. lock = c /\ \A d \in Callers \ {c} : call[d] = Idle
    BY <1>10, <1>i, OthersIdle DEF Record, ReloadIInv
  <2>2. \A d \in Callers : call'[d] = Idle
    BY <1>10, <2>1, <1>t DEF Record, Return, ReloadTypeOK
  <2>3. /\ snapshot = call[c].new /\ routing = RouterOf(snapshot) /\ admin = snapshot.gen
        /\ probed = Range(snapshot.runtimes)
    BY <1>10, Zenon DEF Record, ReloadIInv, Progress
  <2>4. metrics'.gen = call[c].new.gen
    BY <1>10, <1>t DEF Record, ReloadTypeOK
  <2>5. Agree'
    BY <1>10, <2>3, <2>4, Zenon DEF Record, Agree
  <2>6. OneCaller'
    BY <1>10, <2>2, Zenon DEF Record, Return, OneCaller
  <2>7. \A d \in Callers : Progress(call[d])'
    BY <2>2, <1>i, Zenon DEF Progress
  <2>8. snapshot' = snapshot /\ routing' = routing
    BY <1>10, Zenon DEF Record
  <2> QED BY <1>t, <2>5, <2>6, <2>7, <2>8, Zenon DEF ReloadIInv, RoutingLagsByOne, CapturedUnchanged
<1>11. ASSUME UNCHANGED <<snapshot, routing, admin, probed, metrics, lock, call>> PROVE ReloadIInv'
  <2>1. (lock = "free" => Agree)' /\ OneCaller'
    BY <1>11, Zenon DEF ReloadIInv, Agree, OneCaller
  <2>2. \A d \in Callers : Progress(call[d])'
    <3> TAKE d \in Callers
    <3>1. Progress(call[d]) /\ call'[d] = call[d]
      BY <1>11, Zenon DEF ReloadIInv
    <3>2. Agree => Agree'
      BY <1>11, Zenon DEF Agree
    <3> QED BY <1>11, <3>1, <3>2, Zenon DEF Progress
  <2> QED BY <1>t, <1>11, <2>1, <2>2, Zenon DEF ReloadIInv, RoutingLagsByOne, CapturedUnchanged
<1>12. CASE UNCHANGED reloadVars \/ \E k \in Conns : Accept(k) \/ RouteConn(k) \/ OpenPooled(k)
  BY <1>11, <1>12, Zenon DEF reloadVars, Accept, RouteConn, OpenPooled, publishedVars
<1> QED
  BY <1>1, <1>2, <1>3, <1>5, <1>6, <1>7, <1>8, <1>9, <1>10, <1>12, Zenon DEF ReloadNext, Transaction
-----------------------------------------------------------------------------
(* The invariant holds in every state, for every number of callers and     *)
(* reloads.                                                                *)
THEOREM ReloadInductive == ReloadSpec => []ReloadIInv
BY InitHolds, StepPreserves, PTL DEF ReloadSpec

(* The reload state keeps its type; the generation saturates. *)
THEOREM ReloadTypeCorrect == ReloadSpec => []ReloadTypeOK
<1>1. ReloadIInv => ReloadTypeOK BY DEF ReloadIInv
<1> QED BY <1>1, ReloadInductive, PTL

(* Whenever no reload runs, everything published belongs to one            *)
(* configuration (apply_compiled_config under reload_mutex).               *)
THEOREM AlwaysConsistent == ReloadSpec => []Consistent
<1>1. ReloadIInv => Consistent BY Zenon DEF ReloadIInv, Consistent, Agree
<1> QED BY <1>1, ReloadInductive, PTL

(* Routing is never ahead of the snapshot and never more than one          *)
(* generation behind it.                                                   *)
THEOREM LagBounded == ReloadSpec => []RoutingLagsByOne
<1>1. ReloadIInv => RoutingLagsByOne BY DEF ReloadIInv
<1> QED BY <1>1, ReloadInductive, PTL

(* Carried-over runtimes always match the configuration they serve         *)
(* (compile_runtime_snapshot).                                             *)
THEOREM RuntimesMatch == ReloadSpec => []SnapshotMatchesConfig
<1>1. ReloadIInv => SnapshotMatchesConfig BY Zenon DEF ReloadIInv, SnapshotMatchesConfig, WellMade
<1> QED BY <1>1, ReloadInductive, PTL

(* No sequence of accepted reloads changes what the accept loops captured  *)
(* at startup (classify_reload_config).                                    *)
THEOREM CapturedNeverChanges == ReloadSpec => []CapturedUnchanged
<1>1. ReloadIInv => CapturedUnchanged BY DEF ReloadIInv
<1> QED BY <1>1, ReloadInductive, PTL

(* A reload keeps the runtime of every upstream it does not change. *)
THEOREM UnchangedKept == ReloadSpec => [][RuntimesKept]_reloadVars
<1>1. ReloadIInv /\ [ReloadNext]_reloadVars => [RuntimesKept]_reloadVars
  <2> SUFFICES ASSUME ReloadIInv, ReloadNext PROVE RuntimesKept
    BY Zenon DEF reloadVars
  <2>1. CASE snapshot' = snapshot
    BY <2>1, Zenon DEF RuntimesKept
  <2>2. CASE \E c \in Callers : Store(c)
    <3>1. PICK c \in Callers : Store(c) BY <2>2
    <3>2. Progress(call[c]) /\ call[c].pc = "Store" /\ snapshot' = call[c].new
      BY <3>1, Zenon DEF Store, ReloadIInv
    <3>3. Kept(snapshot, snapshot')
      BY <3>2, Zenon DEF Progress, Successor
    <3> QED BY <3>3, Zenon DEF Kept, RuntimesKept
  <2>3. snapshot' = snapshot \/ \E c \in Callers : Store(c)
    BY Zenon DEF ReloadNext, Transaction, Begin, Fail, Build, Swap, PublishAdmin, RestartProbes,
           ClearPools, Record, Accept, RouteConn, OpenPooled, publishedVars
  <2> QED BY <2>1, <2>2, <2>3
<1> QED BY <1>1, ReloadInductive, PTL DEF ReloadSpec
-----------------------------------------------------------------------------
(* An accepted connection's tag is within one generation of the router it  *)
(* will find, and a routed one's within one of the router it found.        *)
TagInv ==
    /\ \A k \in Conns : conn[k].state = "Accepted" => routing.gen >= conn[k].gen - 1
    /\ TagLagsByOne

(* The router is only ever replaced by one of the same or the next         *)
(* generation (SharedRoutingService::swap_arc inside the transaction).     *)
LEMMA RoutingNeverBack == ReloadIInv /\ [ReloadNext]_reloadVars => routing'.gen >= routing.gen
<1> SUFFICES ASSUME ReloadIInv, [ReloadNext]_reloadVars PROVE routing'.gen >= routing.gen
  OBVIOUS
<1> USE ReloadAssumption
<1>1. snapshot.gen \in 0..GenMax /\ routing.gen \in 0..GenMax
  BY Zenon DEF ReloadIInv, ReloadTypeOK, Snapshots, Router
<1>2. CASE routing' = routing
  BY <1>1, <1>2
<1>3. CASE \E c \in Callers : Swap(c)
  <2>1. PICK c \in Callers : Swap(c) BY <1>3
  <2>2. routing'.gen = snapshot.gen
    BY <2>1, Zenon DEF Swap, ReloadIInv, Progress, RouterOf
  <2> QED BY <1>1, <2>2 DEF ReloadIInv, RoutingLagsByOne
<1>4. routing' = routing \/ \E c \in Callers : Swap(c)
  BY Zenon DEF ReloadNext, Transaction, Begin, Fail, Build, Store, PublishAdmin, RestartProbes,
         ClearPools, Record, Accept, RouteConn, OpenPooled, publishedVars, reloadVars
<1> QED BY <1>2, <1>3, <1>4

(* A connection is never routed by a router more than one generation       *)
(* behind the tag it was accepted with, wherever in the transaction it was *)
(* accepted and routed.                                                    *)
THEOREM TagBounded == ReloadSpec => []TagLagsByOne
<1>1. ReloadInit => TagInv
  <2>1. ReloadInit => \A k \in Conns : conn[k] = None
    BY Zenon DEF ReloadInit
  <2>2. None.state \notin {"Accepted", "Routed", "Open"}
    BY DEF None
  <2> QED BY <2>1, <2>2, Zenon DEF TagInv, TagLagsByOne
<1>2. ReloadIInv /\ TagInv /\ [ReloadNext]_reloadVars => TagInv'
  <2> SUFFICES ASSUME ReloadIInv, TagInv, [ReloadNext]_reloadVars PROVE TagInv'
    OBVIOUS
  <2> USE ReloadAssumption
  <2>1. /\ snapshot.gen \in 0..GenMax /\ routing.gen \in 0..GenMax
        /\ routing'.gen \in 0..GenMax /\ conn \in [Conns -> Connection]
    <3>1. ReloadTypeOK /\ ReloadTypeOK'
      BY TypeStep, Zenon DEF ReloadIInv
    <3> QED BY <3>1, Zenon DEF ReloadTypeOK, Snapshots, Router
  <2>2. ASSUME NEW k \in Conns, conn[k].state # "None" PROVE conn[k].gen \in 0..GenMax
    BY <2>1, <2>2 DEF Connection, None
  <2>3. CASE UNCHANGED conn
    <3>1. routing'.gen >= routing.gen
      BY RoutingNeverBack, Zenon
    <3>2. \A k \in Conns : conn[k].state = "Accepted" => routing'.gen >= conn[k].gen - 1
      BY <2>1, <2>2, <3>1 DEF TagInv
    <3> QED BY <2>3, <3>2, Zenon DEF TagInv, TagLagsByOne
  <2>4. ASSUME NEW k \in Conns, Accept(k) PROVE TagInv'
    <3>1. conn'[k] = [state |-> "Accepted", gen |-> snapshot.gen] /\ routing' = routing
      BY <2>1, <2>4, Zenon DEF Accept, publishedVars
    <3>2. \A j \in Conns \ {k} : conn'[j] = conn[j]
      BY <2>1, <2>4, Zenon DEF Accept
    <3>3. routing'.gen >= snapshot.gen - 1
      <4>1. routing'.gen \in {snapshot.gen - 1, snapshot.gen}
        BY <3>1, Zenon DEF ReloadIInv, RoutingLagsByOne
      <4> QED BY <2>1, <4>1
    <3>4. /\ conn'[k].state = "Accepted" /\ conn'[k].gen = snapshot.gen
          /\ conn'[k].state \notin {"Routed", "Open"}
      BY <3>1, AcceptedFields, Zenon
    <3> QED BY <3>1, <3>2, <3>3, <3>4, Zenon DEF TagInv, TagLagsByOne
  <2>5. ASSUME NEW k \in Conns, RouteConn(k) PROVE TagInv'
    <3>1. /\ conn'[k] = [state |-> "Routed", gen |-> conn[k].gen, router |-> routing.gen]
          /\ conn[k].state = "Accepted" /\ routing' = routing
      BY <2>1, <2>5, Zenon DEF RouteConn, publishedVars
    <3>2. \A j \in Conns \ {k} : conn'[j] = conn[j]
      BY <2>1, <2>5, Zenon DEF RouteConn
    <3>3. /\ conn'[k].state = "Routed" /\ conn'[k].gen = conn[k].gen
          /\ conn'[k].router = routing.gen
      <4>1. PICK c : c = [state |-> "Routed", gen |-> conn[k].gen, router |-> routing.gen]
        BY Zenon
      <4>2. c.state = "Routed" /\ c.gen = conn[k].gen /\ c.router = routing.gen
        BY <4>1, Zenon
      <4> QED BY <3>1, <4>1, <4>2, Zenon
    <3>4. conn'[k].state # "Accepted" /\ conn'[k].router >= conn'[k].gen - 1
      BY <3>1, <3>3, Zenon DEF TagInv
    <3> QED BY <3>1, <3>2, <3>4, Zenon DEF TagInv, TagLagsByOne
  <2>6. ASSUME NEW k \in Conns, OpenPooled(k) PROVE TagInv'
    <3>1. /\ conn'[k] = [state |-> "Open", gen |-> conn[k].gen, router |-> conn[k].router,
                         late |-> conn[k].router # snapshot.gen]
          /\ conn[k].state = "Routed" /\ routing' = routing
      BY <2>1, <2>6, Zenon DEF OpenPooled
    <3>2. \A j \in Conns \ {k} : conn'[j] = conn[j]
      BY <2>1, <2>6, Zenon DEF OpenPooled
    <3>3. /\ conn'[k].state = "Open" /\ conn'[k].gen = conn[k].gen
          /\ conn'[k].router = conn[k].router
      <4>1. PICK c : c = [state |-> "Open", gen |-> conn[k].gen, router |-> conn[k].router,
                          late |-> conn[k].router # snapshot.gen]
        BY Zenon
      <4>2. c.state = "Open" /\ c.gen = conn[k].gen /\ c.router = conn[k].router
        BY <4>1, Zenon
      <4> QED BY <3>1, <4>1, <4>2, Zenon
    <3>4. conn'[k].state # "Accepted" /\ conn'[k].router >= conn'[k].gen - 1
      BY <3>1, <3>3, Zenon DEF TagInv, TagLagsByOne
    <3> QED BY <3>1, <3>2, <3>4, Zenon DEF TagInv, TagLagsByOne
  <2>7. UNCHANGED conn \/ \E k \in Conns : Accept(k) \/ RouteConn(k) \/ OpenPooled(k)
    BY Zenon DEF ReloadNext, Transaction, Begin, Fail, Build, Store, Swap, PublishAdmin, RestartProbes,
           ClearPools, Record, reloadVars
  <2> QED BY <2>3, <2>4, <2>5, <2>6, <2>7, Zenon
<1>3. TagInv => TagLagsByOne BY Zenon DEF TagInv
<1> QED BY <1>1, <1>2, <1>3, ReloadInductive, PTL DEF ReloadSpec

(* The settings captured by the accept loops and the runtimes of unchanged *)
(* upstreams outlive every sequence of reloads: the two results together   *)
(* (classify_reload_config, upstream_runtime_compatible).                  *)
THEOREM InUseIsKept == ReloadSpec => KeepsWhatIsInUse
BY CapturedNeverChanges, UnchangedKept, PTL DEF KeepsWhatIsInUse
-----------------------------------------------------------------------------
\* Some caller is at one of the stages S.
At(S) == \E c \in Callers : call[c].pc \in S

\* The generation after n reloads.
Saturated(n) == IF n < GenMax THEN n ELSE GenMax

\* Between the store of the snapshot and the report the snapshot is one ahead
\* of the reports; while the lock is held one attempt is not counted yet.
Ledger ==
    /\ \A n \in 1..Len(applied) : applied[n] = Saturated(n)
    /\ snapshot.gen = Saturated(Len(applied) +
           (IF At({"Swap", "Admin", "Probes", "Pools", "Record"}) THEN 1 ELSE 0))
    /\ metrics.ok = Len(applied)
    /\ metrics.ok + metrics.failed + (IF lock = "free" THEN 0 ELSE 1) = attempts

OpenedLate(g) ==
    \E k \in Conns : conn[k].state = "Open" /\ conn[k].router = g /\ conn[k].late

\* From the store of the snapshot until the pools are cleared there may be
\* pools of the generation before.
LatePools ==
    At({"Swap", "Admin", "Probes", "Pools"}) \/ \A g \in pools \ {snapshot.gen} : OpenedLate(g)

\* Caller c goes from stage p to stage r.
Moves(c, p, r) ==
    /\ call[c].pc = p
    /\ \E q : call' = [call EXCEPT ![c] = q] /\ q.pc = r
    /\ p = "Idle" => lock = "free"

(* The stage of the caller that moves is the stage of the transaction: no  *)
(* other caller is in it (reload_mutex).                                   *)
LEMMA StageOfMover ==
    ASSUME ReloadIInv, NEW c \in Callers, NEW p, NEW r, Moves(c, p, r), NEW S, "Idle" \notin S
    PROVE  (At(S) <=> p \in S) /\ (At(S)' <=> r \in S)
<1>1. PICK q : call' = [call EXCEPT ![c] = q] /\ q.pc = r
  BY Zenon DEF Moves
<1>2. Idle.pc = "Idle"
  BY Zenon DEF Idle
<1>3. \A d \in Callers \ {c} : call[d] = Idle
  BY <1>2, OthersIdle, ReloadAssumption, Zenon DEF ReloadIInv, OneCaller, Moves
<1>4. call'[c] = q /\ \A d \in Callers \ {c} : call'[d] = Idle
  BY <1>1, <1>3, Zenon DEF ReloadIInv, ReloadTypeOK
<1>5. /\ call[c].pc = p /\ \A d \in Callers \ {c} : call[d].pc \notin S
      /\ call'[c].pc = r /\ \A d \in Callers \ {c} : call'[d].pc \notin S
  BY <1>1, <1>2, <1>3, <1>4, Zenon DEF Moves
<1>6. \A d \in Callers : d = c \/ d \in Callers \ {c}
  BY Zenon
<1> QED BY <1>5, <1>6, Zenon DEF At

(* The stages each step of the transaction goes from and to, and that its  *)
(* caller holds the lock.                                                  *)
LEMMA StagesOfSteps ==
    ASSUME ReloadIInv, NEW c \in Callers
    PROVE  /\ \A i : Begin(c, i) => Moves(c, "Idle", "Apply")
           /\ Fail(c) => Moves(c, "Apply", "Idle") /\ lock = c
           /\ Build(c) => Moves(c, "Apply", "Store") /\ lock = c
           /\ Store(c) => Moves(c, "Store", "Swap") /\ lock = c
           /\ Swap(c) => Moves(c, "Swap", "Admin") /\ lock = c
           /\ PublishAdmin(c) => Moves(c, "Admin", "Probes") /\ lock = c
           /\ RestartProbes(c) => Moves(c, "Probes", "Pools") /\ lock = c
           /\ ClearPools(c) => Moves(c, "Pools", "Record") /\ lock = c
           /\ Record(c) => Moves(c, "Record", "Idle") /\ lock = c
<1>1. Idle.pc = "Idle"
  BY Zenon DEF Idle
<1>2. call[c].pc # "Idle" => lock = c
  BY <1>1, OthersIdle, Zenon DEF ReloadIInv
<1>m. ASSUME NEW p, NEW r, NEW q, call[c].pc = p, call' = [call EXCEPT ![c] = q], q.pc = r,
             p = "Idle" => lock = "free"
      PROVE  Moves(c, p, r)
  BY <1>m, Zenon DEF Moves
<1>g. ASSUME NEW p, NEW r, call[c].pc = p, p # "Idle", Goto(c, r)
      PROVE  Moves(c, p, r) /\ lock = c
  <2>1. [pc |-> r, new |-> call[c].new].pc = r
    BY Zenon
  <2> QED BY <1>2, <1>m, <1>g, <2>1, Zenon DEF Goto
<1>3. \A i : Begin(c, i) => Moves(c, "Idle", "Apply")
  <2>1. \A i : [pc |-> "Apply", input |-> i, serial |-> attempts'].pc = "Apply"
    BY Zenon
  <2> QED BY <1>1, <1>m, <2>1, Zenon DEF Begin
<1>4. Fail(c) => Moves(c, "Apply", "Idle") /\ lock = c
  BY <1>1, <1>2, <1>m, Zenon DEF Fail, Return
<1>5. Build(c) => Moves(c, "Apply", "Store") /\ lock = c
  <2>1. \A n : [pc |-> "Store", new |-> n].pc = "Store"
    BY Zenon
  <2> QED BY <1>2, <1>m, <2>1, Zenon DEF Build
<1>6. Store(c) => Moves(c, "Store", "Swap") /\ lock = c
  BY <1>g, Zenon DEF Store
<1>7. Swap(c) => Moves(c, "Swap", "Admin") /\ lock = c
  BY <1>g, Zenon DEF Swap
<1>8. PublishAdmin(c) => Moves(c, "Admin", "Probes") /\ lock = c
  BY <1>g, Zenon DEF PublishAdmin
<1>9. RestartProbes(c) => Moves(c, "Probes", "Pools") /\ lock = c
  BY <1>g, Zenon DEF RestartProbes
<1>10. ClearPools(c) => Moves(c, "Pools", "Record") /\ lock = c
  BY <1>g, Zenon DEF ClearPools
<1>11. Record(c) => Moves(c, "Record", "Idle") /\ lock = c
  BY <1>1, <1>2, <1>m, Zenon DEF Record, Return
<1> QED BY <1>3, <1>4, <1>5, <1>6, <1>7, <1>8, <1>9, <1>10, <1>11, Zenon

(* No caller is at a stage of the transaction while the lock is free.      *)
LEMMA NobodyWhenFree ==
    ASSUME ReloadIInv, lock = "free", NEW S, "Idle" \notin S
    PROVE  ~At(S)
<1>1. \A c \in Callers : call[c] = Idle
  BY ReloadAssumption DEF ReloadIInv, OneCaller
<1>2. Idle.pc = "Idle"
  BY DEF Idle
<1> QED BY <1>1, <1>2, Zenon DEF At

(* One reload moves the generation on by one until it saturates            *)
(* (compile_runtime_snapshot).                                             *)
LEMMA SaturatedNext ==
    ASSUME NEW n \in Nat
    PROVE  NextGen(Saturated(n)) = Saturated(n + 1)
BY ReloadAssumption DEF NextGen, Saturated

(* Every step keeps the reports, the counters and the generation in step.  *)
LEMMA LedgerStep == ReloadIInv /\ Ledger /\ [ReloadNext]_reloadVars => Ledger'
<1> SUFFICES ASSUME ReloadIInv, Ledger, [ReloadNext]_reloadVars PROVE Ledger'
  OBVIOUS
<1>1. /\ metrics \in [gen : 0..GenMax, ok : Nat, failed : Nat] /\ attempts \in Nat
      /\ applied \in Seq(0..GenMax) /\ Len(applied) \in Nat
  BY DEF ReloadIInv, ReloadTypeOK
<1>2. PICK S : S = {"Swap", "Admin", "Probes", "Pools", "Record"}
  BY Zenon
<1>3. "Idle" \notin S /\ "free" \notin Callers
  BY <1>2, ReloadAssumption
<1>4. ASSUME NEW c \in Callers, NEW p, NEW r, Moves(c, p, r)
      PROVE  (At(S) <=> p \in S) /\ (At(S)' <=> r \in S)
  BY <1>3, <1>4, StageOfMover, Zenon
<1> DEFINE Early == ~At(S) /\ ~At(S)'
<1> DEFINE Later == At(S) /\ At(S)'
<1>5. ASSUME NEW c \in Callers, NEW i \in Inputs, Begin(c, i) PROVE Ledger'
  <2>0. Moves(c, "Idle", "Apply")
    BY <1>5, StagesOfSteps, Zenon
  <2>1. Early
    BY <1>2, <1>4, <2>0
  <2>2. /\ lock = "free" /\ lock' # "free" /\ attempts' = attempts + 1
        /\ UNCHANGED <<snapshot, metrics, applied>>
    BY <1>3, <1>5, Zenon DEF Begin, publishedVars
  <2> QED BY <1>1, <1>2, <2>1, <2>2 DEF Ledger
<1>6. ASSUME NEW c \in Callers, Fail(c) PROVE Ledger'
  <2>0. Moves(c, "Apply", "Idle") /\ lock # "free"
    BY <1>3, <1>6, StagesOfSteps, Zenon
  <2>1. Early
    BY <1>2, <1>4, <2>0
  <2>2. /\ metrics'.ok = metrics.ok /\ metrics'.failed = metrics.failed + 1
        /\ lock' = "free" /\ UNCHANGED <<snapshot, attempts, applied>>
    BY <1>1, <1>6, Zenon DEF Fail, Return
  <2>3. PICK o, n, m : o = metrics.ok /\ n = metrics.failed /\ m = attempts
    BY Zenon
  <2>4. o \in Nat /\ n \in Nat /\ o + n + 1 = m
    BY <1>1, <2>0, <2>3, Zenon DEF Ledger
  <2>5. o + (n + 1) + 0 = m
    BY <2>4
  <2> QED BY <1>2, <2>1, <2>2, <2>3, <2>5, Zenon DEF Ledger
<1>7. ASSUME NEW c \in Callers, Build(c) PROVE Ledger'
  <2>0. Moves(c, "Apply", "Store")
    BY <1>7, StagesOfSteps, Zenon
  <2>1. Early
    BY <1>2, <1>4, <2>0
  <2>2. UNCHANGED <<snapshot, metrics, lock, attempts, applied>>
    BY <1>7, Zenon DEF Build, publishedVars
  <2> QED BY <1>2, <2>1, <2>2, Zenon DEF Ledger
<1>8. ASSUME NEW c \in Callers, Store(c) PROVE Ledger'
  <2>0. Moves(c, "Store", "Swap")
    BY <1>8, StagesOfSteps, Zenon
  <2>1. ~At(S) /\ At(S)'
    BY <1>2, <1>4, <2>0
  <2>2. snapshot'.gen = NextGen(snapshot.gen)
    <3>1. Progress(call[c]) /\ call[c].pc = "Store" /\ snapshot' = call[c].new
      BY <1>8, Zenon DEF Store, ReloadIInv
    <3> QED BY <3>1, Zenon DEF Progress, Successor
  <2>3. snapshot'.gen = Saturated(Len(applied) + 1)
    <3>1. snapshot.gen = Saturated(Len(applied) + 0)
      BY <1>2, <2>1, Zenon DEF Ledger
    <3>2. Len(applied) + 0 = Len(applied)
      BY <1>1
    <3> QED BY <1>1, <2>2, <3>1, <3>2, SaturatedNext, Zenon
  <2>4. UNCHANGED <<metrics, lock, attempts, applied>>
    BY <1>8, Zenon DEF Store
  <2> QED BY <1>2, <2>1, <2>3, <2>4, Zenon DEF Ledger
<1>9. ASSUME NEW c \in Callers,
             Swap(c) \/ PublishAdmin(c) \/ RestartProbes(c) \/ ClearPools(c)
      PROVE  Ledger'
  <2>0. \/ Moves(c, "Swap", "Admin") \/ Moves(c, "Admin", "Probes")
        \/ Moves(c, "Probes", "Pools") \/ Moves(c, "Pools", "Record")
    BY <1>9, StagesOfSteps, Zenon
  <2>1. Later
    BY <1>2, <1>4, <2>0
  <2>2. UNCHANGED <<snapshot, metrics, lock, attempts, applied>>
    BY <1>9, Zenon DEF Swap, PublishAdmin, RestartProbes, ClearPools
  <2> QED BY <1>2, <2>1, <2>2, Zenon DEF Ledger
<1>10. ASSUME NEW c \in Callers, Record(c) PROVE Ledger'
  <2>0. Moves(c, "Record", "Idle") /\ lock # "free"
    BY <1>3, <1>10, StagesOfSteps, Zenon
  <2>1. At(S) /\ ~At(S)'
    BY <1>2, <1>4, <2>0
  <2>2. /\ metrics'.ok = metrics.ok + 1 /\ metrics'.failed = metrics.failed
        /\ lock' = "free" /\ UNCHANGED <<snapshot, attempts>>
    BY <1>1, <1>10 DEF Record, Return
  <2>3. applied' = Append(applied, snapshot.gen)
    <3>1. Progress(call[c]) /\ call[c].pc = "Record"
      BY <1>10, Zenon DEF Record, ReloadIInv
    <3>2. snapshot = call[c].new
      BY <3>1, Zenon DEF Progress
    <3> QED BY <1>10, <3>2, Zenon DEF Record
  <2>4. snapshot.gen = Saturated(Len(applied) + 1)
    BY <1>2, <2>1, Zenon DEF Ledger
  <2>5. /\ Len(applied') = Len(applied) + 1
        /\ applied'[Len(applied) + 1] = Saturated(Len(applied) + 1)
        /\ \A n \in 1..Len(applied) : applied'[n] = applied[n]
    BY <1>1, <2>3, <2>4
  <2>6. ASSUME NEW n \in 1..Len(applied') PROVE applied'[n] = Saturated(n)
    <3>1. n \in 1..Len(applied) \/ n = Len(applied) + 1
      BY <1>1, <2>5
    <3> QED BY <2>5, <3>1, Zenon DEF Ledger
  <2>7. metrics.ok = Len(applied) /\ metrics.ok + metrics.failed + 1 = attempts
    BY <2>0, Zenon DEF Ledger
  <2>8. metrics'.ok = Len(applied') /\ metrics'.ok + metrics'.failed + 0 = attempts'
    BY <1>1, <2>2, <2>5, <2>7
  <2>9. snapshot'.gen = Saturated(Len(applied') + 0)
    BY <1>1, <2>2, <2>4, <2>5
  <2> QED BY <1>2, <2>1, <2>2, <2>6, <2>8, <2>9, Zenon DEF Ledger
<1>11. CASE UNCHANGED <<snapshot, metrics, lock, call, attempts, applied>>
  BY <1>11, Zenon DEF Ledger, At
<1>12. ASSUME NEW k \in Conns, Accept(k) \/ RouteConn(k) \/ OpenPooled(k)
       PROVE  UNCHANGED <<snapshot, metrics, lock, call, attempts, applied>>
  BY <1>12, Zenon DEF Accept, RouteConn, OpenPooled, publishedVars
<1> QED BY <1>5, <1>6, <1>7, <1>8, <1>9, <1>10, <1>11, <1>12, Zenon DEF ReloadNext, Transaction, reloadVars

(* Reloads reported as Applied carry consecutive generations and every     *)
(* attempt is counted exactly once, for any number of concurrent callers   *)
(* (record_reload, set_config_generation).                                 *)
THEOREM ReportsAlwaysExact == ReloadSpec => []ReportsExact
<1>1. ReloadInit => Ledger
  <2> SUFFICES ASSUME ReloadInit PROVE Ledger
    OBVIOUS
  <2>1. ~At({"Swap", "Admin", "Probes", "Pools", "Record"})
    BY Zenon DEF ReloadInit, At, Idle
  <2>2. snapshot.gen = 0 /\ Len(applied) = 0 /\ metrics.ok = 0 /\ metrics.failed = 0
    BY Zenon DEF ReloadInit, Snapshot
  <2>3. 0 = Saturated(0 + 0) /\ 0 + 0 + 0 = 0 /\ 1..0 = {}
    BY ReloadAssumption DEF Saturated
  <2>4. 1..Len(applied) = {}
    BY <2>2, <2>3, Zenon
  <2> QED BY <2>1, <2>2, <2>3, <2>4, Zenon DEF ReloadInit, Ledger
<1>2. ReloadIInv /\ Ledger => ReportsExact
  <2> SUFFICES ASSUME ReloadIInv, Ledger PROVE ReportsExact
    OBVIOUS
  <2>1. Len(applied) \in Nat /\ metrics \in [gen : 0..GenMax, ok : Nat, failed : Nat]
    BY DEF ReloadIInv, ReloadTypeOK
  <2>2. lock = "free" => ~At({"Swap", "Admin", "Probes", "Pools", "Record"})
    BY NobodyWhenFree
  <2> QED BY <2>1, <2>2 DEF Ledger, ReportsExact, Saturated
<1> QED BY <1>1, <1>2, LedgerStep, ReloadInductive, PTL DEF ReloadSpec

(* Every step keeps pools of older generations to late openers.            *)
LEMMA LatePoolsStep == ReloadIInv /\ LatePools /\ [ReloadNext]_reloadVars => LatePools'
<1> SUFFICES ASSUME ReloadIInv, LatePools, [ReloadNext]_reloadVars PROVE LatePools'
  OBVIOUS
<1>1. PICK S : S = {"Swap", "Admin", "Probes", "Pools"}
  BY Zenon
<1>2. "Idle" \notin S
  BY <1>1
<1>3. ASSUME NEW c \in Callers, NEW p, NEW r, Moves(c, p, r)
      PROVE  (At(S) <=> p \in S) /\ (At(S)' <=> r \in S)
  BY <1>2, <1>3, StageOfMover, Zenon
<1>4. ASSUME ~At(S), UNCHANGED <<pools, snapshot, conn>> PROVE LatePools'
  BY <1>1, <1>4, Zenon DEF LatePools, OpenedLate
<1>5. ASSUME At(S)' PROVE LatePools'
  BY <1>1, <1>5, Zenon DEF LatePools
<1>6. ASSUME NEW c \in Callers, NEW i \in Inputs, Begin(c, i) PROVE LatePools'
  <2>0. Moves(c, "Idle", "Apply")
    BY <1>6, StagesOfSteps, Zenon
  <2>1. ~At(S)
    BY <1>1, <1>3, <2>0
  <2>2. UNCHANGED <<pools, snapshot, conn>>
    BY <1>6, Zenon DEF Begin, publishedVars
  <2> QED BY <1>4, <2>1, <2>2, Zenon
<1>7. ASSUME NEW c \in Callers, Fail(c) \/ Build(c) \/ Record(c) PROVE LatePools'
  <2>0. Moves(c, "Apply", "Idle") \/ Moves(c, "Apply", "Store") \/ Moves(c, "Record", "Idle")
    BY <1>7, StagesOfSteps, Zenon
  <2>1. ~At(S)
    BY <1>1, <1>3, <2>0
  <2>2. UNCHANGED <<pools, snapshot, conn>>
    BY <1>7 DEF Fail, Build, Record, publishedVars
  <2> QED BY <1>4, <2>1, <2>2, Zenon
<1>8. ASSUME NEW c \in Callers, Store(c) \/ Swap(c) \/ PublishAdmin(c) \/ RestartProbes(c)
      PROVE  LatePools'
  <2>0. \/ Moves(c, "Store", "Swap") \/ Moves(c, "Swap", "Admin")
        \/ Moves(c, "Admin", "Probes") \/ Moves(c, "Probes", "Pools")
    BY <1>8, StagesOfSteps, Zenon
  <2>1. At(S)'
    BY <1>1, <1>3, <2>0
  <2> QED BY <1>5, <2>1
<1>9. ASSUME NEW c \in Callers, ClearPools(c) PROVE LatePools'
  BY <1>9, Zenon DEF ClearPools, LatePools
<1>10. ASSUME NEW k \in Conns, Accept(k) \/ RouteConn(k) \/ OpenPooled(k) PROVE LatePools'
  <2>1. UNCHANGED call /\ (At(S)' <=> At(S))
    BY <1>10, Zenon DEF Accept, RouteConn, OpenPooled, At
  <2>2. CASE At(S)
    BY <1>5, <2>1, <2>2
  <2>3. CASE ~At(S)
    <3>1. \A g \in pools \ {snapshot.gen} : OpenedLate(g)
      BY <1>1, <2>3 DEF LatePools
    <3>2. conn[k].state # "Open" /\ conn \in [Conns -> Connection]
      <4>1. conn[k] = None \/ conn[k].state \in {"Accepted", "Routed"}
        BY <1>10, Zenon DEF Accept, RouteConn, OpenPooled
      <4>2. None.state # "Open"
        BY DEF None
      <4> QED BY <4>1, <4>2, Zenon DEF ReloadIInv, ReloadTypeOK
    <3>3. \A g : OpenedLate(g) => OpenedLate(g)'
      BY <1>10, <3>2, Zenon DEF OpenedLate, Accept, RouteConn, OpenPooled
    <3>4. CASE UNCHANGED <<pools, snapshot>>
      BY <3>1, <3>3, <3>4, Zenon DEF LatePools
    <3>5. CASE OpenPooled(k)
      <4> PICK r : r = conn[k].router
        OBVIOUS
      <4>1. pools' = pools \cup {r} /\ snapshot' = snapshot
        BY <3>5, Zenon DEF OpenPooled
      <4>2. r # snapshot.gen => OpenedLate(r)'
        <5>1. conn'[k].state = "Open" /\ conn'[k].router = r /\ conn'[k].late = (r # snapshot.gen)
          BY <3>2, <3>5, Zenon DEF OpenPooled
        <5> QED BY <5>1, Zenon DEF OpenedLate
      <4>3. \A g \in pools' \ {snapshot'.gen} : OpenedLate(g)'
        BY <3>1, <3>3, <4>1, <4>2, Zenon
      <4> QED BY <4>3, Zenon DEF LatePools
    <3> QED BY <1>10, <3>4, <3>5, Zenon DEF Accept, RouteConn, publishedVars
  <2> QED BY <2>2, <2>3
<1>11. CASE UNCHANGED reloadVars
  BY <1>11, Zenon DEF reloadVars, LatePools, At, OpenedLate
<1> QED BY <1>6, <1>7, <1>8, <1>9, <1>10, <1>11, Zenon DEF ReloadNext, Transaction

(* No reload leaves a pool of an older configuration behind: one that is   *)
(* registered afterwards was opened by a connection routed before          *)
(* (H2_POOL_REGISTRY.clear after the store of the snapshot).               *)
THEOREM OldPoolsAlwaysLate == ReloadSpec => []OldPoolsAreLate
<1>1. ReloadInit => LatePools
  BY Zenon DEF ReloadInit, LatePools
<1>2. ReloadIInv /\ LatePools => OldPoolsAreLate
  <2> SUFFICES ASSUME ReloadIInv, LatePools, lock = "free"
               PROVE  \A g \in pools \ {snapshot.gen} : OpenedLate(g)
    BY Zenon DEF OldPoolsAreLate, OpenedLate
  <2>1. ~At({"Swap", "Admin", "Probes", "Pools"})
    BY NobodyWhenFree, Zenon
  <2> QED BY <2>1, Zenon DEF LatePools
<1> QED BY <1>1, <1>2, LatePoolsStep, ReloadInductive, PTL DEF ReloadSpec
=============================================================================
