------------------------ MODULE RenameBarrierProofs ------------------------
(***************************************************************************)
(* Proofs about RenameBarrier, for any number of attempts, any interval    *)
(* and any deadline.  BarrierInv adds to the properties what they need to  *)
(* be inductive: an attempt is left while the retry timer runs, a read     *)
(* shows the new name only if the catalog does, and nothing is thrown      *)
(* before the end.                                                         *)
(***************************************************************************)
EXTENDS RenameBarrier, TLAPS

BarrierInv ==
    /\ BarrierTypeOK
    /\ pc = "idle" => machine.kind = "READY" /\ attempt = 1
    /\ pc = "sleeping" => attempt < MaxAttempts /\ wakeAt <= Deadline
    /\ seen = "new" => label = "new"
    /\ (pc # "thrown" <=> code = "none")
    /\ ConfirmedMeansRenamed
    /\ MachineFollowsLoop
    /\ NeverGivesUpEarly

LEMMA BarrierInitInv == BarrierInit => BarrierInv
<1> SUFFICES ASSUME BarrierInit
             PROVE  BarrierInv
  OBVIOUS
<1> USE BarrierAssumption DEF BarrierInit
<1>1. BarrierTypeOK
  BY DEF BarrierTypeOK, Attempts, Kinds
<1>2. ConfirmedMeansRenamed /\ MachineFollowsLoop /\ NeverGivesUpEarly
  BY DEF ConfirmedMeansRenamed, MachineFollowsLoop, NeverGivesUpEarly
<1>3. QED
  BY <1>1, <1>2 DEF BarrierInv

\* A round of the loop starts: with attempt a the machine's next one.
LEMMA StartCycleInv ==
  ASSUME BarrierInv, NEW a \in Attempts, NEW id \in Nat,
         NEW m \in [kind : Kinds, attempt : Nat, id : Nat],
         \/ m.kind = "READY"
         \/ m.kind = "ATTEMPTING" /\ m.attempt = a /\ m.id = id,
         pc \in {"idle", "sleeping"},
         StartCycle(a, id, m), UNCHANGED worldVars
  PROVE  BarrierInv'
<1> USE BarrierAssumption DEF Attempts, BarrierInv, worldVars
<1>1. CASE signal = "aborted" \/ now >= Deadline
  <2>1. /\ pc' = "thrown" /\ machine' = m /\ UNCHANGED <<attempt, attemptID, wakeAt, readVars>>
        /\ code' \in {"INTERNAL_ERROR", "DEPENDENCY_TIMEOUT"}
        /\ code' = "INTERNAL_ERROR" => signal = "aborted"
        /\ code' = "DEPENDENCY_TIMEOUT" => now >= Deadline
    BY <1>1 DEF StartCycle, Throw, BarrierTypeOK
  <2>2. BarrierTypeOK'
    BY <2>1 DEF BarrierTypeOK, readVars, Transient
  <2>3. ConfirmedMeansRenamed' /\ MachineFollowsLoop' /\ NeverGivesUpEarly'
    BY <2>1 DEF ConfirmedMeansRenamed, MachineFollowsLoop, NeverGivesUpEarly
  <2>4. QED
    BY <2>1, <2>2, <2>3 DEF readVars
<1>2. CASE signal = "open" /\ now < Deadline
  <2>1. /\ pc' = "reading" /\ attempt' = a /\ attemptID' = id
        /\ machine' = startAttempt(m, a, id)
        /\ syncs' = [syncs EXCEPT ![a] = Sources] /\ got' = {} /\ seen' = "old"
        /\ UNCHANGED <<code, wakeAt>>
    BY <1>2 DEF StartCycle, BarrierTypeOK
  <2>2. machine' = [kind |-> "ATTEMPTING", attempt |-> a, id |-> id]
    BY <2>1 DEF startAttempt, Kinds
  <2>3. BarrierTypeOK'
    BY <2>1, <2>2 DEF BarrierTypeOK, Kinds
  <2>4. ConfirmedMeansRenamed' /\ MachineFollowsLoop' /\ NeverGivesUpEarly'
    BY <2>1, <2>2 DEF ConfirmedMeansRenamed, MachineFollowsLoop, NeverGivesUpEarly
  <2>5. QED
    BY <2>1, <2>2, <2>3, <2>4
<1>3. QED
  BY <1>1, <1>2 DEF BarrierTypeOK

\* What the end of a read changes beside the loop.
ReadEffects ==
    /\ syncs' \in [Attempts -> SUBSET Sources] /\ got' \subseteq Sources
    /\ seen' \in {"old", "new"} /\ (seen' = "new" => label = "new")
    /\ fault' \in Permanent \cup Transient \cup {"timer", "none"}
    /\ UNCHANGED <<label, signal, now>>

\* An attempt that did not confirm ends the call or starts the retry timer.
LEMMA UnconfirmedInv ==
  ASSUME BarrierInv, pc = "reading", Unconfirmed, ReadEffects
  PROVE  BarrierInv'
<1> USE BarrierAssumption DEF Attempts, BarrierInv, ReadEffects
<1>1. CASE pc' = "thrown"
  <2>1. /\ machine' \in [kind : Kinds, attempt : Nat, id : Nat] /\ machine'.kind # "CONFIRMED"
        /\ UNCHANGED <<attempt, attemptID, wakeAt>>
        /\ code' = "DEPENDENCY_TIMEOUT"
        /\ attempt = MaxAttempts \/ now >= Deadline
    BY <1>1 DEF Unconfirmed, Throw, BarrierTypeOK, MachineFollowsLoop, Kinds, Transient
  <2>2. BarrierTypeOK'
    BY <1>1, <2>1 DEF BarrierTypeOK, Transient
  <2>3. ConfirmedMeansRenamed' /\ MachineFollowsLoop' /\ NeverGivesUpEarly'
    BY <1>1, <2>1 DEF ConfirmedMeansRenamed, MachineFollowsLoop, NeverGivesUpEarly, Transient
  <2>4. QED
    BY <1>1, <2>1, <2>2, <2>3 DEF Transient
<1>2. CASE pc' # "thrown"
  <2>1. /\ pc' = "sleeping" /\ attempt < MaxAttempts
        /\ machine' = scheduleRetry(machine) /\ wakeAt' = Earlier(now + Interval, Deadline)
        /\ UNCHANGED <<code, attempt, attemptID>>
    BY <1>2 DEF Unconfirmed, Throw, BarrierTypeOK
  <2>2. machine' = [kind |-> "WAITING_TO_RETRY", attempt |-> attempt, id |-> attemptID]
    BY <2>1 DEF scheduleRetry, MachineFollowsLoop
  <2>3. wakeAt' \in Nat /\ wakeAt' <= Deadline
    BY <2>1 DEF Earlier, BarrierTypeOK
  <2>4. BarrierTypeOK'
    BY <2>1, <2>2, <2>3 DEF BarrierTypeOK, Kinds
  <2>5. ConfirmedMeansRenamed' /\ MachineFollowsLoop' /\ NeverGivesUpEarly'
    BY <2>1, <2>2 DEF ConfirmedMeansRenamed, MachineFollowsLoop, NeverGivesUpEarly
  <2>6. QED
    BY <2>1, <2>2, <2>3, <2>4, <2>5
<1>3. QED
  BY <1>1, <1>2

\* The call ends in a fault its cause accounts for.
LEMMA ThrowBarrierInv ==
  ASSUME BarrierInv, pc = "reading",
         NEW c \in Permanent \cup {"INTERNAL_ERROR"}, c = "INTERNAL_ERROR" => signal = "aborted",
         c \in Permanent => fault' = c,
         Throw(c), UNCHANGED machine, ReadEffects
  PROVE  BarrierInv'
<1> USE DEF BarrierInv, ReadEffects, Throw, Permanent
<1>1. BarrierTypeOK'
  BY DEF BarrierTypeOK
<1>2. ConfirmedMeansRenamed' /\ MachineFollowsLoop' /\ NeverGivesUpEarly'
  BY DEF ConfirmedMeansRenamed, MachineFollowsLoop, NeverGivesUpEarly
<1>3. QED
  BY <1>1, <1>2

LEMMA ReadFailedInv ==
  ASSUME BarrierInv, pc = "reading", NEW c \in Permanent \cup Transient, ReadFailed(c),
         fault' = c, ReadEffects
  PROVE  BarrierInv'
<1>1. CASE Unconfirmed
  BY <1>1, UnconfirmedInv
<1>2. CASE signal = "open" /\ c \in Permanent /\ Throw(c) /\ UNCHANGED machine
  BY <1>2, ThrowBarrierInv DEF Permanent
<1>3. CASE signal = "aborted" /\ Throw("INTERNAL_ERROR") /\ UNCHANGED machine
  BY <1>3, ThrowBarrierInv DEF Permanent
<1>4. QED
  BY <1>1, <1>2, <1>3 DEF ReadFailed

LEMMA ReadAnsweredInv ==
  ASSUME BarrierInv, pc = "reading", NEW record \in {"expected", "other"}, ReadAnswered(record),
         record = "expected" => seen' = "new", ReadEffects
  PROVE  BarrierInv'
<1>1. CASE Unconfirmed
  BY <1>1, UnconfirmedInv
<1>2. CASE signal = "aborted" /\ Throw("INTERNAL_ERROR") /\ UNCHANGED machine
  BY <1>2, ThrowBarrierInv DEF Permanent
<1>3. CASE /\ record = "expected" /\ machine' = catalogResult(machine, attemptID)
           /\ pc' = "returned" /\ UNCHANGED <<code, attempt, attemptID, wakeAt>>
  <2> USE <1>3 DEF BarrierInv, ReadEffects
  <2>1. machine' = [kind |-> "CONFIRMED", attempt |-> attempt, id |-> attemptID]
    BY DEF MachineFollowsLoop, catalogResult
  <2>2. machine' \in [kind : Kinds, attempt : Nat, id : Nat]
    BY <2>1, BarrierAssumption DEF BarrierTypeOK, Attempts, Kinds
  <2>3. BarrierTypeOK'
    BY <2>2 DEF BarrierTypeOK
  <2>4. ConfirmedMeansRenamed' /\ MachineFollowsLoop' /\ NeverGivesUpEarly'
    BY <2>1 DEF ConfirmedMeansRenamed, MachineFollowsLoop, NeverGivesUpEarly
  <2>5. QED
    BY <2>1, <2>3, <2>4
<1>4. QED
  BY <1>1, <1>2, <1>3 DEF ReadAnswered

----------------------------------------------------------------------------
LEMMA BarrierStepInv == BarrierInv /\ [BarrierNext]_barrierVars => BarrierInv'
<1> SUFFICES ASSUME BarrierInv, [BarrierNext]_barrierVars
             PROVE  BarrierInv'
  OBVIOUS
<1>1. CASE Begin
  <2>1. /\ attempt \in Attempts /\ attemptID \in Nat
        /\ machine \in [kind : Kinds, attempt : Nat, id : Nat] /\ machine.kind = "READY"
    BY <1>1 DEF Begin, BarrierInv, BarrierTypeOK
  <2>2. QED
    BY <1>1, <2>1, StartCycleInv DEF Begin
<1>2. ASSUME NEW a \in Sources, SyncAnswers(a)
      PROVE  BarrierInv'
  <2>1. /\ pc = "reading" /\ syncs' \in [Attempts -> SUBSET Sources] /\ got' \subseteq Sources
        /\ seen' \in {"old", "new"} /\ (seen' = "new" => label = "new") /\ UNCHANGED worldVars
    BY <1>2 DEF SyncAnswers, BarrierInv, BarrierTypeOK
  <2> ReadEffects
    BY <2>1 DEF ReadEffects, worldVars, BarrierInv, BarrierTypeOK
  <2>2. CASE got' = Sources
    <3>1. PICK record \in {"expected", "other"} : (record = "expected" => seen' = "new") /\ ReadAnswered(record)
      BY <1>2, <2>2 DEF SyncAnswers
    <3>2. QED
      BY <2>1, <3>1, ReadAnsweredInv
  <2>3. CASE UNCHANGED loopVars
    <3> USE <2>1, <2>3 DEF loopVars, worldVars, BarrierInv
    <3>1. BarrierTypeOK'
      BY DEF BarrierTypeOK
    <3>2. ConfirmedMeansRenamed' /\ MachineFollowsLoop' /\ NeverGivesUpEarly'
      BY DEF ConfirmedMeansRenamed, MachineFollowsLoop, NeverGivesUpEarly
    <3>3. QED
      BY <3>1, <3>2
  <2>4. QED
    BY <1>2, <2>2, <2>3 DEF SyncAnswers
<1>3. ASSUME NEW a \in Sources, SyncFails(a)
      PROVE  BarrierInv'
  <2>1. PICK c \in Permanent \cup Transient : ReadFailed(c) /\ fault' = c
    BY <1>3 DEF SyncFails
  <2>2. pc = "reading" /\ ReadEffects
    BY <1>3, <2>1 DEF SyncFails, ReadEffects, BarrierInv, BarrierTypeOK
  <2>3. QED
    BY <2>1, <2>2, ReadFailedInv
<1>4. CASE ReadTimesOut
  <2>1. pc = "reading" /\ ReadEffects
    BY <1>4 DEF ReadTimesOut, ReadEffects, readVars, Transient, BarrierInv, BarrierTypeOK
  <2>2. /\ ReadFailed("DEPENDENCY_TIMEOUT") /\ fault' = "DEPENDENCY_TIMEOUT"
        /\ "DEPENDENCY_TIMEOUT" \in Permanent \cup Transient
    BY <1>4 DEF ReadTimesOut, Transient
  <2>3. QED
    BY <2>1, <2>2, ReadFailedInv
<1>5. CASE Wake
  <2> DEFINE next == retryTimer(machine, machine.id, attemptID + 1)
             id   == IF next.kind = "ATTEMPTING" THEN next.id ELSE attemptID + 2
  <2>1. /\ pc = "sleeping" /\ attempt \in Nat /\ attemptID \in Nat
        /\ machine = [kind |-> "WAITING_TO_RETRY", attempt |-> attempt, id |-> attemptID]
        /\ attempt + 1 \in Attempts
    BY <1>5, BarrierAssumption
    DEF Wake, BarrierInv, BarrierTypeOK, MachineFollowsLoop, Attempts
  <2>2. next = [kind |-> "ATTEMPTING", attempt |-> attempt + 1, id |-> attemptID + 1]
    BY <2>1 DEF retryTimer
  <2>3. id = attemptID + 1
    BY <2>2
  <2>4. StartCycle(attempt + 1, id, next) /\ UNCHANGED worldVars
    BY <1>5 DEF Wake
  <2>5. StartCycle(attempt + 1, attemptID + 1, next)
    BY <2>3, <2>4
  <2>6. /\ next \in [kind : Kinds, attempt : Nat, id : Nat] /\ attemptID + 1 \in Nat
        /\ next.kind = "ATTEMPTING" /\ next.attempt = attempt + 1 /\ next.id = attemptID + 1
    BY <2>1, <2>2 DEF Kinds
  <2> HIDE DEF next, id
  <2>7. QED
    BY <2>1, <2>4, <2>5, <2>6, StartCycleInv
<1>6. CASE LateSync \/ Cancel \/ CatalogShows \/ Tick \/ UNCHANGED barrierVars
  <2>1. /\ UNCHANGED loopVars /\ UNCHANGED got /\ UNCHANGED seen
        /\ syncs' \in [Attempts -> SUBSET Sources] /\ (label = "new" => label' = "new") /\ (signal = "aborted" => signal' = "aborted")
        /\ label' \in {"old", "new"} /\ signal' \in {"open", "aborted"} /\ UNCHANGED fault
    BY <1>6 DEF LateSync, Cancel, CatalogShows, Tick, barrierVars, worldVars, readVars,
                BarrierInv, BarrierTypeOK
  <2>2. now' \in Nat /\ now' >= now
    BY <1>6 DEF LateSync, Cancel, CatalogShows, Tick, barrierVars, worldVars, BarrierInv,
                BarrierTypeOK
  <2> USE <2>1, <2>2, BarrierAssumption DEF loopVars, BarrierInv
  <2>3. BarrierTypeOK'
    BY DEF BarrierTypeOK
  <2>4. ConfirmedMeansRenamed' /\ MachineFollowsLoop'
    BY DEF ConfirmedMeansRenamed, MachineFollowsLoop
  <2>5. NeverGivesUpEarly'
    BY DEF NeverGivesUpEarly, BarrierTypeOK
  <2>6. QED
    BY <2>3, <2>4, <2>5
<1>7. CASE RetryTimerFails
  <2> USE <1>7 DEF RetryTimerFails, Throw, readVars, BarrierInv
  <2>1. BarrierTypeOK'
    BY DEF BarrierTypeOK, Kinds, Transient
  <2>2. ConfirmedMeansRenamed' /\ MachineFollowsLoop' /\ NeverGivesUpEarly'
    BY DEF ConfirmedMeansRenamed, MachineFollowsLoop, NeverGivesUpEarly, BarrierTypeOK
  <2>3. QED
    BY <2>1, <2>2
<1>8. QED
  BY <1>1, <1>2, <1>3, <1>4, <1>5, <1>6, <1>7 DEF BarrierNext

LEMMA BarrierInvariance == BarrierSpec => []BarrierInv
  BY BarrierInitInv, BarrierStepInv, PTL DEF BarrierSpec

----------------------------------------------------------------------------
\* Type correctness: in particular, never more than MaxAttempts attempts.
THEOREM BarrierTypeCorrect == BarrierSpec => []BarrierTypeOK
  BY BarrierInvariance, PTL DEF BarrierInv

\* The import is blocked until the catalog shows the archive name.
THEOREM BarrierBlocks == BarrierSpec => []ConfirmedMeansRenamed
  BY BarrierInvariance, PTL DEF BarrierInv

\* The machine never ignores the read its loop waits for.
THEOREM MachineAndLoopAgree == BarrierSpec => []MachineFollowsLoop
  BY BarrierInvariance, PTL DEF BarrierInv

\* A transient failure never ends the confirmation: every code it throws has its
\* own cause, and DEPENDENCY_FAILURE none but a retry timer.
THEOREM BarrierIsPatient == BarrierSpec => []NeverGivesUpEarly
  BY BarrierInvariance, PTL DEF BarrierInv

\* No read starts, and no retry timer runs, past the deadline.
THEOREM BarrierIsPunctual == BarrierSpec => ReadsStartInTime
<1> DEFINE InTime ==
      /\ (\E i \in Attempts : syncs'[i] \ syncs[i] # {}) =>
           now < Deadline /\ signal = "open" /\ pc \in {"idle", "sleeping"}
      /\ pc' = "sleeping" => wakeAt' <= Deadline /\ attempt' < MaxAttempts
<1>1. ASSUME BarrierTypeOK, BarrierNext
      PROVE  (\E i \in Attempts : syncs'[i] \ syncs[i] # {}) =>
               now < Deadline /\ signal = "open" /\ pc \in {"idle", "sleeping"}
  <2>1. CASE Begin \/ Wake
    BY <1>1, <2>1, BarrierAssumption DEF Begin, Wake, StartCycle, readVars, BarrierTypeOK
  <2>2. CASE ~(Begin \/ Wake)
    BY <1>1, <2>2
    DEF BarrierNext, SyncAnswers, SyncFails, ReadTimesOut, RetryTimerFails, LateSync, Cancel, CatalogShows, Tick,
        readVars, BarrierTypeOK
  <2>3. QED
    BY <2>1, <2>2
<1>2. BarrierInv /\ BarrierInv' /\ [BarrierNext]_barrierVars => [InTime]_barrierVars
  BY <1>1 DEF BarrierInv
<1>3. QED
  BY <1>2, BarrierInvariance, PTL DEF BarrierSpec, ReadsStartInTime

============================================================================
