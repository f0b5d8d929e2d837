--------------------------- MODULE RenameBarrier ---------------------------
(***************************************************************************)
(* The barrier between the archive rename and the import:                  *)
(* confirmProjectRename() of catalog/rename-barrier.ts, which drives the   *)
(* machine of catalog/rename-durability-state-machine.ts.                  *)
(*                                                                         *)
(* The barrier reads the catalog until a read shows the new name, at most  *)
(* MaxAttempts times and until Deadline.  A read is two catalog syncs that *)
(* run at once (loadProjects); the first to fail ends the read and leaves  *)
(* the other in flight.  Between two awaits the code runs to completion,   *)
(* so an action is what one answer, one failure or one timer leads to, up  *)
(* to the next await.  Timers fire when due or later, never before.        *)
(***************************************************************************)
EXTENDS Naturals

CONSTANTS
    MaxAttempts,  \* MAX_CONFIRMATION_ATTEMPTS
    Interval,     \* CONFIRMATION_INTERVAL_MS, in ticks
    Deadline,     \* CONFIRMATION_DEADLINE_MS, in ticks from the start
    Horizon       \* bound: the clock stops here

ASSUME BarrierAssumption ==
    /\ MaxAttempts \in Nat \ {0}
    /\ Interval \in Nat \ {0}
    /\ Deadline \in Nat \ {0}
    /\ Horizon \in Nat /\ Deadline <= Horizon

VARIABLES
    pc,         \* "idle", then what is awaited, then how the call ended
    code,       \* the code of the fault thrown, "none" before
    attempt,    \* the loop's counter
    attemptID,  \* the loop's identifier of the attempt
    machine,    \* RenameDurabilityState
    wakeAt,     \* when the retry timer is due
    syncs,      \* by attempt: the catalog syncs of its read still in flight
    got,        \* the syncs of the current read that have answered
    seen,       \* the label in the project rows of the current read
    label,      \* the label the catalog shows: "old" or "new"
    signal,     \* options.signal: "open" or "aborted"
    fault,      \* what went wrong last: the code of a failed read, "timer", or "none"
    now

loopVars == <<pc, code, attempt, attemptID, machine, wakeAt>>
readVars == <<syncs, got, seen>>
worldVars == <<label, signal, fault, now>>
barrierVars == <<loopVars, readVars, worldVars>>

----------------------------------------------------------------------------
Attempts == 1 .. MaxAttempts
Sources == {"project.CRUD:REPLACE", "assistant.REPLACE"}
Kinds == {"READY", "ATTEMPTING", "WAITING_TO_RETRY", "CONFIRMED", "FAILED",
          "EXHAUSTED", "CANCELLED"}
MachineTerminal == {"CONFIRMED", "FAILED", "EXHAUSTED", "CANCELLED"}
Permanent == {"AUTHENTICATION_FAILED", "INVALID_ARGUMENT", "NOT_FOUND"}
Transient == {"DEPENDENCY_FAILURE", "DEPENDENCY_TIMEOUT"}

Earlier(a, b) == IF a < b THEN a ELSE b

\* transitionRenameDurability(), one operator per event the barrier sends.
startAttempt(m, a, id) ==
    IF m.kind \in {"READY", "WAITING_TO_RETRY"}
    THEN [kind |-> "ATTEMPTING", attempt |-> a, id |-> id] ELSE m

catalogResult(m, id) ==
    IF m.kind = "ATTEMPTING" /\ m.id = id THEN [m EXCEPT !.kind = "CONFIRMED"] ELSE m

\* A slip: the machine does not count the attempt.
retryTimerUncounted(m, id, next) ==
    IF m.kind = "WAITING_TO_RETRY" /\ m.id = id
    THEN [kind |-> "ATTEMPTING", attempt |-> m.attempt, id |-> next] ELSE m

retryTimer(m, id, next) ==
    IF m.kind = "WAITING_TO_RETRY" /\ m.id = id
    THEN [kind |-> "ATTEMPTING", attempt |-> m.attempt + 1, id |-> next] ELSE m

scheduleRetry(m) == [m EXCEPT !.kind = "WAITING_TO_RETRY"]

----------------------------------------------------------------------------
BarrierInit ==
    /\ pc = "idle" /\ code = "none"
    /\ attempt = 1 /\ attemptID = 1
    /\ machine = [kind |-> "READY", attempt |-> 0, id |-> 0]
    /\ wakeAt = 0
    /\ syncs = [i \in Attempts |-> {}] /\ got = {} /\ seen = "old"
    /\ label \in {"old", "new"}
    /\ signal \in {"open", "aborted"}
    /\ fault = "none" /\ now = 0

Throw(c) ==
    /\ pc' = "thrown"
    /\ code' = c
    /\ UNCHANGED <<attempt, attemptID, wakeAt>>

\* A slip: the deadline is only looked at between attempts.
StartCycleLate(a, id, m) ==
    \/ /\ signal = "aborted"
       /\ Throw("INTERNAL_ERROR") /\ machine' = m
       /\ UNCHANGED readVars
    \/ /\ signal = "open"
       /\ pc' = "reading" /\ attempt' = a /\ attemptID' = id
       /\ machine' = startAttempt(m, a, id)
       /\ syncs' = [syncs EXCEPT ![a] = Sources]
       /\ got' = {} /\ seen' = "old"
       /\ UNCHANGED <<code, wakeAt>>

\* runRenameAttemptCycle() up to the read; remainingAttemptTime() first.
StartCycle(a, id, m) ==
    \/ /\ signal = "aborted"
       /\ Throw("INTERNAL_ERROR") /\ machine' = m
       /\ UNCHANGED readVars
    \/ /\ signal = "open" /\ now >= Deadline
       /\ Throw("DEPENDENCY_TIMEOUT") /\ machine' = m
       /\ UNCHANGED readVars
    \/ /\ signal = "open" /\ now < Deadline
       /\ pc' = "reading" /\ attempt' = a /\ attemptID' = id
       /\ machine' = startAttempt(m, a, id)
       /\ syncs' = [syncs EXCEPT ![a] = Sources]
       /\ got' = {} /\ seen' = "old"
       /\ UNCHANGED <<code, wakeAt>>

\* The attempt did not confirm: ensureRetryCanStart(), then the retry timer.
Unconfirmed ==
    \/ /\ now >= Deadline \/ attempt = MaxAttempts
       /\ Throw("DEPENDENCY_TIMEOUT")
       /\ UNCHANGED machine
    \/ /\ now < Deadline /\ attempt # MaxAttempts
       /\ pc' = "sleeping"
       /\ machine' = scheduleRetry(machine)
       /\ wakeAt' = Earlier(now + Interval, Deadline)
       /\ UNCHANGED <<code, attempt, attemptID>>

\* A slip: a failed dependency is taken for the end.
ReadFailedAtOnce(c) ==
    \/ signal = "aborted" /\ Throw("INTERNAL_ERROR") /\ UNCHANGED machine
    \/ signal = "open" /\ c \in Permanent \cup {"DEPENDENCY_FAILURE"} /\ Throw(c) /\ UNCHANGED machine
    \/ signal = "open" /\ c = "DEPENDENCY_TIMEOUT" /\ Unconfirmed

\* handleAttemptFailure().
ReadFailed(c) ==
    \/ signal = "aborted" /\ Throw("INTERNAL_ERROR") /\ UNCHANGED machine
    \/ signal = "open" /\ c \in Permanent /\ Throw(c) /\ UNCHANGED machine
    \/ signal = "open" /\ c \in Transient /\ Unconfirmed

\* A slip: any record of the project confirms, whatever its label.
ReadAnsweredByID(record) ==
    \/ signal = "aborted" /\ Throw("INTERNAL_ERROR") /\ UNCHANGED machine
    \/ /\ signal = "open" /\ now <= Deadline
       /\ pc' = "returned"
       /\ machine' = catalogResult(machine, attemptID)
       /\ UNCHANGED <<code, attempt, attemptID, wakeAt>>
    \/ signal = "open" /\ now > Deadline /\ Unconfirmed

\* performRenameAttempt() after the read: a matching record confirms unless
\* it came after the deadline or the machine ignores it.
ReadAnswered(record) ==
    \/ signal = "aborted" /\ Throw("INTERNAL_ERROR") /\ UNCHANGED machine
    \/ /\ signal = "open" /\ record = "expected" /\ now <= Deadline
       /\ machine' = catalogResult(machine, attemptID)
       /\ machine'.kind = "CONFIRMED"
       /\ pc' = "returned"
       /\ UNCHANGED <<code, attempt, attemptID, wakeAt>>
    \/ /\ signal = "open"
       /\ \/ record = "other" \/ now > Deadline
          \/ catalogResult(machine, attemptID).kind # "CONFIRMED"
       /\ Unconfirmed

----------------------------------------------------------------------------
\* confirmProjectRename() is called.
Begin ==
    /\ pc = "idle"
    /\ StartCycle(attempt, attemptID, machine)
    /\ UNCHANGED worldVars

\* One sync of the current read answers; the second completes the read.  The
\* label comes with the project rows; a record whose folder, workspace or
\* uniqueness is wrong does not match.
SyncAnswers(a) ==
    /\ pc = "reading"
    /\ a \in syncs[attempt]
    /\ syncs' = [syncs EXCEPT ![attempt] = @ \ {a}]
    /\ got' = got \cup {a}
    /\ seen' = IF a = "project.CRUD:REPLACE" THEN label ELSE seen
    /\ IF got' = Sources
       THEN \E record \in {"expected", "other"} :
            (record = "expected" => seen' = "new") /\ ReadAnswered(record)
       ELSE UNCHANGED loopVars
    /\ UNCHANGED worldVars

\* One sync of the current read fails, and the read with it.
SyncFails(a) ==
    /\ pc = "reading"
    /\ a \in syncs[attempt]
    /\ syncs' = [syncs EXCEPT ![attempt] = @ \ {a}]
    /\ \E c \in Permanent \cup Transient : ReadFailed(c) /\ fault' = c
    /\ UNCHANGED <<got, seen, label, signal, now>>

\* A slip: the read is not raced with the time that remains.
ReadWaitsForever == FALSE /\ UNCHANGED barrierVars

\* The timer of readWithDeadline(); the syncs stay in flight.
ReadTimesOut ==
    /\ pc = "reading"
    /\ now >= Deadline
    /\ ReadFailed("DEPENDENCY_TIMEOUT") /\ fault' = "DEPENDENCY_TIMEOUT"
    /\ UNCHANGED <<readVars, label, signal, now>>

\* The retry timer: waitForRenameRetry() and the next round of the loop, for
\* which ensureRetryCanStart() left an attempt.  createUUID() is a counter.
Wake ==
    /\ pc = "sleeping"
    /\ now >= wakeAt
    /\ LET next == retryTimer(machine, machine.id, attemptID + 1)
           id   == IF next.kind = "ATTEMPTING" THEN next.id ELSE attemptID + 2
       IN  StartCycle(attempt + 1, id, next)
    /\ UNCHANGED worldVars

\* The retry timer cannot be made, or its sleep() rejects: "timer-failure", for
\* which a cancellation is not looked at.
RetryTimerFails ==
    /\ pc = "sleeping"
    /\ Throw("DEPENDENCY_FAILURE")
    /\ machine' = [machine EXCEPT !.kind = "FAILED"]
    /\ fault' = "timer"
    /\ UNCHANGED <<readVars, label, signal, now>>

----------------------------------------------------------------------------
\* A sync nobody waits for ends; finish() has settled already.
LateSync ==
    /\ \E i \in Attempts, a \in Sources :
         /\ a \in syncs[i]
         /\ pc # "reading" \/ i # attempt
         /\ syncs' = [syncs EXCEPT ![i] = @ \ {a}]
    /\ UNCHANGED <<loopVars, got, seen, worldVars>>

Cancel ==
    /\ signal = "open" /\ pc \notin {"returned", "thrown"}
    /\ signal' = "aborted"
    /\ UNCHANGED <<loopVars, readVars, label, fault, now>>

CatalogShows ==
    /\ label = "old"
    /\ label' = "new"
    /\ UNCHANGED <<loopVars, readVars, signal, fault, now>>

Tick ==
    /\ pc \in {"reading", "sleeping"}
    /\ now < Horizon
    /\ now' = now + 1
    /\ UNCHANGED <<loopVars, readVars, label, signal, fault>>

BarrierNext ==
    \/ Begin
    \/ \E a \in Sources : SyncAnswers(a) \/ SyncFails(a)
    \/ ReadTimesOut
    \/ Wake \/ RetryTimerFails
    \/ LateSync \/ Cancel \/ CatalogShows \/ Tick

BarrierSpec == BarrierInit /\ [][BarrierNext]_barrierVars

\* Time passes and the event loop runs the timers that are due; the catalog
\* owes no answer.
BarrierFairSpec ==
    /\ BarrierSpec
    /\ WF_barrierVars(Begin) /\ WF_barrierVars(Tick)
    /\ WF_barrierVars(ReadTimesOut) /\ WF_barrierVars(Wake)

----------------------------------------------------------------------------
\* Type correctness of the barrier.
BarrierTypeOK ==
    /\ pc \in {"idle", "reading", "sleeping", "returned", "thrown"}
    /\ code \in Permanent \cup Transient \cup {"INTERNAL_ERROR", "none"}
    /\ attempt \in Attempts
    /\ attemptID \in Nat
    /\ machine \in [kind : Kinds, attempt : Nat, id : Nat]
    /\ wakeAt \in Nat
    /\ syncs \in [Attempts -> SUBSET Sources]
    /\ got \subseteq Sources
    /\ seen \in {"old", "new"} /\ label \in {"old", "new"} /\ signal \in {"open", "aborted"}
    /\ fault \in Permanent \cup Transient \cup {"timer", "none"}
    /\ now \in Nat

\* bdd/done/rename-durability-retry-state-machine.feature, "import remains
\* blocked until CONFIRMED": the call returns only when the catalog shows
\* the archive name.  MigrationRunner takes this for granted.
ConfirmedMeansRenamed == pc = "returned" => label = "new"

\* The loop and the machine count and name the attempts separately; they never
\* drift apart, so the machine never ignores the read that matters and
\* the call returns exactly when the machine is CONFIRMED.
MachineFollowsLoop ==
    /\ pc = "reading" =>
        machine = [kind |-> "ATTEMPTING", attempt |-> attempt, id |-> attemptID]
    /\ pc = "sleeping" =>
        machine = [kind |-> "WAITING_TO_RETRY", attempt |-> attempt, id |-> attemptID]
    /\ pc = "returned" <=> machine.kind = "CONFIRMED"

\* bdd/done/rename-durability-retry-state-machine.feature, "Retry transient catalog
\* failures": whatever reads failed before, the barrier only gives up because all
\* attempts or all the time are used, because it was cancelled, because its last
\* read failed for good or because no retry timer could be had, and its code says
\* which of these it was.
NeverGivesUpEarly ==
    pc = "thrown" =>
        \/ code = "DEPENDENCY_TIMEOUT" /\ (attempt = MaxAttempts \/ now >= Deadline)
        \/ code = "INTERNAL_ERROR" /\ signal = "aborted"
        \/ code \in Permanent /\ fault = code
        \/ code = "DEPENDENCY_FAILURE" /\ fault = "timer"

\* "No delay occurs after the final attempt or after the deadline", and no
\* read starts after the deadline, after a cancellation or during another
\* attempt, however late the timers fire.
ReadsStartInTime ==
    [][/\ (\E i \in Attempts : syncs'[i] \ syncs[i] # {}) =>
            /\ now < Deadline /\ signal = "open"
            /\ pc \in {"idle", "sleeping"}
       /\ pc' = "sleeping" => wakeAt' <= Deadline /\ attempt' < MaxAttempts
      ]_barrierVars

\* The barrier ends, whatever the catalog does.
ConfirmationEnds == <>(pc \in {"returned", "thrown"})
=============================================================================
