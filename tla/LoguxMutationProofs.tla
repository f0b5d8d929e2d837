------------------------- MODULE LoguxMutationProofs -------------------------
(***************************************************************************)
(* Proofs about LoguxMutation, for any number of sends.  LoguxInv adds to  *)
(* the properties what they need to be inductive: how far the machine is   *)
(* says whether the mutation was sent, a settled promise has no callback   *)
(* left that matters, and the server only acts on what was sent.           *)
(***************************************************************************)
EXTENDS LoguxMutation, TLAPS

\* Where the call stands: not started, pending or settled.
Phases ==
    /\ socket = "unopened" =>
         /\ outcome = "pending" /\ machine \in {"CONNECTING", "none"}
         /\ ~cleaned /\ ~terminal /\ ~timer /\ ~subscriptionSent
    /\ outcome # "pending" => socket = "closed" /\ (cleaned \/ terminal)
    /\ outcome = "pending" =>
         /\ socket # "closed"
         /\ machine \notin Ended \cup {"MUTATION_ACKNOWLEDGED"}
         /\ code = "none"

\* How far the machine is, and what the server knows.
SendFits ==
    /\ machine = "none" <=> op = "update-secret"
    /\ machine \in {"CONNECTING", "CONNECTED", "SUBSCRIBING", "SUBSCRIBED"} => sends = 0
    /\ machine = "MUTATION_SENT" => sends > 0
    /\ fate = "none" <=> sends = 0
    /\ socket \in {"unopened", "connecting"} => sends = 0

LoguxInv ==
    /\ LoguxTypeOK
    /\ PendingIsGuarded
    /\ Phases
    /\ SendFits
    /\ ResolvedMeansApplied
    /\ UnknownMeansSent

LEMMA LoguxInitInv == LoguxInit => LoguxInv
<1> SUFFICES ASSUME LoguxInit
             PROVE  LoguxInv
  OBVIOUS
<1> USE MaxSendsAssumption DEF LoguxInit
<1>0. sends \in 0 .. MaxSends
  OBVIOUS
<1>1. LoguxTypeOK
  BY <1>0 DEF LoguxTypeOK, Operations, Kinds, Ended
<1>2. Phases /\ SendFits
  BY DEF Phases, SendFits, Ended, Operations
<1>3. PendingIsGuarded /\ ResolvedMeansApplied /\ UnknownMeansSent
  BY DEF PendingIsGuarded, ResolvedMeansApplied, UnknownMeansSent
<1>4. QED
  BY <1>1, <1>2, <1>3 DEF LoguxInv

\* An event ends a pending operation: whatever the machine, the promise is
\* rejected with one of the codes.
LEMMA FailEffect ==
  ASSUME LoguxInv, outcome = "pending",
         NEW kind \in {"FAILED", "UNKNOWN_OUTCOME"}, NEW fault \in Codes,
         Fail(kind, fault)
  PROVE  /\ outcome' \in Codes
         /\ IF op = "update-secret" THEN machine' = machine /\ code' = code
                                    ELSE machine' = kind /\ code' = fault
<1> USE DEF LoguxInv, Phases, Fail, hasMachine
<1>1. CASE op = "update-secret"
  BY <1>1 DEF Settle
<1>2. CASE op # "update-secret"
  BY <1>2 DEF Settle, rejection, Codes
<1>3. QED
  BY <1>1, <1>2

\* Its cleanup follows, and the server hears nothing of it.
LEMMA FailInv ==
  ASSUME LoguxInv, outcome = "pending", socket # "unopened",
         NEW kind \in {"FAILED", "UNKNOWN_OUTCOME"}, NEW fault \in Codes,
         kind = "UNKNOWN_OUTCOME" => fault = "DEPENDENCY_TIMEOUT" \/ machine = "MUTATION_SENT",
         Fail(kind, fault), Cleanup,
         terminal' \in BOOLEAN, subscriptionSent' \in BOOLEAN,
         UNCHANGED <<op, serverVars>>
  PROVE  LoguxInv'
<1>1. /\ outcome' \in Codes
      /\ IF op = "update-secret" THEN machine' = machine /\ code' = code
                                 ELSE machine' = kind /\ code' = fault
  BY FailEffect
<1>2. /\ cleaned' = TRUE /\ timer' = FALSE /\ socket' = "closed"
      /\ op' = op /\ sends' = sends /\ fate' = fate
  BY DEF Cleanup, serverVars
<1>3. outcome' # "pending" /\ outcome' # "resolved"
  BY <1>1 DEF Codes
<1> USE DEF LoguxInv
<1>4. LoguxTypeOK'
  BY <1>1, <1>2 DEF LoguxTypeOK, Kinds, Ended
<1>5. Phases' /\ PendingIsGuarded' /\ ResolvedMeansApplied'
  BY <1>2, <1>3 DEF Phases, PendingIsGuarded, ResolvedMeansApplied
<1>6. SendFits' /\ UnknownMeansSent'
  BY <1>1, <1>2 DEF SendFits, UnknownMeansSent
<1>7. QED
  BY <1>4, <1>5, <1>6

\* An event of the transport ends the call.
LEMMA EmitTerminalInv ==
  ASSUME LoguxInv, socket # "unopened",
         NEW kind \in {"FAILED", "UNKNOWN_OUTCOME"}, NEW fault \in Codes,
         kind = "UNKNOWN_OUTCOME" => fault = "DEPENDENCY_TIMEOUT" \/ machine = "MUTATION_SENT",
         EmitTerminal(kind, fault),
         subscriptionSent' \in BOOLEAN, UNCHANGED <<op, serverVars>>
  PROVE  LoguxInv' /\ outcome = "pending"
<1>1. ~cleaned /\ ~terminal /\ terminal' = TRUE /\ Fail(kind, fault) /\ Cleanup
  BY DEF EmitTerminal
<1>2. outcome = "pending"
  BY <1>1 DEF LoguxInv, Phases
<1>3. QED
  BY <1>1, <1>2, FailInv

\* A frame is only received while the promise is pending.
LEMMA ReceivesPending ==
  ASSUME LoguxInv, Receives
  PROVE  outcome = "pending" /\ ~terminal
BY DEF LoguxInv, Receives, Phases, PendingIsGuarded

\* An answer resolves the promise.
LEMMA ResolveInv ==
  ASSUME LoguxInv, Receives, fate = "applied",
         \/ machine = "MUTATION_SENT" /\ machine' \in {"MUTATION_ACKNOWLEDGED", "COMPLETED"}
         \/ op = "update-secret" /\ machine' = machine,
         Settle("resolved"), Cleanup,
         UNCHANGED <<op, code, terminal, subscriptionSent, serverVars>>
  PROVE  LoguxInv' /\ outcome = "pending" /\ outcome' = "resolved"
<1>1. outcome = "pending" /\ outcome' = "resolved"
  BY ReceivesPending DEF Settle
<1>2. /\ cleaned' = TRUE /\ timer' = FALSE /\ socket' = "closed"
      /\ op' = op /\ sends' = sends /\ fate' = fate
  BY DEF Cleanup, serverVars
<1> USE DEF LoguxInv
<1>3. LoguxTypeOK'
  BY <1>1, <1>2 DEF LoguxTypeOK, Kinds, Ended
<1>4. Phases' /\ PendingIsGuarded' /\ SendFits'
  BY <1>1, <1>2 DEF Phases, PendingIsGuarded, SendFits
<1>5. ResolvedMeansApplied' /\ UnknownMeansSent'
  BY <1>1, <1>2 DEF ResolvedMeansApplied, UnknownMeansSent, SendFits, LoguxTypeOK, Phases
<1>6. QED
  BY <1>1, <1>3, <1>4, <1>5

----------------------------------------------------------------------------
LEMMA StartInv == LoguxInv /\ Start => LoguxInv'
<1> SUFFICES ASSUME LoguxInv, Start
             PROVE  LoguxInv'
  OBVIOUS
<1> USE DEF LoguxInv, Start, machineVars, serverVars
<1>1. LoguxTypeOK'
  BY DEF LoguxTypeOK
<1>2. Phases' /\ SendFits'
  BY DEF Phases, SendFits, Ended
<1>3. PendingIsGuarded' /\ ResolvedMeansApplied' /\ UnknownMeansSent'
  BY DEF PendingIsGuarded, ResolvedMeansApplied, UnknownMeansSent, Phases
<1>4. QED
  BY <1>1, <1>2, <1>3

LEMMA StartFailsInv == LoguxInv /\ StartFails => LoguxInv'
<1> SUFFICES ASSUME LoguxInv, StartFails
             PROVE  LoguxInv'
  OBVIOUS
<1>1. outcome = "pending" /\ "DEPENDENCY_FAILURE" \in Codes
      /\ Fail("FAILED", "DEPENDENCY_FAILURE")
  BY DEF LoguxInv, Phases, Codes, StartFails
<1>2. /\ outcome' \in Codes
      /\ IF op = "update-secret" THEN machine' = machine /\ code' = code
                                 ELSE machine' = "FAILED" /\ code' = "DEPENDENCY_FAILURE"
  BY <1>1, FailEffect
<1>3. outcome' # "pending" /\ outcome' # "resolved"
  BY <1>2 DEF Codes
<1> USE DEF LoguxInv, StartFails, serverVars
<1>4. LoguxTypeOK'
  BY <1>1, <1>2 DEF LoguxTypeOK, Kinds, Ended
<1>5. Phases' /\ PendingIsGuarded' /\ ResolvedMeansApplied'
  BY <1>3 DEF Phases, PendingIsGuarded, ResolvedMeansApplied
<1>6. SendFits' /\ UnknownMeansSent'
  BY <1>1, <1>2 DEF SendFits, UnknownMeansSent, Phases
<1>7. QED
  BY <1>4, <1>5, <1>6

LEMMA OpenInv == LoguxInv /\ Open => LoguxInv'
<1> SUFFICES ASSUME LoguxInv, Open
             PROVE  LoguxInv'
  OBVIOUS
<1>0. subscriptionSent' \in BOOLEAN /\ socket # "unopened" /\ UNCHANGED <<op, serverVars>>
  BY DEF Open, LoguxInv, LoguxTypeOK
<1>1. CASE SendThrows
  <2>1. EmitTerminal("FAILED", "DEPENDENCY_FAILURE")
    BY <1>1 DEF SendThrows
  <2>2. QED
    BY <1>0, <2>1, EmitTerminalInv DEF Codes
<1>2. CASE /\ socket' = "open"
           /\ machine' = IF machine = "CONNECTING" THEN "CONNECTED" ELSE machine
           /\ UNCHANGED <<code, outcome, timer, cleaned, terminal>>
  <2> USE <1>2 DEF LoguxInv, Open, serverVars
  <2>1. LoguxTypeOK'
    BY DEF LoguxTypeOK, Kinds
  <2>2. Phases' /\ SendFits'
    BY DEF Phases, SendFits, Ended
  <2>3. PendingIsGuarded' /\ ResolvedMeansApplied' /\ UnknownMeansSent'
    BY DEF PendingIsGuarded, ResolvedMeansApplied, UnknownMeansSent, Phases
  <2>4. QED
    BY <2>1, <2>2, <2>3
<1>3. QED
  BY <1>1, <1>2 DEF Open

LEMMA ConnectedInv == LoguxInv /\ Connected => LoguxInv'
<1> SUFFICES ASSUME LoguxInv, Connected
             PROVE  LoguxInv'
  OBVIOUS
<1>0. subscriptionSent' \in BOOLEAN /\ socket = "open" /\ UNCHANGED <<op, serverVars>>
  BY DEF Connected, Receives
<1>1. CASE SendThrows
  <2>1. EmitTerminal("FAILED", "DEPENDENCY_FAILURE")
    BY <1>1 DEF SendThrows
  <2>2. QED
    BY <1>0, <2>1, EmitTerminalInv DEF Codes
<1>2. CASE /\ machine' = IF machine = "CONNECTED" THEN "SUBSCRIBING" ELSE machine
           /\ UNCHANGED <<code, outcome, socket, timer, cleaned, terminal>>
  <2> USE <1>0, <1>2 DEF LoguxInv, serverVars
  <2>1. LoguxTypeOK'
    BY DEF LoguxTypeOK, Kinds
  <2>2. Phases' /\ SendFits'
    BY DEF Phases, SendFits, Ended
  <2>3. PendingIsGuarded' /\ ResolvedMeansApplied' /\ UnknownMeansSent'
    BY DEF PendingIsGuarded, ResolvedMeansApplied, UnknownMeansSent
  <2>4. QED
    BY <2>1, <2>2, <2>3
<1>3. QED
  BY <1>1, <1>2 DEF Connected

LEMMA SubscriptionSyncedInv == LoguxInv /\ SubscriptionSynced => LoguxInv'
<1> SUFFICES ASSUME LoguxInv, SubscriptionSynced
             PROVE  LoguxInv'
  OBVIOUS
<1>a. subscriptionSent /\ socket = "open" /\ UNCHANGED <<op, subscriptionSent>>
  BY DEF SubscriptionSynced, Receives
<1>b. machine = "SUBSCRIBING" \/ (op = "update-secret" /\ sends < MaxSends)
  BY DEF SubscriptionSynced, hasMachine
<1>0. /\ subscriptionSent' \in BOOLEAN /\ socket = "open" /\ UNCHANGED <<op, subscriptionSent>>
      /\ machine = "SUBSCRIBING" \/ (op = "update-secret" /\ sends < MaxSends)
  BY <1>a, <1>b
<1>1. CASE SendThrows /\ UNCHANGED serverVars
  <2>1. EmitTerminal("FAILED", "DEPENDENCY_FAILURE")
    BY <1>1 DEF SendThrows
  <2>2. QED
    BY <1>0, <1>1, <2>1, EmitTerminalInv DEF Codes
<1>2. CASE /\ machine' = IF hasMachine THEN "MUTATION_SENT" ELSE machine
           /\ sends' = sends + 1
           /\ fate' = IF fate = "applied" THEN "applied" ELSE "open"
           /\ UNCHANGED <<code, outcome, socket, timer, cleaned, terminal>>
  <2>0. outcome = "pending" /\ sends \in Nat /\ sends < MaxSends /\ MaxSends \in Nat \ {0}
        /\ sends' \in 0 .. MaxSends /\ sends' > 0 /\ fate' \in {"applied", "open"}
    BY <1>0, <1>2, MaxSendsAssumption, ReceivesPending
       DEF SubscriptionSynced, LoguxInv, LoguxTypeOK, SendFits
  <2>1. LoguxTypeOK'
    BY <1>0, <1>2, <2>0 DEF LoguxInv, LoguxTypeOK, Kinds
  <2>2. Phases'
    BY <1>0, <1>2, <2>0 DEF LoguxInv, Phases, Ended
  <2>3. SendFits'
    BY <1>0, <1>2, <2>0 DEF LoguxInv, SendFits, hasMachine
  <2>4. PendingIsGuarded' /\ ResolvedMeansApplied' /\ UnknownMeansSent'
    BY <1>0, <1>2, <2>0
       DEF LoguxInv, PendingIsGuarded, ResolvedMeansApplied, UnknownMeansSent
  <2>5. QED
    BY <2>1, <2>2, <2>3, <2>4 DEF LoguxInv
<1>3. QED
  BY <1>1, <1>2 DEF SubscriptionSynced, SendMutation

----------------------------------------------------------------------------
LEMMA ErrorFrameInv == LoguxInv /\ ErrorFrame => LoguxInv'
<1> SUFFICES ASSUME LoguxInv, ErrorFrame
             PROVE  LoguxInv'
  OBVIOUS
<1>1. PICK fault \in Codes : Fail("FAILED", fault)
  BY DEF ErrorFrame, Codes
<1>2. /\ Receives /\ Cleanup /\ socket # "unopened"
      /\ terminal' \in BOOLEAN /\ subscriptionSent' \in BOOLEAN
      /\ UNCHANGED <<op, serverVars>>
  BY DEF ErrorFrame, Receives, LoguxInv, LoguxTypeOK
<1>3. QED
  BY <1>1, <1>2, ReceivesPending, FailInv

LEMMA AnswerFailsInv == LoguxInv /\ (FolderDoneInvalid \/ SecretFailed) => LoguxInv'
<1> SUFFICES ASSUME LoguxInv, FolderDoneInvalid \/ SecretFailed
             PROVE  LoguxInv'
  OBVIOUS
<1>1. /\ Receives /\ Cleanup /\ socket # "unopened"
      /\ Fail("FAILED", "DEPENDENCY_FAILURE") /\ "DEPENDENCY_FAILURE" \in Codes
      /\ terminal' \in BOOLEAN /\ subscriptionSent' \in BOOLEAN
      /\ UNCHANGED <<op, serverVars>>
  BY DEF FolderDoneInvalid, SecretFailed, Receives, LoguxInv, LoguxTypeOK, Codes
<1>2. QED
  BY <1>1, ReceivesPending, FailInv

LEMMA TransportEndsInv ==
  LoguxInv /\ (SocketError \/ SocketClose \/ TimerFires \/ PongThrows) => LoguxInv'
<1> SUFFICES ASSUME LoguxInv, SocketError \/ SocketClose \/ TimerFires \/ PongThrows
             PROVE  LoguxInv'
  OBVIOUS
<1>0. subscriptionSent' \in BOOLEAN /\ UNCHANGED <<op, subscriptionSent, serverVars>>
  BY DEF SocketError, SocketClose, TimerFires, PongThrows, LoguxInv, LoguxTypeOK
<1>1. socket # "unopened"
  BY DEF SocketError, SocketClose, TimerFires, PongThrows, Receives, LoguxInv, Phases
<1>2. CASE EmitTerminal("FAILED", "DEPENDENCY_FAILURE")
  BY <1>0, <1>1, <1>2, EmitTerminalInv DEF Codes
<1>3. CASE EmitTerminal("UNKNOWN_OUTCOME", "DEPENDENCY_FAILURE") /\ machine = "MUTATION_SENT"
  BY <1>0, <1>1, <1>3, EmitTerminalInv DEF Codes
<1>4. CASE EmitTerminal("UNKNOWN_OUTCOME", "DEPENDENCY_TIMEOUT")
  BY <1>0, <1>1, <1>4, EmitTerminalInv DEF Codes
<1>5. CASE terminal /\ timer' = FALSE /\ UNCHANGED <<machineVars, socket, cleaned, terminal>>
  <2> USE <1>0, <1>1, <1>5 DEF LoguxInv, machineVars, serverVars
  <2>1. LoguxTypeOK'
    BY DEF LoguxTypeOK
  <2>2. Phases' /\ SendFits'
    BY DEF Phases, SendFits
  <2>3. PendingIsGuarded' /\ ResolvedMeansApplied' /\ UnknownMeansSent'
    BY DEF PendingIsGuarded, ResolvedMeansApplied, UnknownMeansSent
  <2>4. QED
    BY <2>1, <2>2, <2>3
<1>6. QED
  BY <1>2, <1>3, <1>4, <1>5 DEF SocketError, SocketClose, TimerFires, PongThrows, SendThrows

LEMMA AnswerInv == LoguxInv /\ (MutationSynced \/ MutationDone) => LoguxInv'
<1> SUFFICES ASSUME LoguxInv, MutationSynced \/ MutationDone
             PROVE  LoguxInv'
  OBVIOUS
<1>1. /\ Receives /\ fate = "applied" /\ Settle("resolved") /\ Cleanup
      /\ \/ machine = "MUTATION_SENT" /\ machine' \in {"MUTATION_ACKNOWLEDGED", "COMPLETED"}
         \/ op = "update-secret" /\ machine' = machine
      /\ UNCHANGED <<op, code, terminal, subscriptionSent, serverVars>>
  BY DEF MutationSynced, MutationDone
<1>2. QED
  BY <1>1, ResolveInv

LEMMA ServerInv == LoguxInv /\ (Accept \/ Refuse) => LoguxInv'
<1> SUFFICES ASSUME LoguxInv, Accept \/ Refuse
             PROVE  LoguxInv'
  OBVIOUS
<1> USE DEF LoguxInv, Accept, Refuse, machineVars, connectionVars
<1>1. LoguxTypeOK'
  BY DEF LoguxTypeOK
<1>2. Phases' /\ SendFits'
  BY DEF Phases, SendFits
<1>3. PendingIsGuarded' /\ ResolvedMeansApplied' /\ UnknownMeansSent'
  BY DEF PendingIsGuarded, ResolvedMeansApplied, UnknownMeansSent
<1>4. QED
  BY <1>1, <1>2, <1>3

LEMMA LoguxStepInv == LoguxInv /\ [LoguxNext]_loguxVars => LoguxInv'
<1> SUFFICES ASSUME LoguxInv, [LoguxNext]_loguxVars
             PROVE  LoguxInv'
  OBVIOUS
<1>1. CASE UNCHANGED loguxVars
  BY <1>1 DEF LoguxInv, loguxVars, machineVars, connectionVars, serverVars, LoguxTypeOK,
     Phases, SendFits, PendingIsGuarded, ResolvedMeansApplied, UnknownMeansSent
<1>2. CASE Start \/ StartFails \/ Open \/ Connected \/ SubscriptionSynced
  BY <1>2, StartInv, StartFailsInv, OpenInv, ConnectedInv, SubscriptionSyncedInv
<1>3. CASE SocketError \/ SocketClose \/ TimerFires \/ PongThrows
  BY <1>3, TransportEndsInv
<1>4. CASE FolderDoneInvalid \/ SecretFailed \/ ErrorFrame
  BY <1>4, AnswerFailsInv, ErrorFrameInv
<1>5. CASE MutationSynced \/ MutationDone \/ Accept \/ Refuse
  BY <1>5, AnswerInv, ServerInv
<1>6. QED
  BY <1>1, <1>2, <1>3, <1>4, <1>5 DEF LoguxNext

LEMMA LoguxInvariant == LoguxSpec => []LoguxInv
<1>1. LoguxInit => LoguxInv
  BY LoguxInitInv
<1>2. LoguxInv /\ [LoguxNext]_loguxVars => LoguxInv'
  BY LoguxStepInv
<1>3. QED
  BY <1>1, <1>2, PTL DEF LoguxSpec

\* The operation, its connection and the server keep their types; in
\* particular a machine sends its mutation at most MaxSends times.
THEOREM LoguxTypeCorrect == LoguxSpec => []LoguxTypeOK
<1>1. LoguxInv => LoguxTypeOK
  BY DEF LoguxInv
<1>2. QED
  BY <1>1, LoguxInvariant, PTL

\* A pending promise always has an armed timer and attached handlers.
THEOREM PendingGuarded == LoguxSpec => []PendingIsGuarded
<1>1. LoguxInv => PendingIsGuarded
  BY DEF LoguxInv
<1>2. QED
  BY <1>1, LoguxInvariant, PTL

\* A promise resolves only for a mutation that took effect.
THEOREM ResolvedApplied == LoguxSpec => []ResolvedMeansApplied
<1>1. LoguxInv => ResolvedMeansApplied
  BY DEF LoguxInv
<1>2. QED
  BY <1>1, LoguxInvariant, PTL

\* A closed connection is of unknown outcome only after the send.
THEOREM UnknownSent == LoguxSpec => []UnknownMeansSent
<1>1. LoguxInv => UnknownMeansSent
  BY DEF LoguxInv
<1>2. QED
  BY <1>1, LoguxInvariant, PTL

----------------------------------------------------------------------------
\* The mutation follows the subscription; a machine sends it once and none is
\* sent for a settled promise.
THEOREM OneMutationHolds == LoguxSpec => OneMutation
<1>1. LoguxInv /\ [LoguxNext]_loguxVars
      => [sends' # sends =>
            /\ subscriptionSent
            /\ outcome = "pending"
            /\ hasMachine => sends = 0]_loguxVars
  <2> SUFFICES ASSUME LoguxInv, LoguxNext, sends' # sends
               PROVE  /\ subscriptionSent
                      /\ outcome = "pending"
                      /\ hasMachine => sends = 0
    OBVIOUS
  <2>1. SubscriptionSynced
    BY DEF LoguxNext, Start, StartFails, Open, SocketError, SocketClose, TimerFires, Connected,
       MutationSynced, MutationDone, FolderDoneInvalid, SecretFailed, ErrorFrame, PongThrows,
       Accept, Refuse, serverVars
  <2>2. subscriptionSent /\ Receives
    BY <2>1 DEF SubscriptionSynced
  <2>3. outcome = "pending"
    BY <2>2, ReceivesPending
  <2>4. hasMachine => machine = "SUBSCRIBING"
    BY <2>1 DEF SubscriptionSynced
  <2>5. machine = "SUBSCRIBING" => sends = 0
    BY DEF LoguxInv, SendFits
  <2>6. QED
    BY <2>2, <2>3, <2>4, <2>5
<1>2. QED
  BY <1>1, LoguxInvariant, PTL DEF LoguxSpec, OneMutation

\* After the settlement nothing changes but the timer of a connection that was
\* never opened, and what the server decides.
THEOREM SettledFinal == LoguxSpec => SettledIsFinal
<1>1. LoguxInv /\ [LoguxNext]_loguxVars
      => [outcome # "pending" =>
            UNCHANGED <<machineVars, subscriptionSent, sends, cleaned, terminal, socket>>]_loguxVars
  <2> SUFFICES ASSUME LoguxInv, LoguxNext, outcome # "pending"
               PROVE  UNCHANGED <<machineVars, subscriptionSent, sends, cleaned, terminal, socket>>
    OBVIOUS
  <2>1. socket = "closed" /\ (cleaned \/ terminal)
    BY DEF LoguxInv, Phases
  <2>2. CASE TimerFires
    BY <2>1, <2>2 DEF TimerFires, EmitTerminal, serverVars, machineVars
  <2>3. CASE Accept \/ Refuse
    BY <2>3 DEF Accept, Refuse, machineVars, connectionVars
  <2>4. ~(Start \/ StartFails \/ Open \/ SocketError \/ SocketClose)
    BY <2>1 DEF Start, StartFails, Open, SocketError, SocketClose
  <2>5. ~(Connected \/ SubscriptionSynced \/ MutationSynced \/ MutationDone
          \/ FolderDoneInvalid \/ SecretFailed \/ ErrorFrame \/ PongThrows)
    BY <2>1 DEF Connected, SubscriptionSynced, MutationSynced, MutationDone,
       FolderDoneInvalid, SecretFailed, ErrorFrame, PongThrows, Receives
  <2>6. QED
    BY <2>2, <2>3, <2>4, <2>5 DEF LoguxNext
<1>2. QED
  BY <1>1, LoguxInvariant, PTL DEF LoguxSpec, SettledIsFinal

----------------------------------------------------------------------------
\* The protocols implement MutationCall: an event that ends the operation is a
\* Fail, an answer a Confirm, a send an Ask, the server's decision a Decide.
LEMMA FailIsCallFail ==
  ASSUME LoguxInv, outcome = "pending",
         NEW kind \in {"FAILED", "UNKNOWN_OUTCOME"}, NEW fault \in Codes,
         Fail(kind, fault), UNCHANGED <<op, fate>>
  PROVE  Call!Fail
<1>1. outcome' \in Codes
  BY FailEffect
<1>2. Report = "none" /\ Report' = "failed"
  BY <1>1 DEF Report, Codes
<1>3. Repetition' = Repetition
  BY DEF Repetition, hasMachine
<1>4. QED
  BY <1>2, <1>3 DEF Call!Fail

LEMMA EmitTerminalIsCallFail ==
  ASSUME LoguxInv,
         NEW kind \in {"FAILED", "UNKNOWN_OUTCOME"}, NEW fault \in Codes,
         EmitTerminal(kind, fault), UNCHANGED <<op, fate>>
  PROVE  Call!Fail
<1>1. outcome = "pending" /\ Fail(kind, fault)
  BY DEF EmitTerminal, LoguxInv, Phases
<1>2. QED
  BY <1>1, FailIsCallFail

LEMMA StepImplementsCall ==
  LoguxInv /\ [LoguxNext]_loguxVars => [Call!CallNext]_(Call!callVars)
<1> SUFFICES ASSUME LoguxInv, [LoguxNext]_loguxVars
             PROVE  Call!CallNext \/ UNCHANGED <<Repetition, fate, Report>>
  BY DEF Call!callVars
<1>c. "DEPENDENCY_FAILURE" \in Codes /\ "DEPENDENCY_TIMEOUT" \in Codes
  BY DEF Codes
<1>s. CASE UNCHANGED <<op, outcome, fate>>
  BY <1>s DEF Repetition, Report, hasMachine
<1>1. CASE UNCHANGED loguxVars \/ Start
  BY <1>1, <1>s DEF loguxVars, machineVars, connectionVars, serverVars, Start
<1>t. CASE SendThrows /\ UNCHANGED <<op, fate>>
  BY <1>t, <1>c, EmitTerminalIsCallFail DEF SendThrows, Call!CallNext
<1>2. CASE StartFails
  <2>1. outcome = "pending" /\ Fail("FAILED", "DEPENDENCY_FAILURE") /\ UNCHANGED <<op, fate>>
    BY <1>2 DEF StartFails, LoguxInv, Phases, serverVars
  <2>2. QED
    BY <1>c, <2>1, FailIsCallFail DEF Call!CallNext
<1>3. CASE Open \/ Connected \/ PongThrows
  BY <1>3, <1>s, <1>t DEF Open, Connected, PongThrows, serverVars
<1>4. CASE SocketError \/ SocketClose \/ TimerFires
  <2>1. UNCHANGED <<op, fate>>
    BY <1>4 DEF SocketError, SocketClose, TimerFires, serverVars
  <2>2. CASE \/ EmitTerminal("FAILED", "DEPENDENCY_FAILURE")
             \/ EmitTerminal("UNKNOWN_OUTCOME", "DEPENDENCY_FAILURE")
             \/ EmitTerminal("UNKNOWN_OUTCOME", "DEPENDENCY_TIMEOUT")
    BY <1>c, <2>1, <2>2, EmitTerminalIsCallFail DEF Call!CallNext
  <2>3. CASE UNCHANGED outcome
    BY <1>s, <2>1, <2>3
  <2>4. QED
    BY <1>4, <2>2, <2>3 DEF SocketError, SocketClose, TimerFires, machineVars
<1>5. CASE SubscriptionSynced
  <2>1. CASE SendThrows /\ UNCHANGED serverVars
    BY <1>5, <1>t, <2>1 DEF SubscriptionSynced, serverVars
  <2>2. CASE /\ fate' = IF fate = "applied" THEN "applied" ELSE "open"
             /\ UNCHANGED outcome
    <3>1. outcome = "pending" /\ UNCHANGED op
      BY <1>5, ReceivesPending DEF SubscriptionSynced
    <3>2. Report = "none" /\ Report' = Report /\ Repetition' = Repetition
      BY <2>2, <3>1 DEF Report, Repetition, hasMachine
    <3>3. fate = "none" \/ Repetition = "repeatable"
      BY <1>5 DEF SubscriptionSynced, LoguxInv, SendFits, Repetition, hasMachine
    <3>4. QED
      BY <2>2, <3>2, <3>3 DEF Call!CallNext, Call!Ask
  <2>3. QED
    BY <1>5, <2>1, <2>2 DEF SubscriptionSynced, SendMutation
<1>6. CASE MutationSynced \/ MutationDone
  <2>1. /\ Receives /\ fate = "applied" /\ Settle("resolved")
        /\ op' = op /\ fate' = fate
    BY <1>6 DEF MutationSynced, MutationDone, serverVars
  <2>2. outcome = "pending" /\ outcome' = "resolved"
    BY <2>1, ReceivesPending DEF Settle
  <2>3. Report = "none" /\ Report' = "confirmed" /\ Repetition' = Repetition
    BY <2>1, <2>2 DEF Report, Repetition, hasMachine
  <2>4. QED
    BY <2>1, <2>3 DEF Call!CallNext, Call!Confirm
<1>7. CASE FolderDoneInvalid \/ SecretFailed \/ ErrorFrame
  <2>1. /\ Receives /\ UNCHANGED <<op, fate>>
        /\ \E fault \in Codes : Fail("FAILED", fault)
    BY <1>7, <1>c DEF FolderDoneInvalid, SecretFailed, ErrorFrame, serverVars, Codes
  <2>2. QED
    BY <2>1, ReceivesPending, FailIsCallFail DEF Call!CallNext
<1>8. CASE Accept \/ Refuse
  <2>1. /\ fate = "open" /\ fate' \in {"applied", "refused"}
        /\ op' = op /\ outcome' = outcome
    BY <1>8 DEF Accept, Refuse, machineVars
  <2>2. Report' = Report /\ Repetition' = Repetition
    BY <2>1 DEF Report, Repetition, hasMachine
  <2>3. QED
    BY <2>1, <2>2 DEF Call!CallNext, Call!Decide
<1>9. QED
  BY <1>1, <1>2, <1>3, <1>4, <1>5, <1>6, <1>7, <1>8 DEF LoguxNext

\* The protocols implement the mutation MigrationRunner takes them for.
THEOREM LoguxImplementsCall == LoguxSpec => ImplementsCall
<1>1. LoguxInit => Call!CallInit
  BY DEF LoguxInit, Call!CallInit, Report, Repetition
<1>2. LoguxInv /\ [LoguxNext]_loguxVars => [Call!CallNext]_(Call!callVars)
  BY StepImplementsCall
<1>3. QED
  BY <1>1, <1>2, LoguxInvariant, PTL DEF LoguxSpec, ImplementsCall, Call!CallSpec

=============================================================================
