---------------------------- MODULE LoguxMutation ----------------------------
(***************************************************************************)
(* One mutation over a Logux WebSocket: renameProject(), createSecret(),   *)
(* updateSecret() and createFolder() (xyops/voiceflow/logux), each on top  *)
(* of the socket callbacks of connection.ts.                               *)
(*                                                                         *)
(* The four share the connection and the order connect, subscribe, send,   *)
(* await; they differ in what ends the wait and in how a failure settles   *)
(* the promise.  The first three keep a state machine, updateSecret() has  *)
(* none.  JavaScript runs a callback to completion, so an action is one    *)
(* callback with everything it calls: the machine's transition, its        *)
(* effects, the settlement and the cleanup, nested sends that throw        *)
(* included.  A promise that is settled twice keeps its first settlement.  *)
(*                                                                         *)
(* A frame the operation does not know, or of another action, changes      *)
(* nothing and is no step.  The server may send each of its frames again.  *)
(***************************************************************************)
EXTENDS Naturals

CONSTANT MaxSends   \* updateSecret() sends no more mutations than this

ASSUME MaxSendsAssumption == MaxSends \in Nat \ {0}

VARIABLES
    op,                \* the operation that owns the connection
    machine,           \* state.kind; "none" for updateSecret()
    code,              \* state.code of a failed machine, or "none"
    outcome,           \* the promise: "pending", "resolved" or the fault's code
    socket,            \* resources.socket
    timer,             \* resources.timer is armed
    cleaned,           \* resources.cleaned
    terminal,          \* resources.terminal
    subscriptionSent,  \* resources.subscriptionSent
    sends,             \* mutation frames that left the client
    fate               \* what the server made of them

machineVars == <<machine, code, outcome>>
connectionVars == <<socket, timer, cleaned, terminal, subscriptionSent>>
serverVars == <<sends, fate>>
loguxVars == <<op, machineVars, connectionVars, serverVars>>

----------------------------------------------------------------------------
Operations == {"rename", "create-secret", "update-secret", "create-folder"}
Ended == {"COMPLETED", "FAILED", "UNKNOWN_OUTCOME"}
Kinds == {"CONNECTING", "CONNECTED", "SUBSCRIBING", "SUBSCRIBED", "MUTATION_SENT",
          "MUTATION_ACKNOWLEDGED", "none"} \cup Ended
Codes == {"AUTHENTICATION_FAILED", "DEPENDENCY_FAILURE", "DEPENDENCY_TIMEOUT"}

hasMachine == op # "update-secret"

LoguxInit ==
    /\ op \in Operations
    /\ machine = IF op = "update-secret" THEN "none" ELSE "CONNECTING"
    /\ code = "none"
    /\ outcome = "pending"
    /\ socket = "unopened"
    /\ timer = FALSE /\ cleaned = FALSE /\ terminal = FALSE
    /\ subscriptionSent = FALSE
    /\ sends = 0
    /\ fate = "none"

----------------------------------------------------------------------------
\* cleanupConnection(): idempotent; a detached handler is never called.
Cleanup == timer' = FALSE /\ cleaned' = TRUE /\ socket' = "closed"

\* A second settlement of a promise is ignored.
Settle(result) == outcome' = IF outcome = "pending" THEN result ELSE outcome

\* What the settle effect rejects with once the machine failed with `fault`:
\* renameProject() does not look at it.
rejection(fault) == IF op = "rename" THEN "DEPENDENCY_FAILURE" ELSE fault

\* An event ends the operation: the machine, unless it has ended, goes to
\* `kind` with `fault`, and its settle effect rejects; the handler's own
\* rejection comes second.  updateSecret() has only the latter.
Fail(kind, fault) ==
    IF hasMachine /\ machine \notin Ended
    THEN /\ machine' = kind
         /\ code' = fault
         /\ Settle(rejection(fault))
    ELSE /\ UNCHANGED <<machine, code>>
         /\ Settle(fault)

\* emitTerminal(): at most one terminal event, and none after the cleanup.
EmitTerminal(kind, fault) ==
    /\ ~cleaned /\ ~terminal
    /\ terminal' = TRUE
    /\ Fail(kind, fault)
    /\ Cleanup

\* createSendFrame() or onopen: socket.send() throws.
SendThrows == EmitTerminal("FAILED", "DEPENDENCY_FAILURE")

----------------------------------------------------------------------------
\* A slip: the timer is only started once the socket is open.
StartWithoutTimer ==
    /\ socket = "unopened"
    /\ socket' = "connecting"
    /\ UNCHANGED <<op, machineVars, timer, cleaned, terminal, subscriptionSent, serverVars>>

\* startLoguxConnection(): the timer, then the socket.
Start ==
    /\ socket = "unopened"
    /\ socket' = "connecting"
    /\ timer' = TRUE
    /\ UNCHANGED <<op, machineVars, cleaned, terminal, subscriptionSent, serverVars>>

\* The constructor throws: the terminal event reaches the operation before
\* `connection` is assigned, so its cleanup cleans nothing.
StartFails ==
    /\ socket = "unopened"
    /\ socket' = "closed"
    /\ timer' = TRUE
    /\ terminal' = TRUE
    /\ Fail("FAILED", "DEPENDENCY_FAILURE")
    /\ UNCHANGED <<op, cleaned, subscriptionSent, serverVars>>

\* socket.onopen: connection-opened, then the connect frame.
Open ==
    /\ socket = "connecting" /\ ~cleaned /\ ~terminal
    /\ \/ /\ socket' = "open"
          /\ machine' = IF machine = "CONNECTING" THEN "CONNECTED" ELSE machine
          /\ UNCHANGED <<code, outcome, timer, cleaned, terminal>>
       \/ SendThrows
    /\ UNCHANGED <<op, subscriptionSent, serverVars>>

SocketError ==
    /\ socket \in {"connecting", "open"}
    /\ EmitTerminal("FAILED", "DEPENDENCY_FAILURE")
    /\ UNCHANGED <<op, subscriptionSent, serverVars>>

\* A slip: a connection that closes is always of unknown outcome.
SocketCloseUnknown ==
    /\ socket \in {"connecting", "open"}
    /\ EmitTerminal("UNKNOWN_OUTCOME", "DEPENDENCY_FAILURE")
    /\ UNCHANGED <<op, subscriptionSent, serverVars>>

\* socket.onclose: after the mutation was sent, nobody knows.
SocketClose ==
    /\ socket \in {"connecting", "open"}
    /\ EmitTerminal(IF machine = "MUTATION_SENT" THEN "UNKNOWN_OUTCOME" ELSE "FAILED",
                    "DEPENDENCY_FAILURE")
    /\ UNCHANGED <<op, subscriptionSent, serverVars>>

\* The connection's timer; it also fires when the constructor threw.
TimerFires ==
    /\ timer
    /\ \/ EmitTerminal("UNKNOWN_OUTCOME", "DEPENDENCY_TIMEOUT")
       \/ /\ terminal
          /\ timer' = FALSE
          /\ UNCHANGED <<machineVars, socket, cleaned, terminal>>
    /\ UNCHANGED <<op, subscriptionSent, serverVars>>

----------------------------------------------------------------------------
\* handleMessage() is called with a frame the server may send.
Receives == socket = "open" /\ ~cleaned

\* "connected": to the operation first, then the connection subscribes, once.
Connected ==
    /\ Receives
    /\ ~subscriptionSent
    /\ subscriptionSent' = TRUE
    /\ \/ /\ machine' = IF machine = "CONNECTED" THEN "SUBSCRIBING" ELSE machine
          /\ UNCHANGED <<code, outcome, socket, timer, cleaned, terminal>>
       \/ SendThrows
    /\ UNCHANGED <<op, serverVars>>

\* The mutation leaves the client, or its send throws.
SendMutation ==
    \/ /\ machine' = IF hasMachine THEN "MUTATION_SENT" ELSE machine
       /\ sends' = sends + 1
       /\ fate' = IF fate = "applied" THEN "applied" ELSE "open"
       /\ UNCHANGED <<code, outcome, socket, timer, cleaned, terminal>>
    \/ SendThrows /\ UNCHANGED serverVars

\* A slip: every "synced" of the subscription sends the mutation.
SubscriptionSyncedUngated ==
    /\ Receives
    /\ subscriptionSent
    /\ SendMutation
    /\ UNCHANGED <<op, subscriptionSent>>

\* "synced" with the subscription's number: the machine goes to SUBSCRIBED and
\* at once, by mutation-sent, to MUTATION_SENT; any other state ignores both.
\* updateSecret() sends whenever it hears it.
SubscriptionSynced ==
    /\ Receives
    /\ subscriptionSent
    /\ \/ machine = "SUBSCRIBING"
       \/ ~hasMachine /\ sends < MaxSends
    /\ SendMutation
    /\ UNCHANGED <<op, subscriptionSent>>

\* A slip: a "synced" is not matched with the number of the mutation.
MutationSyncedUncorrelated ==
    /\ Receives
    /\ subscriptionSent
    /\ \/ op = "rename" /\ machine = "MUTATION_SENT" /\ machine' = "MUTATION_ACKNOWLEDGED"
       \/ op = "update-secret" /\ UNCHANGED machine
    /\ Settle("resolved")
    /\ Cleanup
    /\ UNCHANGED <<op, code, terminal, subscriptionSent, serverVars>>

\* "synced" with the mutation's number: the server accepted it.  createFolder()
\* and createSecret() await the action's result instead.
MutationSynced ==
    /\ Receives
    /\ fate = "applied"
    /\ \/ op = "rename" /\ machine = "MUTATION_SENT" /\ machine' = "MUTATION_ACKNOWLEDGED"
       \/ op = "update-secret" /\ UNCHANGED machine
    /\ Settle("resolved")
    /\ Cleanup
    /\ UNCHANGED <<op, code, terminal, subscriptionSent, serverVars>>

\* CREATE_ONE_DONE of this action.
MutationDone ==
    /\ Receives
    /\ fate = "applied"
    /\ op \in {"create-secret", "create-folder"} /\ machine = "MUTATION_SENT"
    /\ machine' = "COMPLETED"
    /\ Settle("resolved")
    /\ Cleanup
    /\ UNCHANGED <<op, code, terminal, subscriptionSent, serverVars>>

\* CREATE_ONE_DONE of this action without a usable folder.
FolderDoneInvalid ==
    /\ Receives
    /\ fate = "applied"
    /\ op = "create-folder" /\ machine = "MUTATION_SENT"
    /\ Fail("FAILED", "DEPENDENCY_FAILURE")
    /\ Cleanup
    /\ UNCHANGED <<op, terminal, subscriptionSent, serverVars>>

\* secret.CREATE_ONE_FAILED of this action.
SecretFailed ==
    /\ Receives
    /\ fate = "refused"
    /\ op = "create-secret"
    /\ Fail("FAILED", "DEPENDENCY_FAILURE")
    /\ Cleanup
    /\ UNCHANGED <<op, terminal, subscriptionSent, serverVars>>

\* An error frame, of the connection or of any action.  createFolder() tells
\* wrong credentials apart.
ErrorFrame ==
    /\ Receives
    /\ \E fault \in IF op = "create-folder"
                    THEN {"AUTHENTICATION_FAILED", "DEPENDENCY_FAILURE"}
                    ELSE {"DEPENDENCY_FAILURE"} :
         Fail("FAILED", fault)
    /\ Cleanup
    /\ UNCHANGED <<op, terminal, subscriptionSent, serverVars>>

\* A ping, and the pong cannot be sent.
PongThrows ==
    /\ Receives
    /\ SendThrows
    /\ UNCHANGED <<op, subscriptionSent, serverVars>>

----------------------------------------------------------------------------
\* The server, whose code is not in the repository: a mutation takes effect,
\* or is refused or lost, also after the client has gone.
Accept ==
    /\ fate = "open"
    /\ fate' = "applied"
    /\ UNCHANGED <<op, machineVars, connectionVars, sends>>

Refuse ==
    /\ fate = "open"
    /\ fate' = "refused"
    /\ UNCHANGED <<op, machineVars, connectionVars, sends>>

----------------------------------------------------------------------------
LoguxNext ==
    \/ Start \/ StartFails
    \/ Open \/ SocketError \/ SocketClose \/ TimerFires
    \/ Connected \/ SubscriptionSynced \/ MutationSynced \/ MutationDone
    \/ FolderDoneInvalid \/ SecretFailed \/ ErrorFrame \/ PongThrows
    \/ Accept \/ Refuse

LoguxSpec == LoguxInit /\ [][LoguxNext]_loguxVars

\* startLoguxConnection() is called, and the event loop fires a timer that is
\* due.  The network and the server owe nothing.
LoguxFairSpec ==
    /\ LoguxSpec
    /\ WF_loguxVars(Start \/ StartFails)
    /\ WF_loguxVars(TimerFires)
----------------------------------------------------------------------------
\* Type correctness of the operation, its connection and the server; a machine
\* sends its mutation at most once.
LoguxTypeOK ==
    /\ op \in Operations
    /\ machine \in Kinds
    /\ code \in Codes \cup {"none"}
    /\ outcome \in Codes \cup {"pending", "resolved"}
    /\ socket \in {"unopened", "connecting", "open", "closed"}
    /\ timer \in BOOLEAN /\ cleaned \in BOOLEAN /\ terminal \in BOOLEAN
    /\ subscriptionSent \in BOOLEAN
    /\ sends \in 0 .. MaxSends
    /\ fate \in {"none", "open", "applied", "refused"}

\* bdd/done/logux-rename-protocol.feature and logux-state-machine.feature: the
\* mutation follows the subscription and, where a machine guards it, is sent
\* once, however often the server repeats its frames; nothing is sent for a
\* promise that is settled.
OneMutation ==
    [][sends' # sends =>
         /\ subscriptionSent
         /\ outcome = "pending"
         /\ hasMachine => sends = 0]_loguxVars

\* A promise resolves only for a mutation that was sent and took effect: no
\* frame of the subscription or of another action is taken for the answer.
ResolvedMeansApplied == outcome = "resolved" => fate = "applied" /\ sends > 0

\* A promise that is pending is guarded: its timer is armed, its handlers are
\* attached and its one terminal event is still to come, so no sequence of
\* events leaves it pending with nothing to end it.
PendingIsGuarded ==
    outcome = "pending" /\ socket # "unopened" => timer /\ ~cleaned /\ ~terminal

\* bdd/28-logux-shared-connection, "Settle and clean up a shared connection
\* exactly once": callbacks that come after the settlement change neither it
\* nor the machine, and send nothing.
SettledIsFinal ==
    [][outcome # "pending" =>
         UNCHANGED <<machineVars, subscriptionSent, sends, cleaned, terminal, socket>>]_loguxVars

\* A connection that closes leaves an unknown outcome only if a mutation was
\* sent; an unknown outcome from before the send is the timer's.
UnknownMeansSent ==
    machine = "UNKNOWN_OUTCOME" /\ code = "DEPENDENCY_FAILURE" => sends > 0

\* Every operation settles, whatever server and network do.
CallSettles == <>(outcome # "pending")

\* What MigrationRunner is told of the call.
Report ==
    IF outcome = "pending" THEN "none"
    ELSE IF outcome = "resolved" THEN "confirmed" ELSE "failed"

Repetition == IF hasMachine THEN "once" ELSE "repeatable"

Call == INSTANCE MutationCall WITH kind <- Repetition, report <- Report

\* The protocols implement the mutation MigrationRunner takes them for.
ImplementsCall == Call!CallSpec

==============================================================================
