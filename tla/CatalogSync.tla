------------------------------ MODULE CatalogSync ------------------------------
(***************************************************************************)
(* One catalog read over a Logux WebSocket: syncCatalog() of               *)
(* xyops/voiceflow/logux/index.ts, the reducer of                          *)
(* catalog-state-machine.ts, the frames of catalog-frames.ts and the       *)
(* socket callbacks of connection.ts.  An action is one callback with      *)
(* everything it calls; the reducer ignores every event once it has ended. *)
(*                                                                         *)
(* The server is not in the repository.  Its catalog has versions; a frame *)
(* carries the rows of the version at which it was sent, and frames arrive *)
(* in the order in which they were sent: `heard` is how far the client has *)
(* listened.  Frames of other types, numbers and workspaces may come, and  *)
(* frames may come before the subscription is confirmed.                   *)
(***************************************************************************)
EXTENDS Naturals

CONSTANTS
    Wanted,       \* the requested action types
    Sizes,        \* sizes of a frame
    RowCounts,    \* numbers of rows of a frame
    MaxFrame,     \* MAX_INCOMING_FRAME_BYTES
    MaxBytes,     \* MAX_INCOMING_BYTES
    MaxRows,      \* MAX_CATALOG_ROWS
    MaxVersion    \* the catalog changes no more often than this

ASSUME BoundsAssumption ==
    /\ Sizes \subseteq Nat \ {0} /\ RowCounts \subseteq Nat
    /\ MaxFrame \in Nat /\ MaxBytes \in Nat /\ MaxRows \in Nat /\ MaxVersion \in Nat

\* isSupportedRequest() rejects a read that wants nothing.
ASSUME WantedAssumption == Wanted # {} /\ "other" \notin Wanted

VARIABLES
    kind,              \* state.kind
    seen,              \* state.seenTypes
    kept,              \* state.rows: for each seen type, the frame they came with
    rowCount,          \* state.rows.length
    fault,             \* state.code and state.retryable of a failed read
    outcome,           \* the promise
    bytes,             \* incomingBytes
    socket, timer, cleaned, terminal, subscriptionSent,   \* as in LoguxMutation
    now,               \* version of the catalog at the server
    asked,             \* version when the subscription was sent
    heard              \* version of the last frame that was heard

machineVars == <<kind, seen, kept, rowCount, fault, outcome>>
connectionVars == <<socket, timer, cleaned, terminal>>
serverVars == <<now, asked, heard>>
catalogVars == <<machineVars, bytes, connectionVars, subscriptionSent, serverVars>>

----------------------------------------------------------------------------
Terminal == {"COMPLETED", "FAILED", "TIMED_OUT"}
Kinds == {"CONNECTING", "CONNECTED", "SUBSCRIBING", "COLLECTING"} \cup Terminal
NoFault == [code |-> "none", retryable |-> FALSE]
NoFrame == [version |-> 0, foreign |-> FALSE, rows |-> 0]

CatalogInit ==
    /\ kind = "CONNECTING"
    /\ seen = {} /\ kept = [type \in Wanted |-> NoFrame] /\ rowCount = 0
    /\ fault = NoFault
    /\ outcome = "pending"
    /\ bytes = 0
    /\ socket = "unopened"
    /\ timer = FALSE /\ cleaned = FALSE /\ terminal = FALSE
    /\ subscriptionSent = FALSE
    /\ now = 0 /\ asked = 0 /\ heard = 0

----------------------------------------------------------------------------
\* cleanupConnection() by the close-socket and settle effects.
Cleanup == timer' = FALSE /\ cleaned' = TRUE /\ socket' = "closed"

\* settle(): what the ended state says, once.
Settle(result) == outcome' = IF outcome = "pending" THEN result ELSE outcome

\* handleFailure, handleTimeout, handleConnectionInterrupted: the rows that were
\* collected go with the state that held them.
Fail(to, code) ==
    /\ kind \notin Terminal
    /\ kind' = to
    /\ fault' = [code |-> code, retryable |-> code # "AUTHENTICATION_FAILED"]
    /\ Settle("rejected")
    /\ seen' = {} /\ kept' = [type \in Wanted |-> NoFrame] /\ rowCount' = 0

\* emitTerminal(): at most one terminal event, and none after the cleanup.
EmitTerminal(to, code) ==
    /\ ~cleaned /\ ~terminal
    /\ terminal' = TRUE
    /\ Fail(to, code)
    /\ Cleanup

SendThrows == EmitTerminal("FAILED", "DEPENDENCY_FAILURE")

----------------------------------------------------------------------------
\* A slip: the timer is only started once the socket is open.
StartWithoutTimer ==
    /\ socket = "unopened"
    /\ socket' = "connecting"
    /\ UNCHANGED <<machineVars, bytes, timer, cleaned, terminal, subscriptionSent, serverVars>>

\* startLoguxConnection(): the timer, then the socket.
Start ==
    /\ socket = "unopened"
    /\ socket' = "connecting"
    /\ timer' = TRUE
    /\ UNCHANGED <<machineVars, bytes, cleaned, terminal, subscriptionSent, serverVars>>

\* The constructor throws before `connection` is assigned: the effects close
\* nothing, and the timer stays armed.
StartFails ==
    /\ socket = "unopened"
    /\ socket' = "closed"
    /\ timer' = TRUE
    /\ terminal' = TRUE
    /\ Fail("FAILED", "DEPENDENCY_FAILURE")
    /\ UNCHANGED <<bytes, cleaned, subscriptionSent, serverVars>>

\* onopen: connection-established, then the connect frame.
Open ==
    /\ socket = "connecting" /\ ~cleaned /\ ~terminal
    /\ \/ /\ socket' = "open"
          /\ kind' = "CONNECTED"
          /\ UNCHANGED <<seen, kept, rowCount, fault, outcome, timer, cleaned, terminal>>
       \/ SendThrows
    /\ UNCHANGED <<bytes, subscriptionSent, serverVars>>

SocketError ==
    /\ socket \in {"connecting", "open"}
    /\ EmitTerminal("FAILED", "DEPENDENCY_FAILURE")
    /\ UNCHANGED <<bytes, subscriptionSent, serverVars>>

\* connection-interrupted by a close: the reducer asks for no close-socket, but
\* settle() cleans up as well.
SocketClose ==
    /\ socket \in {"connecting", "open"}
    /\ EmitTerminal("FAILED", "DEPENDENCY_FAILURE")
    /\ UNCHANGED <<bytes, subscriptionSent, serverVars>>

\* The connection's timer; it also fires when the constructor threw.
TimerFires ==
    /\ timer
    /\ \/ EmitTerminal("TIMED_OUT", "DEPENDENCY_TIMEOUT")
       \/ /\ terminal
          /\ timer' = FALSE
          /\ UNCHANGED <<machineVars, socket, cleaned, terminal>>
    /\ UNCHANGED <<bytes, subscriptionSent, serverVars>>

----------------------------------------------------------------------------
Receives == socket = "open" /\ ~cleaned

Exceeds(size) == size > MaxFrame \/ bytes + size > MaxBytes

\* A frame is heard: it was sent at version v, not before those heard earlier.
Hears(v) == v \in heard .. now /\ heard' = v

\* A slip: only the whole is counted against the limits, after it was used.
FrameCountedLate(size) == bytes' = bytes + size

\* Every frame that is no ping or pong counts, whatever is in it.
Frame(size) ==
    /\ ~Exceeds(size)
    /\ bytes' = bytes + size

\* A frame past a limit fails the read; what it says is not looked at.
OversizedFrame ==
    /\ Receives
    /\ \E size \in Sizes : Exceeds(size) /\ bytes' = bytes + size
    /\ \E v \in heard .. now : Hears(v)
    /\ Fail("FAILED", "DEPENDENCY_FAILURE")
    /\ Cleanup
    /\ subscriptionSent' \in {subscriptionSent, TRUE}
    /\ UNCHANGED <<terminal, now, asked>>

\* "connected": to the reducer first, then the connection subscribes, once; a
\* frame without a positive number reaches only the second.
Connected ==
    /\ Receives
    /\ \E size \in Sizes : Frame(size)
    /\ \E v \in heard .. now : Hears(v)
    /\ subscriptionSent' = TRUE
    /\ \/ /\ \E positive \in BOOLEAN :
                kind' = IF positive /\ kind = "CONNECTED" THEN "SUBSCRIBING" ELSE kind
          /\ asked' = IF subscriptionSent THEN asked ELSE now
          /\ UNCHANGED <<seen, kept, rowCount, fault, outcome, connectionVars>>
       \/ /\ ~subscriptionSent
          /\ SendThrows
          /\ UNCHANGED asked
    /\ UNCHANGED now

\* A slip: any "synced" confirms the subscription.
SyncedUnmatched ==
    /\ Receives
    /\ \E size \in Sizes : Frame(size)
    /\ \E v \in heard .. now : Hears(v)
    /\ kind' = IF kind \in {"CONNECTED", "SUBSCRIBING"} THEN "COLLECTING" ELSE kind
    /\ UNCHANGED <<seen, kept, rowCount, fault, outcome, connectionVars, subscriptionSent, now, asked>>

\* "synced" with the number of the subscription, which the server sends once it
\* has it: a reducer that still waits for "connected" does not hear it.
Synced ==
    /\ Receives
    /\ subscriptionSent
    /\ \E size \in Sizes : Frame(size)
    /\ \E v \in heard .. now : v >= asked /\ Hears(v)
    /\ kind' = IF kind = "SUBSCRIBING" THEN "COLLECTING" ELSE kind
    /\ UNCHANGED <<seen, kept, rowCount, fault, outcome, connectionVars, subscriptionSent, now, asked>>

----------------------------------------------------------------------------
\* actionIsScopedToState(): the event carries the read's own operation and
\* channel, so what is left is the first workspace ID among the rows.
scoped(label) == label # "other"

\* actionCompletesSnapshot()
completes(types) == Wanted \subseteq types

\* The state that keeps a frame's rows.
Keep(type, frame) ==
    /\ rowCount + frame.rows <= MaxRows
    /\ seen' = seen \cup {type}
    /\ kept' = [kept EXCEPT ![type] = frame]
    /\ rowCount' = rowCount + frame.rows
    /\ IF completes(seen')
       THEN kind' = "COMPLETED" /\ Settle("resolved") /\ Cleanup
       ELSE UNCHANGED <<kind, outcome, socket, timer, cleaned>>
    /\ UNCHANGED fault

\* A wanted type for the first time, while collecting: its rows are kept, all of
\* them, the first one's workspace ID standing for the others'.
ActionKept ==
    /\ Receives
    /\ kind = "COLLECTING"
    /\ \E size \in Sizes, n \in RowCounts, v \in heard .. now,
          type \in Wanted \ seen, label \in {"own", "other", "none"}, foreign \in BOOLEAN :
         /\ label = "other" => foreign
         /\ scoped(label)
         /\ Frame(size) /\ Hears(v)
         /\ Keep(type, [version |-> v, foreign |-> foreign, rows |-> n])
    /\ UNCHANGED <<terminal, subscriptionSent, now, asked>>

\* A wanted type with more rows than are left.
RowBoundExceeded ==
    /\ Receives
    /\ kind = "COLLECTING" /\ Wanted \ seen # {}
    /\ \E size \in Sizes, n \in RowCounts : Frame(size) /\ rowCount + n > MaxRows
    /\ \E v \in heard .. now : Hears(v)
    /\ Fail("FAILED", "DEPENDENCY_FAILURE")
    /\ Cleanup
    /\ UNCHANGED <<terminal, subscriptionSent, now, asked>>

\* Any other frame only counts: a type that is not wanted or was seen, another
\* workspace, an invalid row, any action before the subscription is confirmed.
FrameIgnored ==
    /\ Receives
    /\ \E size \in Sizes : Frame(size)
    /\ \E v \in heard .. now : Hears(v)
    /\ UNCHANGED <<machineVars, connectionVars, subscriptionSent, now, asked>>

\* An error frame; wrong credentials are told apart.
ErrorFrame ==
    /\ Receives
    /\ \E size \in Sizes : Frame(size)
    /\ \E v \in heard .. now : Hears(v)
    /\ \E code \in {"AUTHENTICATION_FAILED", "DEPENDENCY_FAILURE"} : Fail("FAILED", code)
    /\ Cleanup
    /\ UNCHANGED <<terminal, subscriptionSent, now, asked>>

\* A ping, and the pong cannot be sent.
PongThrows ==
    /\ Receives
    /\ SendThrows
    /\ UNCHANGED <<bytes, subscriptionSent, serverVars>>

\* Somebody edits the catalog.
CatalogChanges ==
    /\ now < MaxVersion
    /\ now' = now + 1
    /\ UNCHANGED <<machineVars, bytes, connectionVars, subscriptionSent, asked, heard>>

----------------------------------------------------------------------------
CatalogNext ==
    \/ Start \/ StartFails
    \/ Open \/ SocketError \/ SocketClose \/ TimerFires
    \/ OversizedFrame \/ Connected \/ Synced
    \/ ActionKept \/ RowBoundExceeded \/ FrameIgnored \/ ErrorFrame \/ PongThrows
    \/ CatalogChanges

CatalogSpec == CatalogInit /\ [][CatalogNext]_catalogVars

\* As for LoguxMutation: the call is made, and a timer that is due fires.
CatalogFairSpec ==
    /\ CatalogSpec
    /\ WF_catalogVars(Start \/ StartFails)
    /\ WF_catalogVars(TimerFires)
----------------------------------------------------------------------------
\* Type correctness of the reducer, its connection and the server.
CatalogTypeOK ==
    /\ kind \in Kinds
    /\ seen \subseteq Wanted
    /\ kept \in [Wanted -> [version : Nat, foreign : BOOLEAN, rows : Nat]]
    /\ rowCount \in Nat
    /\ fault \in [code : {"none", "AUTHENTICATION_FAILED", "DEPENDENCY_FAILURE", "DEPENDENCY_TIMEOUT"},
                  retryable : BOOLEAN]
    /\ outcome \in {"pending", "resolved", "rejected"}
    /\ bytes \in Nat
    /\ socket \in {"unopened", "connecting", "open", "closed"}
    /\ timer \in BOOLEAN /\ cleaned \in BOOLEAN /\ terminal \in BOOLEAN
    /\ subscriptionSent \in BOOLEAN
    /\ now \in 0 .. MaxVersion /\ asked \in 0 .. MaxVersion /\ heard \in 0 .. MaxVersion

\* bdd/done/logux-catalog-state-machine.feature, "Complete a catalog snapshot
\* only after all requested types arrive": a promise that resolves does so with
\* every wanted type, within the bounds of the whole read, and a promise that
\* does not leaves no rows behind.
CompleteOrNothing ==
    /\ outcome = "resolved" =>
         /\ seen = Wanted
         /\ rowCount <= MaxRows
         /\ bytes <= MaxBytes
    /\ outcome = "rejected" => seen = {} /\ fault # NoFault

\* The rows of every type are not older than the subscription that asked for
\* them: nothing the server sent before is taken for its answer.
FreshSnapshot ==
    outcome = "resolved" => \A type \in Wanted : kept[type].version \in asked .. now

\* A read that is pending is guarded by its timer, with the handlers attached
\* and its one terminal event still to come.
PendingIsGuarded ==
    outcome = "pending" /\ socket # "unopened" => timer /\ ~cleaned /\ ~terminal

\* "Ignore duplicate catalog terminal events": a settled promise, its rows and
\* its fault stay, whatever comes late.
SettledIsFinal ==
    [][outcome # "pending" =>
         UNCHANGED <<machineVars, bytes, socket, cleaned, terminal, subscriptionSent>>]_catalogVars

\* Every read settles, whatever server and network do.
ReadSettles == <>(outcome # "pending")

\* "And the catalog result remains scoped to the requested channel and
\* workspace": a result has no rows of another workspace.
ResultScoped == outcome = "resolved" => \A type \in Wanted : ~kept[type].foreign

\* How a read looks to loadProjects() and the others.
Answer ==
    CASE outcome = "resolved" -> "rows"
      [] outcome = "rejected" -> "failed"
      [] OTHER -> IF subscriptionSent THEN "asked" ELSE "none"

Read == INSTANCE SnapshotRead WITH
            since <- asked, answer <- Answer,
            versions <- IF outcome = "resolved"
                        THEN [type \in Wanted |-> kept[type].version]
                        ELSE [type \in Wanted |-> 0]

\* The protocol is a snapshot read.
ImplementsRead == Read!ReadSpec

==============================================================================
