-------------------------- MODULE CatalogSyncProofs --------------------------
(***************************************************************************)
(* Proofs about CatalogSync, for any wanted types and any limits.          *)
(* CatalogInv adds to the properties what they need to be inductive: rows  *)
(* exist only in the states that hold them, and while they are collected   *)
(* the client has listened at least up to its own question.                *)
(***************************************************************************)
EXTENDS CatalogSync, TLAPS

\* Where the call stands: not started, pending or settled.
Phases ==
    /\ socket = "unopened" =>
         /\ outcome = "pending" /\ kind = "CONNECTING"
         /\ ~cleaned /\ ~terminal /\ ~timer /\ ~subscriptionSent
    /\ socket = "connecting" => ~subscriptionSent
    /\ socket = "open" => kind # "CONNECTING"
    /\ outcome = "pending" <=> kind \notin Terminal
    /\ outcome = "resolved" <=> kind = "COMPLETED"
    /\ outcome = "pending" => socket # "closed"
    /\ outcome # "pending" => socket = "closed" /\ (cleaned \/ terminal)

\* Where rows are, what bounds them and how old they are.
RowsFit ==
    /\ kind \notin {"COLLECTING", "COMPLETED"} => seen = {}
    /\ kind = "COMPLETED" => seen = Wanted
    /\ kind \in {"FAILED", "TIMED_OUT"} => fault # NoFault
    /\ kind \in {"SUBSCRIBING", "COLLECTING", "COMPLETED"} => subscriptionSent
    /\ kind \in {"COLLECTING", "COMPLETED"} =>
         /\ asked <= heard
         /\ \A type \in seen : kept[type].version \in asked .. heard
    /\ kind \notin {"FAILED", "TIMED_OUT"} => bytes <= MaxBytes /\ rowCount <= MaxRows
    /\ heard <= now /\ asked <= now

CatalogInv ==
    /\ CatalogTypeOK
    /\ PendingIsGuarded
    /\ Phases
    /\ RowsFit

LEMMA CatalogInitInv == CatalogInit => CatalogInv
<1> SUFFICES ASSUME CatalogInit
             PROVE  CatalogInv
  OBVIOUS
<1> USE BoundsAssumption DEF CatalogInit
<1>0. now \in 0 .. MaxVersion /\ asked \in 0 .. MaxVersion /\ heard \in 0 .. MaxVersion
  OBVIOUS
<1>k. kept \in [Wanted -> [version : Nat, foreign : BOOLEAN, rows : Nat]]
  BY DEF NoFrame
<1>1. CatalogTypeOK
  BY <1>0, <1>k DEF CatalogTypeOK, Kinds, NoFault
<1>2. PendingIsGuarded /\ Phases
  BY DEF PendingIsGuarded, Phases, Terminal
<1>3. RowsFit
  BY DEF RowsFit
<1>4. QED
  BY <1>1, <1>2, <1>3 DEF CatalogInv

FaultCodes == {"AUTHENTICATION_FAILED", "DEPENDENCY_FAILURE", "DEPENDENCY_TIMEOUT"}

\* A pending read fails: its rows go, its connection is closed or was never
\* there, and what the server does is its own affair.
LEMMA FailInv ==
  ASSUME CatalogInv, outcome = "pending",
         NEW to \in {"FAILED", "TIMED_OUT"}, NEW code \in FaultCodes,
         Fail(to, code),
         socket' = "closed", timer' \in BOOLEAN, cleaned' \in BOOLEAN, terminal' \in BOOLEAN,
         cleaned' \/ terminal',
         subscriptionSent' \in BOOLEAN, bytes' \in Nat,
         now' = now, asked' = asked, heard' \in heard .. now
  PROVE  CatalogInv' /\ outcome' = "rejected"
<1> USE DEF CatalogInv, FaultCodes
<1>1. /\ outcome' = "rejected" /\ kind' = to
      /\ fault' = [code |-> code, retryable |-> code # "AUTHENTICATION_FAILED"]
      /\ seen' = {} /\ kept' = [type \in Wanted |-> NoFrame] /\ rowCount' = 0
  BY DEF Fail, Settle
<1>0. heard' \in 0 .. MaxVersion /\ heard' <= now
  BY BoundsAssumption DEF CatalogTypeOK
<1>2. CatalogTypeOK'
  BY <1>0, <1>1 DEF CatalogTypeOK, Kinds, Terminal, NoFrame
<1>3. PendingIsGuarded' /\ Phases'
  BY <1>1 DEF PendingIsGuarded, Phases, Terminal
<1>4. fault' # NoFault
  BY <1>1 DEF NoFault
<1>5. RowsFit'
  BY <1>0, <1>1, <1>4 DEF RowsFit
<1>6. QED
  BY <1>1, <1>2, <1>3, <1>5

LEMMA EmitTerminalInv ==
  ASSUME CatalogInv, socket # "unopened",
         NEW to \in {"FAILED", "TIMED_OUT"}, NEW code \in FaultCodes,
         EmitTerminal(to, code),
         subscriptionSent' \in BOOLEAN, bytes' \in Nat,
         now' = now, asked' = asked, heard' \in heard .. now
  PROVE  CatalogInv' /\ outcome = "pending" /\ outcome' = "rejected"
<1>1. /\ Fail(to, code) /\ terminal' = TRUE /\ cleaned' = TRUE
      /\ socket' = "closed" /\ timer' = FALSE
  BY DEF EmitTerminal, Cleanup
<1>2. outcome = "pending"
  BY DEF EmitTerminal, CatalogInv, Phases
<1>3. QED
  BY <1>1, <1>2, FailInv

\* A frame is only received while the read is pending.
LEMMA ReceivesPending ==
  ASSUME CatalogInv, Receives
  PROVE  outcome = "pending" /\ ~terminal /\ timer /\ kind \notin Terminal
BY DEF CatalogInv, Receives, Phases, PendingIsGuarded

\* What a frame counts.
LEMMA FrameEffect ==
  ASSUME CatalogInv, NEW size \in Sizes, Frame(size)
  PROVE  bytes' \in Nat /\ bytes' <= MaxBytes
BY BoundsAssumption DEF CatalogInv, CatalogTypeOK, Frame, Exceeds

\* A frame that keeps no rows and does not end the read.
LEMMA QuietFrameInv ==
  ASSUME CatalogInv, Receives, bytes' \in Nat, bytes' <= MaxBytes,
         heard' \in heard .. now, now' = now,
         UNCHANGED <<seen, kept, rowCount, fault, outcome, connectionVars>>,
         \/ kind' = kind /\ asked' = asked /\ (subscriptionSent' = subscriptionSent \/ subscriptionSent' = TRUE)
         \/ /\ kind' \in {"CONNECTED", "SUBSCRIBING"} /\ kind \in {"CONNECTED", "SUBSCRIBING"}
            /\ asked' \in {asked, now} /\ subscriptionSent' = TRUE
         \/ /\ kind = "SUBSCRIBING" /\ kind' = "COLLECTING" /\ asked' = asked
            /\ heard' >= asked /\ subscriptionSent' = subscriptionSent
  PROVE  CatalogInv'
<1>1. outcome = "pending" /\ kind \notin Terminal
  BY ReceivesPending
<1> USE DEF CatalogInv, connectionVars
<1>2. /\ asked' \in 0 .. MaxVersion /\ heard' \in 0 .. MaxVersion
      /\ heard' <= now /\ asked' <= now /\ heard <= heard'
  <2>1. asked' \in {asked, now}
    OBVIOUS
  <2>2. heard' \in 0 .. MaxVersion /\ heard' <= now /\ heard <= heard'
    BY BoundsAssumption DEF CatalogTypeOK
  <2>3. QED
    BY <2>1, <2>2 DEF CatalogTypeOK, RowsFit
<1>3. kind' \in {"CONNECTING", "CONNECTED", "SUBSCRIBING", "COLLECTING"}
  BY <1>1 DEF CatalogTypeOK, Kinds
<1>4. CatalogTypeOK'
  BY <1>2, <1>3 DEF CatalogTypeOK, Kinds
<1>5. PendingIsGuarded' /\ Phases'
  BY <1>1, <1>3 DEF PendingIsGuarded, Phases, Terminal, Receives
<1>6. RowsFit'
  <2> SUFFICES /\ kind' # "COLLECTING" => seen = {}
               /\ kind' \in {"SUBSCRIBING", "COLLECTING"} => subscriptionSent'
               /\ kind' = "COLLECTING" =>
                    /\ asked' <= heard'
                    /\ \A type \in seen : kept[type].version \in asked' .. heard'
               /\ rowCount <= MaxRows
    BY <1>2, <1>3 DEF RowsFit
  <2>1. rowCount <= MaxRows /\ (kind' # "COLLECTING" => seen = {})
    BY <1>1, <1>3 DEF RowsFit, Terminal
  <2>2. kind' \in {"SUBSCRIBING", "COLLECTING"} => subscriptionSent'
    BY DEF RowsFit
  <2>3. CASE kind' = "COLLECTING" /\ kind = "COLLECTING"
    <3>1. asked' = asked /\ asked <= heard
      BY <2>3 DEF RowsFit
    <3>2. \A type \in seen : kept[type].version \in asked .. heard
      BY <2>3 DEF RowsFit
    <3>3. \A type \in seen : kept[type].version \in asked' .. heard'
      BY <1>2, <3>1, <3>2 DEF CatalogTypeOK
    <3>4. asked' <= heard'
      BY <1>2, <3>1 DEF CatalogTypeOK
    <3>5. QED
      BY <2>1, <2>2, <3>3, <3>4
  <2>4. CASE kind' = "COLLECTING" /\ kind # "COLLECTING"
    BY <2>1, <2>2, <2>4 DEF RowsFit
  <2>5. QED
    BY <2>1, <2>2, <2>3, <2>4
<1>7. QED
  BY <1>4, <1>5, <1>6

\* A frame whose rows are kept.
LEMMA KeepInv ==
  ASSUME CatalogInv, Receives, kind = "COLLECTING",
         NEW v \in heard .. now, NEW type \in Wanted \ seen, NEW foreign \in BOOLEAN,
         NEW n \in RowCounts,
         bytes' \in Nat, bytes' <= MaxBytes, heard' = v,
         Keep(type, [version |-> v, foreign |-> foreign, rows |-> n]),
         UNCHANGED <<terminal, subscriptionSent, now, asked>>
  PROVE  CatalogInv' /\ (outcome' = "resolved" => kind' = "COMPLETED") /\ outcome' # "rejected"
<1> DEFINE frame == [version |-> v, foreign |-> foreign, rows |-> n]
<1>1. outcome = "pending" /\ ~terminal /\ timer /\ ~cleaned /\ socket = "open"
  BY ReceivesPending DEF Receives
<1>2. /\ seen' = seen \cup {type} /\ kept' = [kept EXCEPT ![type] = frame]
      /\ rowCount' = rowCount + n /\ rowCount + n <= MaxRows /\ fault' = fault
  BY DEF Keep
<1> USE DEF CatalogInv
<1>3. \/ /\ Wanted \subseteq seen' /\ kind' = "COMPLETED" /\ outcome' = "resolved"
         /\ socket' = "closed" /\ timer' = FALSE /\ cleaned' = TRUE
      \/ /\ kind' = kind /\ outcome' = outcome /\ socket' = socket /\ timer' = timer
         /\ cleaned' = cleaned
  BY <1>1 DEF Keep, completes, Settle, Cleanup
<1>4. v \in Nat /\ v \in 0 .. MaxVersion /\ v <= now /\ heard <= v
  BY BoundsAssumption DEF CatalogTypeOK
<1>5. n \in Nat
  BY BoundsAssumption
<1>6. kept' \in [Wanted -> [version : Nat, foreign : BOOLEAN, rows : Nat]]
  BY <1>2, <1>4, <1>5 DEF CatalogTypeOK
<1>s. /\ seen' \subseteq Wanted /\ rowCount' \in Nat /\ kind' \in Kinds
      /\ outcome' \in {"pending", "resolved"}
      /\ socket' \in {"open", "closed"} /\ timer' \in BOOLEAN /\ cleaned' \in BOOLEAN
  <2>1. seen' \subseteq Wanted /\ rowCount' \in Nat
    BY <1>2, <1>5 DEF CatalogTypeOK
  <2>2. QED
    BY <1>1, <1>3, <2>1 DEF CatalogTypeOK, Kinds, Terminal
<1>7. CatalogTypeOK'
  BY <1>2, <1>4, <1>6, <1>s DEF CatalogTypeOK
<1>8. PendingIsGuarded' /\ Phases'
  <2>1. CASE kind' = "COMPLETED"
    BY <1>1, <1>3, <2>1 DEF PendingIsGuarded, Phases, Terminal
  <2>2. CASE kind' = kind /\ outcome' = outcome
    BY <1>1, <1>3, <2>2 DEF PendingIsGuarded, Phases, Terminal
  <2>3. QED
    BY <1>3, <2>1, <2>2
<1>9. \A u \in seen' : kept'[u].version \in asked .. v
  <2> SUFFICES ASSUME NEW u \in seen'
               PROVE  kept'[u].version \in asked .. v
    OBVIOUS
  <2>1. asked <= heard /\ asked \in Nat
    BY DEF RowsFit, CatalogTypeOK
  <2>2. CASE u = type
    <3>1. kept'[u] = frame
      BY <1>2, <2>2 DEF CatalogTypeOK
    <3>2. QED
      BY <1>4, <2>1, <3>1 DEF CatalogTypeOK
  <2>3. CASE u # type
    <3>1. kept'[u] = kept[u] /\ u \in seen
      BY <1>2, <2>3 DEF CatalogTypeOK
    <3>2. kept[u].version \in asked .. heard
      BY <3>1 DEF RowsFit
    <3>3. QED
      BY <1>4, <3>1, <3>2 DEF CatalogTypeOK
  <2>4. QED
    BY <2>2, <2>3
<1>10. RowsFit'
  <2>1. asked <= v /\ subscriptionSent'
    BY <1>4 DEF RowsFit, CatalogTypeOK
  <2>2. kind' = "COMPLETED" => seen' = Wanted
    BY <1>2, <1>3 DEF CatalogTypeOK
  <2>3. QED
    BY <1>2, <1>3, <1>4, <1>9, <2>1, <2>2 DEF RowsFit
<1>11. QED
  BY <1>1, <1>3, <1>7, <1>8, <1>10

----------------------------------------------------------------------------
LEMMA StartsInv ==
  CatalogInv /\ (Start \/ StartFails \/ CatalogChanges) => CatalogInv'
<1> SUFFICES ASSUME CatalogInv, Start \/ StartFails \/ CatalogChanges
             PROVE  CatalogInv'
  OBVIOUS
<1>1. CASE Start
  <2> USE <1>1 DEF Start, CatalogInv, machineVars, serverVars
  <2>1. CatalogTypeOK'
    BY DEF CatalogTypeOK
  <2>2. PendingIsGuarded' /\ Phases'
    BY DEF PendingIsGuarded, Phases
  <2>3. RowsFit'
    BY DEF RowsFit
  <2>4. QED
    BY <2>1, <2>2, <2>3
<1>2. CASE StartFails
  <2>1. /\ outcome = "pending" /\ Fail("FAILED", "DEPENDENCY_FAILURE") /\ socket' = "closed"
        /\ timer' = TRUE /\ terminal' = TRUE /\ cleaned' \in BOOLEAN
        /\ bytes' \in Nat /\ subscriptionSent' \in BOOLEAN
        /\ now' = now /\ asked' = asked /\ heard' \in heard .. now
    BY <1>2 DEF StartFails, serverVars, CatalogInv, CatalogTypeOK, Phases, RowsFit
  <2>2. QED
    BY <2>1, FailInv DEF FaultCodes
<1>3. CASE CatalogChanges
  <2>1. now' \in 0 .. MaxVersion /\ now <= now'
    BY <1>3, BoundsAssumption DEF CatalogChanges, CatalogInv, CatalogTypeOK
  <2> USE <1>3 DEF CatalogChanges, CatalogInv, machineVars, connectionVars
  <2>2. CatalogTypeOK'
    BY <2>1 DEF CatalogTypeOK
  <2>3. PendingIsGuarded' /\ Phases'
    BY DEF PendingIsGuarded, Phases
  <2>4. heard <= now' /\ asked <= now'
    BY <2>1 DEF RowsFit, CatalogTypeOK
  <2>5. RowsFit'
    BY <2>4 DEF RowsFit
  <2>6. QED
    BY <2>2, <2>3, <2>5
<1>4. QED
  BY <1>1, <1>2, <1>3

\* What every terminal event of the transport leaves alone.
LEMMA TransportInv ==
  CatalogInv /\ (Open \/ SocketError \/ SocketClose \/ TimerFires \/ PongThrows) => CatalogInv'
<1> SUFFICES ASSUME CatalogInv, Open \/ SocketError \/ SocketClose \/ TimerFires \/ PongThrows
             PROVE  CatalogInv'
  OBVIOUS
<1>1. /\ subscriptionSent' = subscriptionSent /\ bytes' = bytes
      /\ now' = now /\ asked' = asked /\ heard' = heard
  BY DEF Open, SocketError, SocketClose, TimerFires, PongThrows, serverVars
<1>2. /\ subscriptionSent' \in BOOLEAN /\ bytes' \in Nat /\ heard' \in heard .. now
  BY <1>1 DEF CatalogInv, CatalogTypeOK, RowsFit
<1>3. CASE \/ EmitTerminal("FAILED", "DEPENDENCY_FAILURE")
           \/ EmitTerminal("TIMED_OUT", "DEPENDENCY_TIMEOUT")
  <2>1. socket # "unopened"
    BY DEF Open, SocketError, SocketClose, TimerFires, PongThrows, Receives, CatalogInv, Phases
  <2>2. QED
    BY <1>1, <1>2, <1>3, <2>1, EmitTerminalInv DEF FaultCodes
<1>4. CASE /\ socket = "connecting" /\ ~cleaned /\ ~terminal
           /\ socket' = "open" /\ kind' = "CONNECTED"
           /\ UNCHANGED <<seen, kept, rowCount, fault, outcome, timer, cleaned, terminal>>
  <2> USE <1>1, <1>4 DEF CatalogInv
  <2>0. outcome = "pending" /\ kind \notin Terminal /\ kind \notin {"SUBSCRIBING", "COLLECTING"}
    BY DEF Phases, RowsFit
  <2>1. CatalogTypeOK'
    BY DEF CatalogTypeOK, Kinds
  <2>2. PendingIsGuarded' /\ Phases'
    BY <2>0 DEF PendingIsGuarded, Phases, Terminal
  <2>3. RowsFit'
    BY <2>0 DEF RowsFit, Terminal
  <2>4. QED
    BY <2>1, <2>2, <2>3
<1>5. CASE /\ timer /\ terminal /\ timer' = FALSE
           /\ UNCHANGED <<machineVars, socket, cleaned, terminal>>
  <2> USE <1>1, <1>5 DEF CatalogInv, machineVars
  <2>1. CatalogTypeOK'
    BY DEF CatalogTypeOK
  <2>2. PendingIsGuarded' /\ Phases'
    BY DEF PendingIsGuarded, Phases
  <2>3. RowsFit'
    BY DEF RowsFit
  <2>4. QED
    BY <2>1, <2>2, <2>3
<1>6. QED
  BY <1>3, <1>4, <1>5 DEF Open, SocketError, SocketClose, TimerFires, PongThrows, SendThrows

LEMMA FramesInv ==
  CatalogInv /\ (Connected \/ Synced \/ FrameIgnored) => CatalogInv'
<1> SUFFICES ASSUME CatalogInv, Connected \/ Synced \/ FrameIgnored
             PROVE  CatalogInv'
  OBVIOUS
<1>1. /\ Receives /\ bytes' \in Nat /\ bytes' <= MaxBytes
      /\ heard' \in heard .. now /\ now' = now
  BY FrameEffect DEF Connected, Synced, FrameIgnored, Hears
<1>2. CASE Connected
  <2>1. CASE ~subscriptionSent /\ SendThrows /\ UNCHANGED asked
    <3>1. socket # "unopened" /\ subscriptionSent' \in BOOLEAN
      BY <1>1, <1>2 DEF Receives, Connected
    <3>2. QED
      BY <1>1, <2>1, <3>1, EmitTerminalInv DEF SendThrows, FaultCodes
  <2>2. CASE /\ \E positive \in BOOLEAN :
                   kind' = IF positive /\ kind = "CONNECTED" THEN "SUBSCRIBING" ELSE kind
             /\ asked' = IF subscriptionSent THEN asked ELSE now
             /\ UNCHANGED <<seen, kept, rowCount, fault, outcome, connectionVars>>
    <3>1. subscriptionSent' = TRUE
      BY <1>2 DEF Connected
    <3>2. kind \notin {"CONNECTED", "SUBSCRIBING"} => kind' = kind
      BY <2>2
    <3>3. kind \in {"SUBSCRIBING", "COLLECTING"} => subscriptionSent
      BY DEF CatalogInv, RowsFit
    <3>4. kind # "CONNECTING" /\ kind' \in {kind, "SUBSCRIBING"} /\ asked' \in {asked, now}
      BY <1>1, <2>2 DEF CatalogInv, Phases, Receives
    <3>6. kind \notin {"CONNECTED", "SUBSCRIBING"} => kind = "COLLECTING"
      BY <1>1, <3>4, ReceivesPending DEF CatalogInv, CatalogTypeOK, Kinds
    <3>7. kind = "COLLECTING" => asked' = asked
      BY <2>2, <3>3
    <3>5. QED
      BY <1>1, <2>2, <3>1, <3>2, <3>4, <3>6, <3>7, QuietFrameInv
  <2>3. QED
    BY <1>2, <2>1, <2>2 DEF Connected
<1>3. CASE Synced
  <2>1. heard' >= asked
    BY <1>3 DEF Synced, Hears
  <2>2. QED
    BY <1>1, <1>3, <2>1, QuietFrameInv DEF Synced
<1>4. CASE FrameIgnored
  BY <1>1, <1>4, QuietFrameInv DEF FrameIgnored, machineVars
<1>5. QED
  BY <1>2, <1>3, <1>4

LEMMA FailingFramesInv ==
  CatalogInv /\ (OversizedFrame \/ RowBoundExceeded \/ ErrorFrame)
  => CatalogInv' /\ outcome = "pending" /\ outcome' = "rejected"
<1> SUFFICES ASSUME CatalogInv, OversizedFrame \/ RowBoundExceeded \/ ErrorFrame
             PROVE  CatalogInv' /\ outcome = "pending" /\ outcome' = "rejected"
  OBVIOUS
<1>1. /\ Receives /\ heard' \in heard .. now /\ Cleanup
      /\ now' = now /\ asked' = asked /\ terminal' = terminal
      /\ subscriptionSent' \in {subscriptionSent, TRUE}
  BY DEF OversizedFrame, RowBoundExceeded, ErrorFrame, Hears
<1>2. \E code \in FaultCodes : Fail("FAILED", code)
  BY DEF OversizedFrame, RowBoundExceeded, ErrorFrame, FaultCodes
<1>3. bytes' \in Nat
  <2>1. PICK size \in Sizes : bytes' = bytes + size
    BY DEF OversizedFrame, RowBoundExceeded, ErrorFrame, Frame
  <2>2. QED
    BY <2>1, BoundsAssumption DEF CatalogInv, CatalogTypeOK
<1>4. /\ socket' = "closed" /\ timer' \in BOOLEAN /\ cleaned' = TRUE
      /\ terminal' \in BOOLEAN /\ subscriptionSent' \in BOOLEAN
  BY <1>1 DEF Cleanup, CatalogInv, CatalogTypeOK
<1>5. outcome = "pending"
  BY <1>1, ReceivesPending
<1>6. QED
  BY <1>1, <1>2, <1>3, <1>4, <1>5, FailInv

LEMMA ActionKeptInv == CatalogInv /\ ActionKept => CatalogInv'
<1> SUFFICES ASSUME CatalogInv, ActionKept
             PROVE  CatalogInv'
  OBVIOUS
<1>1. PICK size \in Sizes, n \in RowCounts, v \in heard .. now,
           type \in Wanted \ seen, label \in {"own", "other", "none"}, foreign \in BOOLEAN :
         /\ Frame(size) /\ Hears(v)
         /\ Keep(type, [version |-> v, foreign |-> foreign, rows |-> n])
  BY DEF ActionKept
<1>2. bytes' \in Nat /\ bytes' <= MaxBytes /\ heard' = v
  BY <1>1, FrameEffect DEF Hears
<1>3. QED
  BY <1>1, <1>2, KeepInv DEF ActionKept

LEMMA CatalogStepInv == CatalogInv /\ [CatalogNext]_catalogVars => CatalogInv'
<1> SUFFICES ASSUME CatalogInv, [CatalogNext]_catalogVars
             PROVE  CatalogInv'
  OBVIOUS
<1>1. CASE UNCHANGED catalogVars
  <2> USE <1>1 DEF catalogVars, machineVars, connectionVars, serverVars, CatalogInv
  <2>1. CatalogTypeOK' /\ PendingIsGuarded'
    BY DEF CatalogTypeOK, PendingIsGuarded
  <2>2. Phases' /\ RowsFit'
    BY DEF Phases, RowsFit
  <2>3. QED
    BY <2>1, <2>2
<1>2. QED
  BY <1>1, StartsInv, TransportInv, FramesInv, FailingFramesInv, ActionKeptInv DEF CatalogNext

LEMMA CatalogInvariant == CatalogSpec => []CatalogInv
BY CatalogInitInv, CatalogStepInv, PTL DEF CatalogSpec

----------------------------------------------------------------------------
\* The reducer, its connection and the server keep their types.
THEOREM CatalogTypeCorrect == CatalogSpec => []CatalogTypeOK
<1>1. CatalogInv => CatalogTypeOK
  BY DEF CatalogInv
<1>2. QED
  BY <1>1, CatalogInvariant, PTL

\* A read resolves with every wanted type within the bounds, or leaves nothing.
THEOREM CompleteHolds == CatalogSpec => []CompleteOrNothing
<1>1. CatalogInv => CompleteOrNothing
  BY DEF CatalogInv, CompleteOrNothing, Phases, RowsFit, Terminal
<1>2. QED
  BY <1>1, CatalogInvariant, PTL

\* The rows of a resolved read are not older than its question.
THEOREM FreshHolds == CatalogSpec => []FreshSnapshot
<1>1. CatalogInv => FreshSnapshot
  <2> SUFFICES ASSUME CatalogInv, outcome = "resolved", NEW type \in Wanted
               PROVE  kept[type].version \in asked .. now
    BY DEF FreshSnapshot
  <2>1. kind = "COMPLETED" /\ seen = Wanted
    BY DEF CatalogInv, Phases, RowsFit
  <2>2. kept[type].version \in asked .. heard /\ heard <= now
    BY <2>1 DEF CatalogInv, RowsFit
  <2>3. QED
    BY <2>2 DEF CatalogInv, CatalogTypeOK
<1>2. QED
  BY <1>1, CatalogInvariant, PTL

\* A pending read is guarded by its timer.
THEOREM CatalogPendingGuarded == CatalogSpec => []PendingIsGuarded
<1>1. CatalogInv => PendingIsGuarded
  BY DEF CatalogInv
<1>2. QED
  BY <1>1, CatalogInvariant, PTL

\* A settled read stays as it is: nothing is received, no terminal event is
\* left, and the timer of a connection that was never opened changes nothing.
THEOREM CatalogSettledFinal == CatalogSpec => SettledIsFinal
<1>1. CatalogInv /\ [CatalogNext]_catalogVars
      => [outcome # "pending" =>
            UNCHANGED <<machineVars, bytes, socket, cleaned, terminal, subscriptionSent>>]_catalogVars
  <2> SUFFICES ASSUME CatalogInv, CatalogNext, outcome # "pending"
               PROVE  UNCHANGED <<machineVars, bytes, socket, cleaned, terminal, subscriptionSent>>
    OBVIOUS
  <2>1. socket = "closed" /\ (cleaned \/ terminal)
    BY DEF CatalogInv, Phases
  <2>2. CASE TimerFires
    BY <2>1, <2>2 DEF TimerFires, EmitTerminal, machineVars
  <2>3. CASE CatalogChanges
    BY <2>3 DEF CatalogChanges, machineVars, connectionVars
  <2>4. ~(Start \/ StartFails \/ Open \/ SocketError \/ SocketClose)
    BY <2>1 DEF Start, StartFails, Open, SocketError, SocketClose
  <2>5. ~(OversizedFrame \/ Connected \/ Synced \/ ActionKept \/ RowBoundExceeded
          \/ FrameIgnored \/ ErrorFrame \/ PongThrows)
    BY <2>1 DEF OversizedFrame, Connected, Synced, ActionKept, RowBoundExceeded, FrameIgnored,
       ErrorFrame, PongThrows, Receives
  <2>6. QED
    BY <2>2, <2>3, <2>4, <2>5 DEF CatalogNext
<1>2. QED
  BY <1>1, CatalogInvariant, PTL DEF CatalogSpec, SettledIsFinal

----------------------------------------------------------------------------
\* The protocol is a snapshot read: what ends it badly is a GiveUp, the last
\* type a GiveRows, the subscription an Ask.
Versions == IF outcome = "resolved"
            THEN [type \in Wanted |-> kept[type].version]
            ELSE [type \in Wanted |-> 0]

LEMMA EndsIsGiveUp ==
  ASSUME CatalogInv, outcome = "pending", outcome' = "rejected", UNCHANGED <<now, asked>>
  PROVE  Read!GiveUp
BY DEF Read!GiveUp, Answer

LEMMA StutterIsStutter ==
  ASSUME outcome' = outcome, UNCHANGED <<now, asked, kept, subscriptionSent>>
  PROVE  UNCHANGED <<now, asked, Answer, Versions>>
BY DEF Answer, Versions

LEMMA EmitIsGiveUp ==
  ASSUME CatalogInv, NEW to, NEW code, EmitTerminal(to, code), UNCHANGED <<now, asked>>
  PROVE  Read!GiveUp
<1>1. outcome = "pending" /\ outcome' = "rejected"
  BY DEF EmitTerminal, Fail, Settle, CatalogInv, Phases
<1>2. QED
  BY <1>1, EndsIsGiveUp

LEMMA KeptIsGiveRows ==
  ASSUME CatalogInv, ActionKept
  PROVE  Read!GiveRows \/ UNCHANGED <<now, asked, Answer, Versions>>
<1>1. CatalogInv'
  BY ActionKeptInv
<1>2. outcome = "pending" /\ subscriptionSent /\ UNCHANGED <<now, asked, subscriptionSent>>
  BY ReceivesPending DEF ActionKept, CatalogInv, RowsFit
<1>3. CASE outcome' = "resolved"
  <2>1. kind' = "COMPLETED" /\ seen' = Wanted
    BY <1>1, <1>3 DEF CatalogInv, Phases, RowsFit
  <2>2. \A type \in Wanted : kept'[type].version \in asked .. now
    <3> SUFFICES ASSUME NEW type \in Wanted
                 PROVE  kept'[type].version \in asked .. now
      OBVIOUS
    <3>1. kept'[type].version \in asked' .. heard' /\ heard' <= now'
      BY <1>1, <2>1 DEF CatalogInv, RowsFit
    <3>2. QED
      BY <1>1, <1>2, <3>1 DEF CatalogInv, CatalogTypeOK
  <2>3. Versions' = [type \in Wanted |-> kept'[type].version]
    BY <1>3 DEF Versions
  <2>4. Answer = "asked" /\ Answer' = "rows" /\ Versions' \in [Wanted -> asked .. now]
    BY <1>2, <1>3, <2>2, <2>3 DEF Answer
  <2>5. QED
    BY <1>2, <2>4 DEF Read!GiveRows, Versions
<1>4. CASE outcome' # "resolved"
  <2>1. outcome' = outcome
    <3>1. Settle("resolved") \/ outcome' = outcome
      BY DEF ActionKept, Keep
    <3>2. QED
      BY <1>2, <1>4, <3>1 DEF Settle
  <2>2. QED
    BY <1>2, <2>1 DEF Answer, Versions
<1>5. QED
  BY <1>3, <1>4

LEMMA StepImplementsRead ==
  CatalogInv /\ [CatalogNext]_catalogVars
  => [Read!ReadNext]_<<now, asked, Answer, Versions>>
<1> SUFFICES ASSUME CatalogInv, [CatalogNext]_catalogVars
             PROVE  Read!ReadNext \/ UNCHANGED <<now, asked, Answer, Versions>>
  OBVIOUS
<1>1. CASE UNCHANGED catalogVars \/ Start
  BY <1>1, StutterIsStutter DEF catalogVars, machineVars, serverVars, Start
<1>2. CASE StartFails
  <2>1. outcome = "pending" /\ outcome' = "rejected" /\ UNCHANGED <<now, asked>>
    BY <1>2 DEF StartFails, Fail, Settle, CatalogInv, Phases, serverVars
  <2>2. QED
    BY <2>1, EndsIsGiveUp DEF Read!ReadNext
<1>3. CASE Open \/ SocketError \/ SocketClose \/ TimerFires \/ PongThrows
  <2>1. UNCHANGED <<now, asked, subscriptionSent>>
    BY <1>3 DEF Open, SocketError, SocketClose, TimerFires, PongThrows, serverVars
  <2>2. CASE \/ EmitTerminal("FAILED", "DEPENDENCY_FAILURE")
             \/ EmitTerminal("TIMED_OUT", "DEPENDENCY_TIMEOUT")
    BY <2>1, <2>2, EmitIsGiveUp DEF Read!ReadNext
  <2>3. CASE UNCHANGED <<outcome, kept>>
    BY <2>1, <2>3, StutterIsStutter
  <2>4. QED
    BY <1>3, <2>2, <2>3 DEF Open, SocketError, SocketClose, TimerFires, PongThrows, SendThrows,
       machineVars
<1>4. CASE OversizedFrame \/ RowBoundExceeded \/ ErrorFrame
  <2>1. UNCHANGED <<now, asked>>
    BY <1>4 DEF OversizedFrame, RowBoundExceeded, ErrorFrame
  <2>2. QED
    BY <1>4, <2>1, FailingFramesInv, EndsIsGiveUp DEF Read!ReadNext
<1>5. CASE Connected
  <2>1. UNCHANGED now
    BY <1>5 DEF Connected
  <2>2. CASE SendThrows /\ UNCHANGED asked
    BY <2>1, <2>2, EmitIsGiveUp DEF SendThrows, Read!ReadNext
  <2>3. CASE /\ asked' = IF subscriptionSent THEN asked ELSE now
             /\ UNCHANGED <<seen, kept, rowCount, fault, outcome, connectionVars>>
    <3>1. outcome = "pending" /\ subscriptionSent' = TRUE
      BY <1>5, ReceivesPending DEF Connected
    <3>2. CASE subscriptionSent
      BY <2>1, <2>3, <3>1, <3>2, StutterIsStutter DEF CatalogInv
    <3>3. CASE ~subscriptionSent
      BY <2>1, <2>3, <3>1, <3>3 DEF Read!ReadNext, Read!Ask, Answer
    <3>4. QED
      BY <3>2, <3>3
  <2>4. QED
    BY <1>5, <2>2, <2>3 DEF Connected
<1>6. CASE Synced \/ FrameIgnored
  BY <1>6, StutterIsStutter DEF Synced, FrameIgnored, machineVars
<1>7. CASE ActionKept
  BY <1>7, KeptIsGiveRows DEF Read!ReadNext
<1>8. CASE CatalogChanges
  BY <1>8 DEF CatalogChanges, machineVars, Answer, Read!ReadNext, Read!CatalogAdvances
<1>9. QED
  BY <1>1, <1>2, <1>3, <1>4, <1>5, <1>6, <1>7, <1>8 DEF CatalogNext

\* syncCatalog() is a snapshot read for its callers: every callback is a step of
\* SnapshotRead or a stutter.
THEOREM CatalogImplementsRead == CatalogSpec => ImplementsRead
<1>1. CatalogInit => Read!ReadInit
  BY DEF CatalogInit, Read!ReadInit, Read!Unread, Answer
<1>2. CatalogInv /\ [CatalogNext]_catalogVars => [Read!ReadNext]_<<now, asked, Answer, Versions>>
  BY StepImplementsRead
<1>3. QED
  BY <1>1, <1>2, CatalogInvariant, PTL DEF CatalogSpec, ImplementsRead, Read!ReadSpec, Versions

=============================================================================
