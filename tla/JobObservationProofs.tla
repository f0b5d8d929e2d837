------------------------ MODULE JobObservationProofs ------------------------
(***************************************************************************)
(* Proofs about JobObservation, for every number of polls.                 *)
(*                                                                         *)
(* The inductive invariant adds to the properties what relates the await   *)
(* the call is at to the counters, to the deadline and to the job: above   *)
(* all that the client only fetches once the job has ended, and that the   *)
(* requests sent while polling are the attempts.                           *)
(***************************************************************************)
EXTENDS JobObservation, TLAPS

----------------------------------------------------------------------------
\* The call has an outcome exactly when it has settled.
OutcomeOnce == outcome # "none" <=> pc = "settled"

\* A job that ended put something out; only a handled request has a job.
JobKnown ==
    /\ job \in JobEnded => output \in {"valid", "unreadable", "foreign"}
    /\ launch # "handled" => job = "none"
    /\ pc = "idle" => launch = "unsent"

\* What has been asked of get_job by the time the call is at each await.
Before == {"idle", "launching", "streaming"}
Asked ==
    /\ pc \in Before => gets = 0 /\ attempt = 0 /\ deadline = "unset"
    /\ pc = "streaming" => mode = "stream"
    /\ pc = "fetching" => job \in JobEnded
    /\ pc \in {"polling", "sleeping"} => gets = attempt /\ deadline # "unset"

ObservationInv ==
    /\ ObservationTypeOK
    /\ OutcomeOnce
    /\ JobKnown
    /\ Asked
    /\ SuccessIsReal
    /\ VerdictsAreFinal
    /\ MachineAgrees

----------------------------------------------------------------------------
\* completeJob() returns only for a job with a success code and an envelope,
\* and otherwise throws one of two codes.
LEMMA CompletedJob ==
    ASSUME ObservationInv, job \in JobEnded
    PROVE  /\ completeJob \in {"success", "job", "envelope"}
           /\ completeJob = "success" =>
                job \in {"zero", "other-success"} /\ output = "valid"
  BY DEF ObservationInv, JobKnown, completeJob, JobEnded

\* The same of a result that came with the stream.
LEMMA StreamedJob ==
    ASSUME ObservationInv, job \in JobEnded
    PROVE  /\ parseTerminalStream \in
                {"success", "job", "envelope", "execute-outcome-unknown"}
           /\ parseTerminalStream = "success" =>
                job \in {"zero", "other-success"} /\ output = "valid"
  BY CompletedJob DEF parseTerminalStream

\* The codes that leave executeEvent when a read fails.
LEMMA TranslatedFault ==
    ASSUME NEW code \in ReadFaults
    PROVE  Translated(code) \in {"http", "api", "job", "execute-outcome-unknown"}
  BY DEF ReadFaults, Translated, Lost

\* The codes that leave it when a read made while polling fails.
LEMMA PolledFault ==
    ASSUME ObservationTypeOK,
           NEW code \in ReadFaults \cup {"envelope", "execute-outcome-unknown"}
    PROVE  /\ pollError(code) \in Codes
           /\ pollError(code) \in {"job", "envelope"} => code = pollError(code)
           /\ pollError(code) = "job" => mode = "poll"
  BY DEF ReadFaults, pollError, Translated, Lost, Codes, ObservationTypeOK

----------------------------------------------------------------------------
LEMMA ObservationInitInv == ObservationInit => ObservationInv
<1>1. ObservationInit => stalled \in BOOLEAN
  BY DEF ObservationInit
<1>2. QED
  BY <1>1, PollsAssumption
  DEF ObservationInit, ObservationInv, ObservationTypeOK, OutcomeOnce, JobKnown,
      Asked, SuccessIsReal, VerdictsAreFinal, MachineAgrees, MachineTerminal,
      JobEnded, Codes, Before

\* A request for the job: the first one, or the next within the limit.
LEMMA AskInv ==
    ASSUME ObservationInv, NEW n \in 1 .. MaxPolls,
           pc \in {"launching", "streaming", "sleeping"},
           n = gets + 1,
           Ask(n), machine' = "POLLING", deadline' = "ahead",
           UNCHANGED <<mode, outcome, jobVars>>
    PROVE  ObservationInv'
<1> USE PollsAssumption DEF ObservationInv, Ask, jobVars, OutcomeOnce
<1>1. ObservationTypeOK'
  BY DEF ObservationTypeOK
<1>2. Asked'
  BY DEF Asked, Before, ObservationTypeOK
<1>3. OutcomeOnce' /\ JobKnown' /\ SuccessIsReal'
  BY DEF JobKnown, SuccessIsReal
<1>4. VerdictsAreFinal' /\ MachineAgrees'
  BY DEF VerdictsAreFinal, MachineAgrees, MachineTerminal
<1>5. QED
  BY <1>1, <1>2, <1>3, <1>4

\* The call settles outside the polling, where a success ends the machine.
LEMMA SettleInv ==
    ASSUME ObservationInv, pc \in {"launching", "streaming", "fetching"},
           NEW result \in {"success"} \cup Codes,
           Settle(result),
           result = "success" => job \in {"zero", "other-success"} /\ output = "valid",
           result \in {"job", "envelope"} => job \in JobEnded,
           machine' = (IF result = "success" THEN "SUCCEEDED" ELSE machine),
           gets' \in 0 .. MaxPolls,
           UNCHANGED <<mode, attempt, deadline, jobVars>>
    PROVE  ObservationInv'
<1> USE DEF ObservationInv, Settle, jobVars, OutcomeOnce
<1>1. ObservationTypeOK'
  BY DEF ObservationTypeOK, MachineTerminal
<1>2. Asked' /\ JobKnown'
  BY DEF Asked, Before, JobKnown
<1>3. OutcomeOnce'
  BY DEF Codes
<1>4. SuccessIsReal' /\ VerdictsAreFinal'
  BY DEF SuccessIsReal, VerdictsAreFinal, JobEnded
<1>5. MachineAgrees'
  BY DEF MachineAgrees, MachineTerminal, Codes
<1>6. QED
  BY <1>1, <1>2, <1>3, <1>4, <1>5

\* The polling settles.
LEMMA PollSettlesInv ==
    ASSUME ObservationInv, pc \in {"polling", "sleeping"},
           NEW result \in {"success", "envelope", "execute-outcome-unknown"} \cup ReadFaults,
           PollSettles(result),
           result = "success" => job \in {"zero", "other-success"} /\ output = "valid",
           result = "envelope" => job \in JobEnded,
           UNCHANGED <<mode, deadline, jobVars>>
    PROVE  ObservationInv'
<1> USE DEF ObservationInv, jobVars, OutcomeOnce
<1>1. /\ pc' = "settled" /\ outcome' = pollError(result)
      /\ UNCHANGED <<attempt, gets>>
      /\ machine' \in MachineTerminal
      /\ machine' = "SUCCEEDED" <=> result = "success"
  BY DEF PollSettles, Settle, MachineTerminal
<1>2. /\ outcome' \in {"success"} \cup Codes
      /\ outcome' = "success" <=> result = "success"
      /\ outcome' = "envelope" => result = "envelope"
      /\ outcome' = "job" => mode = "poll"
  <2>1. CASE result = "success"
    BY <1>1, <2>1 DEF pollError, Translated, Lost
  <2>2. CASE result # "success"
    BY <1>1, <2>2, PolledFault DEF Codes
  <2>3. QED
    BY <2>1, <2>2
<1>3. ObservationTypeOK'
  BY <1>1, <1>2 DEF ObservationTypeOK
<1>4. Asked' /\ JobKnown' /\ OutcomeOnce'
  BY <1>1, <1>2 DEF Asked, Before, JobKnown, Codes
<1>5. SuccessIsReal' /\ VerdictsAreFinal' /\ MachineAgrees'
  BY <1>1, <1>2 DEF SuccessIsReal, VerdictsAreFinal, MachineAgrees, MachineTerminal, JobEnded
<1>6. QED
  BY <1>3, <1>4, <1>5

----------------------------------------------------------------------------
LEMMA ObservationStepInv == ObservationInv /\ [ObservationNext]_observationVars => ObservationInv'
<1> SUFFICES ASSUME ObservationInv, [ObservationNext]_observationVars
             PROVE  ObservationInv'
  OBVIOUS
<1> USE PollsAssumption
<1>1. CASE Launch
  <2>1. ObservationTypeOK' /\ Asked'
    BY <1>1 DEF Launch, ObservationInv, ObservationTypeOK, Asked, Before
  <2>2. OutcomeOnce' /\ JobKnown' /\ SuccessIsReal' /\ VerdictsAreFinal' /\ MachineAgrees'
    BY <1>1 DEF Launch, ObservationInv, OutcomeOnce, JobKnown, SuccessIsReal,
                VerdictsAreFinal, MachineAgrees
  <2>3. QED
    BY <2>1, <2>2 DEF ObservationInv
<1>2. CASE LaunchFails
  <2>1. PICK code \in Lost \cup {"http", "api", "execute-outcome-unknown"} :
          Settle(Translated(code))
    BY <1>2 DEF LaunchFails
  <2>2. Translated(code) \in {"http", "api", "execute-outcome-unknown"}
    BY DEF Translated, Lost
  <2>3. QED
    BY <1>2, <2>1, <2>2, SettleInv
    DEF LaunchFails, Codes, ObservationInv, ObservationTypeOK
<1>3. CASE LaunchAnswered
  <2>1. CASE mode = "poll"
    <3>1. gets = 0
      BY <1>3 DEF LaunchAnswered, ObservationInv, Asked, Before
    <3>2. QED
      BY <1>3, <2>1, <3>1, AskInv DEF LaunchAnswered
  <2>2. CASE mode = "stream"
    <3>1. /\ pc = "launching" /\ pc' = "streaming" /\ machine' = "STREAMING"
          /\ UNCHANGED <<mode, attempt, gets, deadline, outcome, jobVars>>
      BY <1>3, <2>2 DEF LaunchAnswered
    <3>2. ObservationTypeOK' /\ Asked'
      BY <2>2, <3>1 DEF ObservationInv, ObservationTypeOK, Asked, Before, jobVars
    <3>3. OutcomeOnce' /\ JobKnown' /\ SuccessIsReal' /\ VerdictsAreFinal' /\ MachineAgrees'
      BY <3>1 DEF ObservationInv, OutcomeOnce, JobKnown, SuccessIsReal,
                  VerdictsAreFinal, MachineAgrees, MachineTerminal, jobVars
    <3>4. QED
      BY <3>2, <3>3 DEF ObservationInv
  <2>3. QED
    BY <2>1, <2>2 DEF ObservationInv, ObservationTypeOK
<1>4. CASE StreamFails
  <2>1. gets = 0
    BY <1>4 DEF StreamFails, ObservationInv, Asked, Before
  <2>2. QED
    BY <1>4, <2>1, AskInv DEF StreamFails
<1>5. CASE StreamEnds
  <2>1. CASE pc' = "fetching"
    <3>1. /\ pc = "streaming" /\ job \in JobEnded /\ gets' = gets + 1
          /\ UNCHANGED <<mode, machine, attempt, deadline, outcome, jobVars>>
      BY <1>5, <2>1 DEF StreamEnds, Settle
    <3>2. ObservationTypeOK' /\ Asked'
      BY <2>1, <3>1 DEF ObservationInv, ObservationTypeOK, Asked, Before, jobVars
    <3>3. OutcomeOnce' /\ JobKnown' /\ SuccessIsReal' /\ VerdictsAreFinal' /\ MachineAgrees'
      BY <2>1, <3>1 DEF ObservationInv, OutcomeOnce, JobKnown, SuccessIsReal,
                        VerdictsAreFinal, MachineAgrees, MachineTerminal, jobVars
    <3>4. QED
      BY <3>2, <3>3 DEF ObservationInv
  <2>2. CASE pc' # "fetching"
    <3>1. /\ pc = "streaming" /\ job \in JobEnded /\ Settle(parseTerminalStream)
          /\ machine' = (IF parseTerminalStream = "success" THEN "SUCCEEDED" ELSE machine)
          /\ UNCHANGED <<mode, attempt, gets, deadline, jobVars>>
      BY <1>5, <2>2 DEF StreamEnds
    <3>2. QED
      BY <3>1, StreamedJob, SettleInv DEF Codes, ObservationInv, ObservationTypeOK
  <2>3. QED
    BY <2>1, <2>2
<1>6. CASE FetchAnswered
  <2>1. pc = "fetching" /\ job \in JobEnded /\ UNCHANGED <<mode, attempt, gets, deadline, jobVars>>
    BY <1>6 DEF FetchAnswered, ObservationInv, Asked
  <2>2. CASE /\ Settle(completeJob)
             /\ machine' = IF completeJob = "success" THEN "SUCCEEDED" ELSE machine
    BY <2>1, <2>2, CompletedJob, SettleInv DEF Codes, ObservationInv, ObservationTypeOK
  <2>3. ASSUME NEW code \in ReadFaults, Settle(Translated(code)), UNCHANGED machine
        PROVE  ObservationInv'
    BY <2>1, <2>3, TranslatedFault, SettleInv DEF Codes, ObservationInv, ObservationTypeOK
  <2>4. QED
    BY <1>6, <2>2, <2>3 DEF FetchAnswered
<1>7. CASE PollAnswered
  <2>1. pc = "polling" /\ UNCHANGED <<mode, deadline, jobVars>>
    BY <1>7 DEF PollAnswered
  <2>2. CASE job \in JobEnded /\ PollSettles(completeJob)
    BY <2>1, <2>2, CompletedJob, PollSettlesInv DEF ReadFaults
  <2>3. CASE PollSettles("execute-outcome-unknown")
    BY <2>1, <2>3, PollSettlesInv
  <2>4. CASE pc' = "sleeping" /\ UNCHANGED <<machine, outcome, attempt, gets>>
    <3>1. ObservationTypeOK' /\ Asked'
      BY <2>1, <2>4 DEF ObservationInv, ObservationTypeOK, Asked, Before, jobVars
    <3>2. OutcomeOnce' /\ JobKnown' /\ SuccessIsReal' /\ VerdictsAreFinal' /\ MachineAgrees'
      BY <2>1, <2>4 DEF ObservationInv, OutcomeOnce, JobKnown, SuccessIsReal,
                        VerdictsAreFinal, MachineAgrees, MachineTerminal, jobVars
    <3>3. QED
      BY <3>1, <3>2 DEF ObservationInv
  <2>5. ASSUME NEW code \in ReadFaults, PollSettles(code)
        PROVE  ObservationInv'
    BY <2>1, <2>5, PollSettlesInv DEF ReadFaults, Lost
  <2>6. QED
    BY <1>7, <2>2, <2>3, <2>4, <2>5 DEF PollAnswered
<1>8. CASE PollWakes
  <2>1. pc = "sleeping" /\ UNCHANGED <<mode, deadline, jobVars>>
    BY <1>8 DEF PollWakes
  <2>2. CASE PollSettles("execute-outcome-unknown")
    BY <2>1, <2>2, PollSettlesInv
  <2>3. CASE /\ deadline = "ahead" /\ ~Exhausted(attempt + 1)
             /\ Ask(attempt + 1)
             /\ UNCHANGED <<machine, outcome>>
    <3>1. attempt + 1 \in 1 .. MaxPolls /\ gets = attempt /\ machine = "POLLING"
      BY <2>1, <2>3 DEF Exhausted, ObservationInv, ObservationTypeOK, Asked, MachineAgrees
    <3>2. QED
      BY <2>1, <2>3, <3>1, AskInv
  <2>4. QED
    BY <1>8, <2>2, <2>3 DEF PollWakes
<1>9. CASE DeadlinePasses
  <2>1. ObservationTypeOK' /\ Asked'
    BY <1>9 DEF DeadlinePasses, ObservationInv, ObservationTypeOK, Asked, Before, jobVars
  <2>2. OutcomeOnce' /\ JobKnown' /\ SuccessIsReal' /\ VerdictsAreFinal' /\ MachineAgrees'
    BY <1>9 DEF DeadlinePasses, ObservationInv, OutcomeOnce, JobKnown, SuccessIsReal,
                VerdictsAreFinal, MachineAgrees, jobVars
  <2>3. QED
    BY <2>1, <2>2 DEF ObservationInv
<1>10. CASE RequestHandled \/ JobEnds
  <2>1. /\ UNCHANGED clientVars /\ job \notin JobEnded /\ pc # "idle"
        /\ launch' = "handled" /\ stalled' = stalled
        /\ \/ job' \in {"none", "running"} /\ output' = output
           \/ job' \in JobEnded /\ output' \in {"valid", "unreadable", "foreign"}
    <3>1. CASE RequestHandled
      BY <3>1 DEF RequestHandled, ObservationInv, JobKnown, JobEnded
    <3>2. CASE JobEnds
      BY <3>2 DEF JobEnds, ObservationInv, JobKnown, ObservationTypeOK, JobEnded
    <3>3. QED
      BY <1>10, <3>1, <3>2
  <2>2. ObservationTypeOK' /\ Asked' /\ JobKnown'
    BY <2>1 DEF ObservationInv, ObservationTypeOK, Asked, Before, JobKnown, clientVars, JobEnded
  <2>3. OutcomeOnce' /\ SuccessIsReal' /\ VerdictsAreFinal' /\ MachineAgrees'
    BY <2>1 DEF ObservationInv, OutcomeOnce, SuccessIsReal, VerdictsAreFinal,
                MachineAgrees, clientVars, JobEnded
  <2>4. QED
    BY <2>2, <2>3 DEF ObservationInv
<1>11. CASE BodyStalls
  <2>1. /\ UNCHANGED <<clientVars, launch, job, output>>
        /\ stalled' \in BOOLEAN
    BY <1>11 DEF BodyStalls
  <2>2. ObservationTypeOK' /\ Asked' /\ JobKnown'
    BY <2>1 DEF ObservationInv, ObservationTypeOK, Asked, Before, JobKnown, clientVars
  <2>3. OutcomeOnce' /\ SuccessIsReal' /\ VerdictsAreFinal' /\ MachineAgrees'
    BY <2>1 DEF ObservationInv, OutcomeOnce, SuccessIsReal, VerdictsAreFinal,
                MachineAgrees, clientVars
  <2>4. QED
    BY <2>2, <2>3 DEF ObservationInv
<1>12. CASE UNCHANGED observationVars
  BY <1>12 DEF observationVars, clientVars, jobVars, ObservationInv, ObservationTypeOK,
               OutcomeOnce, JobKnown, Asked, Before, SuccessIsReal, VerdictsAreFinal,
               MachineAgrees
<1>13. QED
  BY <1>1, <1>2, <1>3, <1>4, <1>5, <1>6, <1>7, <1>8, <1>9, <1>10, <1>11, <1>12
  DEF ObservationNext, ClientNext

LEMMA ObservationInvariance == ObservationSpec => []ObservationInv
<1>1. ObservationInit => ObservationInv
  BY ObservationInitInv
<1>2. ObservationInv /\ [ObservationNext]_observationVars => ObservationInv'
  BY ObservationStepInv
<1>3. QED
  BY <1>1, <1>2, PTL DEF ObservationSpec

\* Type correctness of executeEvent, the bound on its requests included.
THEOREM ObservationTypeCorrect == ObservationSpec => []ObservationTypeOK
<1>1. ObservationInv => ObservationTypeOK
  BY DEF ObservationInv
<1>2. QED
  BY <1>1, ObservationInvariance, PTL

\* A result executeEvent returns is that of a job that ended well.
THEOREM SuccessesAreReal == ObservationSpec => []SuccessIsReal
<1>1. ObservationInv => SuccessIsReal
  BY DEF ObservationInv
<1>2. QED
  BY <1>1, ObservationInvariance, PTL

\* A streaming CLI speaks of a job in the past tense only when it is over.
THEOREM VerdictsFinal == ObservationSpec => []VerdictsAreFinal
<1>1. ObservationInv => VerdictsAreFinal
  BY DEF ObservationInv
<1>2. QED
  BY <1>1, ObservationInvariance, PTL

\* The observation machine and the promise agree.
THEOREM MachineAndPromiseAgree == ObservationSpec => []MachineAgrees
<1>1. ObservationInv => MachineAgrees
  BY DEF ObservationInv
<1>2. QED
  BY <1>1, ObservationInvariance, PTL

\* get_job is asked within its bounds, whatever their value.
THEOREM ReadsBounded == ObservationSpec => ReadsAreBounded
<1> DEFINE Bounded == gets' # gets =>
             /\ gets' = gets + 1 /\ gets' <= MaxPolls
             /\ deadline # "passed"
             /\ outcome = "none" /\ pc # "fetching"
<1>1. ASSUME ObservationInv, ObservationInv', ObservationNext
      PROVE  Bounded
  <2>1. CASE gets' = gets
    BY <2>1
  <2>2. CASE gets' # gets
    <3>1. \/ /\ pc \in Before
             /\ gets' = gets + 1
          \/ /\ pc = "sleeping" /\ deadline = "ahead" /\ gets' = gets + 1
      BY <1>1, <2>2
      DEF ObservationNext, ClientNext, Launch, LaunchFails, LaunchAnswered, StreamFails,
          StreamEnds, FetchAnswered, PollAnswered, PollWakes, PollSettles, Ask, Before,
          DeadlinePasses, RequestHandled, JobEnds, BodyStalls, clientVars
    <3>2. deadline # "passed" /\ outcome = "none" /\ pc # "fetching"
      BY <1>1, <3>1 DEF ObservationInv, Asked, Before, OutcomeOnce
    <3>3. gets' <= MaxPolls
      BY <1>1, PollsAssumption DEF ObservationInv, ObservationTypeOK
    <3>4. QED
      BY <3>1, <3>2, <3>3
  <2>3. QED
    BY <2>1, <2>2
<1>2. ASSUME ObservationInv, ObservationInv', [ObservationNext]_observationVars
      PROVE  [Bounded]_observationVars
  BY <1>1, <1>2
<1>3. QED
  BY <1>2, ObservationInvariance, PTL DEF ObservationSpec, ReadsAreBounded

=============================================================================
