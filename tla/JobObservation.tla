--------------------------- MODULE JobObservation ---------------------------
(***************************************************************************)
(* executeEvent() of cli/client/index.ts: how the CLI starts one XYOps job *)
(* and learns what became of it, driving the machine of                    *)
(* cli/client/job-observation-state-machine.ts.                            *)
(*                                                                         *)
(* run_event is sent once.  Its job is then observed through the SSE       *)
(* stream; when the stream fails, through get_job, at most MaxPolls times  *)
(* and until a deadline.  A client without stream limits polls at once.    *)
(* The job goes on by itself, whatever the client has seen of it.          *)
(***************************************************************************)
EXTENDS Naturals

CONSTANT MaxPolls   \* MAX_POLL_ATTEMPTS

ASSUME PollsAssumption == MaxPolls \in Nat \ {0}

VARIABLES
    mode,      \* useStreaming: "stream" or "poll"
    pc,        \* what executeEvent awaits
    machine,   \* JobObservationState.kind, "none" before the job has an ID
    attempt,   \* the attempt of pollUntilComplete, 0 before
    gets,      \* get_job requests sent
    deadline,  \* of the polling: "unset", "ahead", "passed"
    outcome,   \* "success", or the diagnostic code thrown; "none" before
    launch,    \* the run_event request: "unsent", "sent", "handled"
    job,       \* the job, by its final code: 0, another success code, a failure
    output,    \* what the job put out
    stalled    \* the body of the answer has stopped coming

clientVars == <<mode, pc, machine, attempt, gets, deadline, outcome>>
jobVars == <<launch, job, output, stalled>>
observationVars == <<clientVars, jobVars>>

----------------------------------------------------------------------------
\* A request ends in one of these codes; "job" is a get_job response that
\* holds no job.
Lost == {"timeout", "network"}
ReadFaults == Lost \cup {"http", "api", "job"}
Codes == {"http", "api", "job", "envelope", "execute-outcome-unknown"}
MachineTerminal == {"SUCCEEDED", "FAILED", "UNKNOWN_OUTCOME"}
JobEnded == {"zero", "other-success", "failure"}

\* translateExecuteJobError().
Translated(code) == IF code \in Lost THEN "execute-outcome-unknown" ELSE code

\* A slip: the code of the job is not looked at.
completeJobUnchecked ==
    IF output = "unreadable" THEN "job"
    ELSE IF output = "valid" THEN "success" ELSE "envelope"

\* completeJob(): first the code of the job, then its output, then the schema.
completeJob ==
    IF job = "failure" \/ output = "unreadable" THEN "job"
    ELSE IF output = "valid" THEN "success" ELSE "envelope"

\* parseTerminalStream(): the stream calls any code but 0 a failure, and
\* throws what requireSuccessfulJob() then returns: no CliError.
parseTerminalStream ==
    IF job = "other-success" THEN "execute-outcome-unknown" ELSE completeJob

\* The attempt limit of pollUntilComplete() and of pollIncompleteJob().
Exhausted(next) == next > MaxPolls

----------------------------------------------------------------------------
ObservationInit ==
    /\ mode \in {"stream", "poll"}
    /\ pc = "idle" /\ machine = "none"
    /\ attempt = 0 /\ gets = 0 /\ deadline = "unset"
    /\ outcome = "none"
    /\ launch = "unsent" /\ job = "none" /\ output = "none"
    /\ stalled = FALSE

Settle(result) ==
    /\ pc' = "settled"
    /\ outcome' = result

\* pollUntilComplete() asks for the job.
Ask(n) ==
    /\ pc' = "polling"
    /\ attempt' = n
    /\ gets' = gets + 1

\* executeEvent() sends run_event.
Launch ==
    /\ pc = "idle"
    /\ pc' = "launching"
    /\ launch' = "sent"
    /\ UNCHANGED <<mode, machine, attempt, gets, deadline, outcome, job, output, stalled>>

\* The deadline, a network error, a refusal, an answer without a job ID: none
\* of them says whether the job runs.
LaunchFails ==
    /\ pc = "launching" /\ ~stalled
    /\ \E code \in Lost \cup {"http", "api", "execute-outcome-unknown"} :
         Settle(Translated(code))
    /\ UNCHANGED <<mode, machine, attempt, gets, deadline, jobVars>>

\* startJobObservation(): "execute-dispatched", and "polling-started" for a
\* client that does not stream; pollJob() sets the deadline.
LaunchAnswered ==
    /\ pc = "launching" /\ ~stalled
    /\ job # "none"
    /\ \/ /\ mode = "stream"
          /\ pc' = "streaming" /\ machine' = "STREAMING"
          /\ UNCHANGED <<attempt, gets, deadline>>
       \/ /\ mode = "poll"
          /\ machine' = "POLLING" /\ deadline' = "ahead"
          /\ Ask(1)
    /\ UNCHANGED <<mode, outcome, jobVars>>

----------------------------------------------------------------------------
\* A slip: the stream has no deadline.
StreamNeverFails == FALSE /\ UNCHANGED observationVars

\* The stream is malformed, cut, refused or too slow: "stream-failed".
StreamFails ==
    /\ pc = "streaming"
    /\ machine' = "POLLING" /\ deadline' = "ahead"
    /\ Ask(1)
    /\ UNCHANGED <<mode, outcome, jobVars>>

\* readTerminalStreamResult(): the "end" event came with or without output;
\* "stream-succeeded" is dispatched only after a usable result.
StreamEnds ==
    /\ pc = "streaming"
    /\ job \in JobEnded
    /\ \/ /\ pc' = "fetching" /\ gets' = gets + 1
          /\ UNCHANGED <<machine, outcome>>
       \/ /\ Settle(parseTerminalStream)
          /\ machine' = IF parseTerminalStream = "success" THEN "SUCCEEDED" ELSE machine
          /\ UNCHANGED gets
    /\ UNCHANGED <<mode, attempt, deadline, jobVars>>

\* A slip: when the last get_job fails, polling starts over.
FetchFallsBack ==
    /\ pc = "fetching" /\ ~stalled
    /\ \/ /\ Settle(completeJob)
          /\ machine' = IF completeJob = "success" THEN "SUCCEEDED" ELSE machine
          /\ UNCHANGED <<attempt, gets, deadline>>
       \/ machine' = "POLLING" /\ deadline' = "ahead" /\ Ask(1) /\ UNCHANGED outcome
    /\ UNCHANGED <<mode, jobVars>>

\* The one get_job after the stream: its failure is final.
FetchAnswered ==
    /\ pc = "fetching" /\ ~stalled
    /\ \/ /\ Settle(completeJob)
          /\ machine' = IF completeJob = "success" THEN "SUCCEEDED" ELSE machine
       \/ /\ \E code \in ReadFaults : Settle(Translated(code))
          /\ UNCHANGED machine
    /\ UNCHANGED <<mode, attempt, gets, deadline, jobVars>>

----------------------------------------------------------------------------
\* A slip: a failed job is reported as such even when it was only polled.
pollErrorPlain(code) == Translated(code)

\* streamingUnknownOutcome(), then translateExecuteJobError().
pollError(code) ==
    IF mode = "stream" /\ code = "job" THEN "execute-outcome-unknown" ELSE Translated(code)

\* pollObservation() with what pollJob() returned or threw: "job-succeeded",
\* "job-failed" for any "job" diagnostic, "poll-timeout" for any other.
PollSettles(result) ==
    /\ machine' = IF result = "success" THEN "SUCCEEDED"
                  ELSE IF result = "job" THEN "FAILED" ELSE "UNKNOWN_OUTCOME"
    /\ Settle(pollError(result))
    /\ UNCHANGED <<attempt, gets>>

\* get_job answers: with an ended job, with an active one, or not at all.
PollAnswered ==
    /\ pc = "polling" /\ ~stalled
    /\ \/ job \in JobEnded /\ PollSettles(completeJob)
       \/ job = "running" /\ Exhausted(attempt + 1) /\ PollSettles("execute-outcome-unknown")
       \/ /\ job = "running" /\ ~Exhausted(attempt + 1)
          /\ pc' = "sleeping"
          /\ UNCHANGED <<machine, outcome, attempt, gets>>
       \/ \E code \in ReadFaults : PollSettles(code)
    /\ UNCHANGED <<mode, deadline, jobVars>>

\* pollIncompleteJob() after its sleep, into the next pollUntilComplete().
PollWakes ==
    /\ pc = "sleeping"
    /\ \/ /\ deadline = "passed" \/ Exhausted(attempt + 1)
          /\ PollSettles("execute-outcome-unknown")
       \/ /\ deadline = "ahead" /\ ~Exhausted(attempt + 1)
          /\ Ask(attempt + 1)
          /\ UNCHANGED <<machine, outcome>>
    /\ UNCHANGED <<mode, deadline, jobVars>>

----------------------------------------------------------------------------
DeadlinePasses ==
    /\ deadline = "ahead"
    /\ deadline' = "passed"
    /\ UNCHANGED <<mode, pc, machine, attempt, gets, outcome, jobVars>>

\* XYOps, whose code is not in the repository: a request is refused or starts
\* the job, at any time after it was sent; the job may end.
RequestHandled ==
    /\ launch = "sent"
    /\ launch' = "handled"
    /\ job' \in {"none", "running"}
    /\ UNCHANGED <<clientVars, output, stalled>>

JobEnds ==
    /\ job = "running"
    /\ job' \in JobEnded
    /\ output' \in {"valid", "unreadable", "foreign"}
    /\ UNCHANGED <<clientVars, launch, stalled>>

\* fetchRequest() clears its timer with the headers; response.json() and
\* readHTTPDiagnostic() wait for the body as long as it does not come.  A
\* stream keeps its timer to the end.
BodyStalls ==
    /\ pc \in {"launching", "fetching", "polling"}
    /\ stalled' = TRUE
    /\ UNCHANGED <<clientVars, launch, job, output>>

----------------------------------------------------------------------------
ClientNext ==
    \/ Launch \/ LaunchFails \/ LaunchAnswered
    \/ StreamFails \/ StreamEnds \/ FetchAnswered
    \/ PollAnswered \/ PollWakes

ObservationNext == ClientNext \/ DeadlinePasses \/ RequestHandled \/ JobEnds \/ BodyStalls

ObservationSpec == ObservationInit /\ [][ObservationNext]_observationVars

\* A sleep, a stream and the headers of a request come to an end: each has a
\* timer.  A body may stall, XYOps owes nothing, and a job may run forever.
ObservationFairSpec == ObservationSpec /\ WF_observationVars(ClientNext)

----------------------------------------------------------------------------
\* Type correctness of the observation.
ObservationTypeOK ==
    /\ mode \in {"stream", "poll"}
    /\ pc \in {"idle", "launching", "streaming", "fetching", "polling", "sleeping", "settled"}
    /\ machine \in {"none", "STREAMING", "POLLING"} \cup MachineTerminal
    /\ attempt \in 0 .. MaxPolls
    /\ gets \in 0 .. MaxPolls
    /\ deadline \in {"unset", "ahead", "passed"}
    /\ outcome \in {"none", "success"} \cup Codes
    /\ launch \in {"unsent", "sent", "handled"}
    /\ job \in {"none", "running"} \cup JobEnded
    /\ output \in {"none", "valid", "unreadable", "foreign"}
    /\ stalled \in BOOLEAN

\* The CLI never takes a job for successful that is running or has failed, or
\* whose output is not a Voiceflow envelope, whichever way it learned of it.
SuccessIsReal ==
    outcome = "success" => job \in {"zero", "other-success"} /\ output = "valid"

\* A diagnostic that does not ask for reconciliation because the job is over
\* is only given when it is: the streaming CLI reports "job" or "envelope"
\* (and success) of an ended job only, however the observation went.
VerdictsAreFinal ==
    \/ outcome \in {"success", "envelope"}
    \/ outcome = "job" /\ mode = "stream"
    => job \in JobEnded

\* The machine and the promise tell the same story: SUCCEEDED exactly when
\* the call returns, POLLING exactly while it polls, and a machine that ended
\* has ended the call.
MachineAgrees ==
    /\ machine = "SUCCEEDED" <=> outcome = "success"
    /\ machine = "POLLING" <=> pc \in {"polling", "sleeping"}
    /\ machine \in MachineTerminal => pc = "settled"

\* bdd/done/xyops-job-observation-state-machine.feature: at most MaxPolls
\* get_job requests per reconciliation, none after the deadline, none once the
\* outcome is known, and no polling after the get_job that follows a
\* completed stream.
ReadsAreBounded ==
    [][gets' # gets =>
         /\ gets' = gets + 1 /\ gets' <= MaxPolls
         /\ deadline # "passed"
         /\ outcome = "none" /\ pc # "fetching"]_observationVars

\* Whatever XYOps and the job do, the call ends, unless the body of an answer
\* stops coming: nothing else can hold it up.
ObservationEnds == <>(pc = "settled" \/ stalled)

\* bdd/done/xyops-job-observation-state-machine.feature:81, "When the polling
\* deadline expires or the 100-attempt limit is reached / Then the state becomes
\* UNKNOWN_OUTCOME": polling does not outlive its deadline.
DeadlineEndsPolling ==
    (machine = "POLLING" /\ deadline = "passed") ~> (machine # "POLLING")
=============================================================================
