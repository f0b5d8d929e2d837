# A TLA+ model of voiceflow_cli

`voiceflow_cli` copies a Voiceflow project from one workspace into a folder of
another. Nothing it does to the destination can be undone or made atomic: it
renames the project that is in the way, imports the new one and creates its
secrets, each by a request that may be lost, may time out or may take effect
after the program stopped waiting. What makes the program correct is what it
does *between* those requests and what it *tells* the operator afterwards. The
modules here model that, TLC checks it on small instances, and TLAPS proves the
most important part for every value of the constants.

## 1. The system

```
 terminal ── CLI (xyops/cli) ── HTTPS, SSE ── XYOps server ── stdin/stdout ── native plugin (xyops/plugin)
                                                                                    │
                                              operations (xyops/voiceflow) ─────────┘
                                                    │
                              HTTPS + Logux WebSocket ── Voiceflow server
```

| component | state it keeps | operations | hard behaviour | correct when |
|---|---|---|---|---|
| migration reducer (`execute-migration-state-machine.ts`) | stage, context, verdict | 22 kinds of event (21 actions: two share a branch), a list of effects each | events in any order, late events, casts the compiler cannot check | stages go forward, no result is missing, one settlement |
| effect runner (`execute_migration/effect-runner/`) | reducer state, settlement | one handler per effect; a fault becomes an event | every await can fail, time out or be answered too late | the report to the caller is true, no mutation twice, the run ends |
| import request (`import/`, `http/`) | none | one POST with a deadline | an answer that proves nothing | unknown is reported as unknown |
| rename barrier (`catalog/rename-barrier.ts`, `rename-durability-state-machine.ts`) | loop counter, machine, timer | read, retry, give up | catalog is eventually consistent; overlapping reads; late timers; cancellation | import waits for the new name; bounded; patient |
| job observation (`cli/client/`) | observation machine, poll counter | run_event, stream, get_job | job outlives every request; stream fails while the job ends | success is real, verdicts are final, bounded reads, ends |
| Logux connection and mutations (`voiceflow/logux/`) | socket, timer, protocol state | subscribe, send one mutation, settle | callbacks after cleanup, two rejections racing | one terminal event, one mutation, one settlement |
| catalog read (`logux/catalog-state-machine.ts`, `syncCatalog()`) | wanted and seen types, rows, bytes | subscribe, collect a frame per type, settle | frames before the subscription, doubled, too large; a catalog that changes meanwhile | all types within the limits, or no rows; none older than the question |
| archive naming and reruns (`archive.ts`, `execution-reconciliation.ts`) | none: only the folder at Voiceflow remembers | choose a free name; decide whether to launch again | a job dies after its import left; two jobs in one minute; late renames | no import that was not wanted, no two projects of one name |
| native plugin (`xyops/plugin/`) | none | one job in, one response out | any step may throw | always one response |
| XYOps workflow operations (`*-workflow.ts`, `load-*.ts`, `resolve-*.ts`) | workflow data passed from job to job, a schema per stage | 9 of the planning workflow, 3 of the execution workflow | a folder created by somebody else, or by a request given up; a catalog that lags; data the next job refuses | data is accepted, the folder asked for is used |
| CLI, workflow mode (`cli/migration/`) | step, plan, answer | start and observe two workflows, confirm, report | operator confirms a plan that went stale; a workflow runs unobserved | nothing runs unconfirmed; the report is true; it ends |
| CLI, events mode (`cli/migration/index.ts`, `selection.ts`, `cli/prompt.ts`) | chosen IDs, options shown, typed lines, plan | list, ask, create a folder, plan, confirm, execute | lines typed ahead; folders that change after they were shown; jobs that outlive the run | what was shown is what is used; what is said of a failure stays true |
| configuration, token, diagnostics, agent wrapper | none | parse, decode, format | - | not concurrent, no state |

Interaction: the CLI starts a job with one `run_event` request and observes it.
The job is one plugin process, which calls one operation. `execute_migration`
is the operation with mutations: its runner feeds events to the reducer and
executes the effects the reducer returns, one after the other, awaiting each.
Effects call the Logux protocols (rename, secrets), the HTTPS client (export,
import) and the barrier, and nothing is persisted between two runs. In workflow
mode, the default, the CLI starts a planning workflow, shows its plan, and on
"yes" starts an execution workflow; each is a chain of such jobs, and XYOps hands
the data of one to the next. The last job calls `execute_migration`. In events
mode each list, the plan, the folder and the migration is one job that the CLI
starts and observes itself. A run that ended badly may be run again by the
operator, and knows of the earlier one only what the catalog shows.

## 2. The modules

| module | models | composes |
|---|---|---|
| `MigrationReducer` | the reducer: one action per event | - |
| `MigrationContract` | *abstract*: what a run promises about the workspace | - |
| `MigrationRunner` | the runner, its handlers, the server and the catalog | extends `MigrationReducer`, refines `MigrationContract` |
| `RenameBarrier` | `confirmProjectRename()` with clock, reads and machine | discharges what `MigrationRunner` takes from it |
| `JobObservation` | `executeEvent()` against an XYOps job | - |
| `MutationCall` | *abstract*: what one Logux mutation promises its caller | - |
| `LoguxMutation` | rename, secret creation and update, folder creation over `connection.ts` | refines `MutationCall`, which is what `MigrationRunner` takes a mutation for |
| `MigrationWorkflow` | workflow mode: the CLI, both workflows, the folders and other people | takes `MigrationRunner` for its last job |
| `SnapshotRead` | *abstract*: what one catalog read promises its caller | - |
| `CatalogSync` | `syncCatalog()` over `connection.ts` | refines `SnapshotRead`, which is what the barrier and the workflows take a read for |
| `MigrationReruns` | several runs into one folder, with the operator who follows `reconcileExecution()` | takes `MigrationRunner`'s report for what a job says |
| `MigrationFlow` | events mode: terminal, selection, plan, jobs, other people | takes `MigrationRunner` for its last job |
| `ConfirmedMigration` | *abstract*: what an operator may rely on in either mode | refined by `MigrationWorkflow` and by `MigrationFlow` |
| `MC*` | instances for TLC | one per detailed module above |
| `*Proofs` | theorems and their lemmas | extend their module; those of the reducer are in `MigrationRunnerProofs` |

### MigrationReducer

`stage`, `context` (the *set of fields* that are defined), `verdict`
(`terminalFailure` or `terminalSuccess`) and `effects` (those of the last
accepted event) are the reducer's state. An event the code ignores is a
stuttering step, so a guard is the condition of acceptance. `Transition` and
`Terminal` are the code's `transition()` and `terminal()`. Diagnostics,
durations and identifiers are left out. A slip of the code is written before the
definition it would replace, and is not part of any specification: each
property is checked to fail under one of them.

### MigrationRunner

A handler that only reads is one step: an event or a fault. A handler that
mutates sends (`Send*`), waits (`waiting`), and is answered (`*Answered`); in
between, and later still, the server may `Apply` or `Drop` the request. The
answer *confirmed* is possible only when the server has applied the mutation,
and a *definite rejection* of the import only when the server has not and will
not; a deadline or a lost connection is possible at any time. `Throw` is
`failureEvent()`: which event a fault becomes depends on the stage and the code.
The catalog shows a rename some time after it took effect
(`CatalogCatchesUp`), and an import that takes effect before that gets
Voiceflow's copy suffix (`copySuffix`). The server's actions are external: its
code is not in the repository.

`Cancellation` is an event of the reducer (and part of its own run), but the
runner has no source for it, so no action of `MigrationRunner` raises it.

### MigrationContract

Seven variables and four kinds of step: issue a mutation (each at most once, one
at a time, the import only once the collision has left the catalog), let it take
effect or lose it, and report. A report must be true when it is made and stay
true: "not-imported" needs the import neither done nor still open. The
refinement maps `sent` to `asked` and the settlement to the report.

### RenameBarrier

`now` counts ticks; timers fire when due or later, never earlier. Between two
awaits JavaScript runs to completion, so one action is what one answer, failure
or timer leads to up to the next await. `StartCycle`, `Unconfirmed`,
`ReadFailed`, `ReadAnswered` are the pieces of `runRenameAttemptCycle()`. A read
is two concurrent catalog syncs; a failed or timed-out read leaves its syncs in
flight, and `LateSync` lets them end later. `fault` is what went wrong last: the
code a read failed with, or the retry timer that could not be had
(`RetryTimerFails`), the only failure the barrier makes of its own. In production
the runner passes no abort signal; `Cancel` models callers that do.

### JobObservation

`mode` is whether the client streams. The job runs by itself: `RequestHandled`
may start it after `run_event` timed out, and `JobEnds` may never happen. A job
is known by its final code (`zero`, `other-success`, `failure`) and by what it
put out (`valid` envelope, readable but `foreign`, `unreadable`). The
configuration always sets the stream limits, so `poll` is the mode of other
callers of the client. The timer of a JSON request is cleared when its headers are
there, and its body is read without one: `BodyStalls` is a `run_event` or `get_job`
body that stops coming, and `stalled` the call that then waits for ever.

### LoguxMutation

One WebSocket and the operation that owns it. `socket`, `timer`, `cleaned`,
`terminal` and `subscriptionSent` are the connection's resources; `machine` and
`code` are the operation's state machine, and `outcome` is its promise. An
action is one callback with everything it calls, since JavaScript runs it to
completion: `SocketClose` is `onclose`, `emitTerminal()`, the machine's
transition, its effects, the settlement and the cleanup. A send may throw, and
then the terminal event is nested in the callback that sent (`SendThrows`). The
four operations are values of `op`: they differ in what ends the wait, in the
code a failure rejects with (`rejection`), and in that `updateSecret()` has no
machine (`"none"`). Names follow the machines, whose states agree except that
the rename ends in MUTATION_ACKNOWLEDGED.

A machine goes from SUBSCRIBING through SUBSCRIBED to MUTATION_SENT within one
callback, so SUBSCRIBED is no state between two actions. Frames that an
operation ignores are stutters; the numbers that correlate frames are the
question *which* "synced" it is, and two numbers are taken to differ
(`updateSecret()` draws both at random). The server repeats frames as often as
it likes; it confirms a mutation only if it has applied it, which is what the
repository expects of it.

### MutationCall

What the callers see of a mutation: it may be asked, decided at any time,
confirmed if it has taken effect, or reported as failed, which says nothing.
The refinement maps `outcome` to the report and `hasMachine` to whether it may be
asked more than once.

### MigrationWorkflow

Four processes. `planning` and `execution` are the two workflows as XYOps shows
them: status, current operation, data, fault. The CLI (`cli`) is
`performWorkflowMigration()` and what it calls, `startWorkflow()`,
`observeWorkflow()`, the confirmation and the secrets file. The fourth is the
rest of the world: the folders at Voiceflow, the one creation the migration may
have asked for (`request`), and other people who create, rename and delete
folders (external).

An operation is one action unless it awaits in between: `awaiting` is the point
`create_folder_workflow` and the import have reached (`EnsureFolder` looks and
sends, `CreateAnswered` and `CreateFails` end the wait, `VerifyFolder` and
`RecheckFolder` look again). The import job may fail before its import, after it, or
while it is on its way (`awaiting = "late"`, `LateImport`). `BodyStalls` is that of
`JobObservation`, for each request of the CLI. `ParsesAs` is the schemas of
`migration-workflow-data.ts` with their refinements. An operation begins with
the schema of its stage, so the step that hands data on (`Running`) also says
whether it is refused. `FolderViews` is what a read of the catalog shows: the
folder this run created may be missing. Names stand for their normalized form;
`Stripped` is what `normalizeFolderLabel()` makes of a label with something in
parentheses. The snapshots of workspaces and source projects do not change, and
`planID()` is taken to be injective. Which operation follows which is the graph
of the XYOps workflow, which the repository does not hold; the stages each
operation demands leave no other order.

The CLI's diagnostics are reduced to those that make a claim about the workflow:
"network" stands for whatever code the failed request itself gives (network,
timeout, http, api). `IsFinalJob` takes a running job for final only if get_job
says `completed: false` of it (`ActiveHasCompleted`), which XYOps decides.

### SnapshotRead and CatalogSync

`SnapshotRead` is all that `loadProjects()` and the others may rely on: the
catalog has versions, and an answer holds for each wanted type the rows of *some*
version since the question left, not of one version for all.

`CatalogSync` is the reducer of `catalog-state-machine.ts` with the callbacks of
`connection.ts`. A frame carries a size, a number of rows, the version at which
it was sent and whether it names a foreign workspace; `kept` says for each seen
type which frame its rows are of. The refinement reads the answer off `outcome`
and the versions off `kept`. Fields of a row are data and left out.

### MigrationReruns

The folder is a set of projects, each with a label: the source's name, an archive
name (minute and suffix) or a copy's. `shown` is what the catalog shows of it,
project by project. A job is what matters of a run: `LoadArchiveCandidates` with
the choice of a free name, the rename and its confirmation, the import, and the
three things a failed job can say of the import. What a job sent (`renames`,
`open`) outlives it. The operator observes and launches (`Observe`, `Launch`),
and XYOps starts one job at a time or refuses (`StartJob`, `RefuseRequest`).

A job that fails or dies before the catalog showed its rename sets `stray`:
the rename may then come at any later time, and two projects may come to bear one
name. The clock does not go back (summer time is not modelled), and nobody else
writes to the folder. Launching again on purpose after a completed run may import
beside an import the catalog does not show yet; Voiceflow then gives it a copy's
label, which the module allows.

### MigrationFlow

`performMigration()` in events mode. `step` is where the CLI is and `phase`
whether it waits for a job ("call") or for a line ("ask"). `typed` holds lines
that were typed before a question took them, as `cli/prompt.ts` does; a line says
whether it was typed with the plan on the screen (`informed`). A CR and an LF that
come apart are a blank line ahead. `choice` is `MigrationState`, `shown` the list
last printed, sorted by label. `creating` and `executing` are jobs that outlive
what the CLI knows of them, `importing` an import that outlives its job, and other people rename, delete and create folders
and delete versions in between (`folders`, `gone`). `Options` is the list that is
printed: a set of lists, since `localeCompare()` says nothing of the order of two
items with one label (`Precedes`, `Orders`).

`Executes` is the execution job: it imports and succeeds; it fails before the
import, or after it, in the stages of the secrets; or it fails while the import is
on its way, of which its diagnostic says that the outcome is unknown. `result` is what
it put out, "undiagnosed" standing for a job that failed, or was ended, without a
readable diagnostic. The verdicts tell apart what the operator reads:
"diagnosed" is the job's own diagnostic, "job" that the job failed or its answer
cannot be used, "unknown" and "http" that it was not answered, and "failed" a run
that ended before its execution. None of the first four says that nothing was
imported. A configured secrets file, or one whose path is typed, may be unreadable
(`LoadSecrets`, `AnswerSecrets`).

The items of the lists other than folders are found by their ID only; which
label a configured name matches there is pure lookup. One run is modelled; runs
after one another are `MigrationReruns`.

### ConfirmedMigration

Four variables: the plan that was confirmed, whether its migration is not
launched, open or over, what was imported, and what the CLI said at its end. A
plan is confirmed once and launched at most once, an import belongs to the
confirmed plan (`Fulfils`), and it may arrive after the CLI ended. "Done" may be
said only of an import that is there, "not done" only when there is none and
none can come, and "over" only when none can come any more, whether there is one or
not. Both modes map their verdicts to these (`Said`) and their job to
`Progress`: in workflow mode the migration is the execution workflow and its
import may name a folder that was created for the plan (`IsFor`); in events mode
it is the `execute_migration` job with the import it sent, and that import is the plan
itself. The job's own diagnostic maps to "over". A verdict
that claims nothing ("job", "unknown", "http", and in workflow mode "network" once the
launch was sent) maps to "unknown".

## 3. What is checked

| run | question | bounds | states |
|---|---|---|---|
| `migration_reducer` | Can any sequence of events break the reducer? `ContextComplete`: no stage lacks a result its type promises, so no cast lies; `SettlesWhenTerminal`; `StageOrder` | none, the state space is finite | 194 |
| `migration_runner` | Is the operator told the truth? `FailureIsHonest`, `SuccessIsComplete`, `NoCopySuffix`, `KeepsContract` (refinement: no mutation twice, one at a time, the report stays true), `EventuallySettles` | 2 secrets, any subset configured | 908 |
| `rename_barrier` | Does the barrier block, and does it stop in time? `ConfirmedMeansRenamed`, `MachineFollowsLoop`, `NeverGivesUpEarly`, `ReadsStartInTime`, `ConfirmationEnds` | 3 attempts, interval 2, deadline 6, clock to 8 | 34529 |
| `job_observation` | Does the CLI report what became of the job? `SuccessIsReal`, `VerdictsAreFinal`, `ReadsAreBounded`, `ObservationEnds` | 3 polls | 1047 |
| `logux_mutation` | Can callbacks, in any order, send twice, settle falsely, or leave a promise pending? `OneMutation`, `UnknownMeansSent`, `ImplementsCall` (refinement), `CallSettles` | `MaxSends` 2 (mutations of `updateSecret()`; the machines send one) | 127 |
| `catalog_sync` | Can a read be incomplete, too large, old, or never end? `CompleteOrNothing`, `ImplementsRead` (refinement: also the age of the rows), `ReadSettles` | 2 wanted types, sizes and rows 1 and 2, a frame of 1, 5 bytes, 3 rows, 2 changes | 1430 |
| `migration_workflow` | Is what was confirmed what is executed, and in the right folder? `ExecutesConfirmedPlan`, `FolderAsRequested`, `AcceptedByNextJob` (no operation refuses its predecessor's data, and no plan is stale), `ReportIsTrue`, `KeepsPromise` (refinement), `RunEnds` | 5 configuration files, 3 workspaces of which two share a name, 4 folder IDs, 3 labels, `MaxOthers` 2 | 636208 |
| `migration_reruns` | Does an operator who follows the decisions get what he wants and no more? `ImportsAreIntended`, `ConfirmedNamesAreUnique`, `ArchivedStaysArchived` | 4 projects, suffixes 0 and 1, 2 minutes, 4 launches | 245740 |
| `migration_flow` | Is what was shown what is used? `ExecutesWhatWasShown`, `FolderIsTheOneMeant`, `CreatesOnlyMissing`, `FailureIsFinal` (nothing is imported after it), `KeepsPromise` (refinement), `FlowProceeds` | 4 configuration files, 2 workspaces, projects and versions, 2 folder IDs, 3 names, 3 lines, 1 ahead, 2 steps of others | 1686800 |

Every module has one type invariant. `TypeOK` is part of its run; the others
(`ReducerTypeOK`, `BarrierTypeOK`, `ObservationTypeOK`, `LoguxTypeOK`,
`WorkflowTypeOK`, `CatalogTypeOK`, `RerunTypeOK`, `FlowTypeOK`) are theorems, and so are
properties that a run need not repeat because a refinement or a deeper property
in it already breaks with them: `OneMutationAtATime`, `NeverResent`,
`SettledByEffects`, `MachineAgrees`, `ResolvedMeansApplied`, `PendingIsGuarded`,
`SettledIsFinal`, `FreshSnapshot`, `NothingLeftToImport`.

Why the bounds suffice. Two secrets give one that is confirmed, one that fails,
and the question whether anything follows it. Three attempts and three polls
have a first, a middle and a last one, which is all the code's comparisons tell
apart. With interval 2 and deadline 6 quick reads use up the attempts and slow
ones the time; a clock to 8 lets timers be two ticks late. A second send by
`updateSecret()` is a repetition, and a third would be the same again. In the workflow two folders are
there, one of them of the requested name in another workspace, and two more may
come: the one the run asks for and one of somebody else, or two of somebody else,
which is the first time a name is ambiguous. Two steps of other people are a
creation and a deletion or a renaming of what was created, on either side of any
step of the job. The configuration files name a folder to be created, one that
is there, one whose name is never found, none, and a workspace that is not the
only one of its name. In a catalog read a
frame of size 2 is too large alone, five of size 1 fill the read and a sixth is
too much, two frames of two rows exceed three rows, and two changes of the catalog
put one before the question and one after it, or between two types. Four projects
hold the source's and one import more than two runs give; suffix 1 is the one free
name after a taken one, and with it the failure when both are taken; two minutes
make names collide or not; with four launches a migration can fail, be launched
again, complete, and be run again on purpose. In the events mode two folder IDs
allow one folder that is there and one that is made, by the run or by somebody
else; neither ID is a number of the list, as with Voiceflow's; three
names are one that is there, one that starts with a digit, and the confirmation.
Three lines are an answer, a repetition or a declined creation, and the
confirmation; one line ahead is the smallest number that reaches the question it
was not meant for. Nothing else is bounded, and the theorems of section 5 need no
bound at all.

Fairness. The specifications with a liveness property assume weak fairness of
the client's own steps (in `LoguxMutation` and `CatalogSync` of the start and the timer only; in `MigrationFlow` of taking a line that waits, of reading the secrets file, and of the deadline of a request's headers; in `MigrationWorkflow` of the CLI's requests and
its loop, not of the jobs, the operator or the failure of a `get_job`) and, in the barrier, of the clock. The code justifies it:
`requestBytes()` and `fetchSSE()` have a timer until they end, a Logux
connection has a timer, `readWithDeadline()` races each read, and the event loop
runs what is ready; `observeWorkflow()` leaves its loop at a deadline. No server, catalog or job owes anything.

`fetchJSON()` is the exception. `fetchRequest()` clears its timer when the headers
arrive, and the body, whether parsed or read for a diagnostic, is awaited without one.
So the modules of the CLI assume a deadline for the headers only: `BodyStalls` may
happen to any request that waits, after which nothing of the client is enabled. What
`ObservationEnds`, `RunEnds` and `FlowProceeds` say is therefore that nothing *else*
keeps the CLI waiting: it ends (or asks) or is held by a stalled body.

`CHECK_DEADLOCK FALSE` is set where the system really stops (a terminal reducer,
a finished call); `MigrationRunner` has a `Finished` step instead, so that any
other stop is reported.

## 4. Where code and documents disagree

Each run below checks one statement of the repository and ends with a
counterexample. The quotations are in `PROJECT.json`. The first three are listed
runs; the others are kept as configurations to run on demand, e.g.
`tlc -config MCMigrationFlow_IdsAreAccepted.cfg MCMigrationFlow` (the part of a
configuration's name before the `_` is its module).

| run or configuration | statement | what the code does |
|---|---|---|
| `unobserved_unknown` | network and timeout failures leave the outcome unknown | `observeWorkflow()` and `startWorkflow()` report the plain failure of the request |
| `plan_made_again` | execution makes the plan again and finds what was confirmed | without a configured schema the plan is for "13.1" and the execution for the version in the export; any other version is refused |
| `retry_is_safe` | an unknown import is not to be retried blindly | a 5xx of `run_event` is "http", a retryable failure, although the job may run |
| `MCJobObservation_DeadlineEndsPolling` | polling does not outlive its deadline | the body of a response is awaited without a timer, also past the deadline |
| `MCMigrationRunner_RetryabilityPreserved` | retryability is preserved | recomputed from the code of the fault |
| `MCMigrationRunner_UnknownSecretReported` | an unknown secret makes the outcome unknown | FAILED when the socket closed after sending |
| `MCMigrationWorkflow_CanonicalFolder` | names do not cross a boundary as IDs | `destination_folder` with the name of a missing folder stays in the selection as an ID, and planning ends NOT_FOUND instead of creating the folder |
| `MCMigrationWorkflow_ExactNamesResolved` | exact catalog names are resolved | a name that ends in parentheses is never found and its folder is created again |
| `MCMigrationWorkflow_SuccessMeansDone` | a job with `completed: false` is active | it counts as final, and "success" is printed |
| `MCCatalogSync_ResultScoped` | a catalog result is scoped to its workspace | only the first workspace named in a frame is compared, and a frame without one is accepted |
| `MCMigrationFlow_ExitTellsOutcome` | unexpected failures are not presented as success | input that ends at a question leaves the promise open, and the process exits with 0 |
| `MCMigrationFlow_ConfirmedAfterShown` | a migration requires explicit confirmation | a "yes" typed before the plan was printed confirms it |
| `MCMigrationFlow_IdsAreAccepted` | the operator may answer with a folder's ID | IDs are digits, and digits are taken for a number of the list |
| `MCMigrationFlow_CreatedWhenConfirmed` | a missing folder is created only when provisioning starts | a configured folder is created while the destination is selected |

More were met while modelling and have no counterexample of their own: the durability
timeout that is recorded as DEPENDENCY_FAILURE; UNKNOWN_OUTCOME although no
rename was sent; syncs of an abandoned catalog read that go on during the next; an
explicit failure of the plugin that polling reports as an unknown outcome; a
malformed get_job response that counts as a failed job after the stream; success
codes other than 0 on the stream; the rename
timeout rejected as DEPENDENCY_FAILURE; the durability machine that stays
ATTEMPTING when the last attempt fails; Logux machines that end FAILED, not
UNKNOWN_OUTCOME, on an error frame or a transport failure after the mutation was
sent; the timer that stays armed when the socket's constructor throws; folder
names that begin with a number of the list and are read as that number; declining
the creation of a configured folder, which ends the run; and the IDs of
`source_folder` and `source_project`, which never match a label.

## 5. What is proved

TLAPS checks every proof to the last leaf. The only assumptions are the named
ones on constants: `SecretsAssumption` (a finite set that does not hold
"rename", "import" or "nothing"), `BarrierAssumption` (positive limits, the
horizon after the deadline), `PollsAssumption` (at least one poll),
`MaxSendsAssumption` (at least one send), `WorkflowAssumption` (records are
what their parsers make of them, folder IDs are unique, `None` is no value),
`BoundsAssumption` (sizes, rows and limits are numbers), `WantedAssumption` (a read
wants something), `RerunBounds` (at least one project), and in events mode
`CatalogAssumption` (the catalog is finite, a project is in a workspace and a
version in a project, and no ID is empty), `InputAssumption` (what `parseInt()`
and the sorted list make of a name is a number, "yes" is no number) and
`ConfigAssumption` (a configuration is one the parser lets through).

* **Reducer** (`MigrationRunnerProofs`). `ReducerInv` is the conjunction of its three invariants, which
  together are inductive: `ContextComplete` needs the typing of `context` only,
  `SettlesWhenTerminal` needs that the verdict is recorded by `Terminal` alone.
  Two lemmas, `TransitionInv` and `TerminalInv`, cover all 21 actions.
* **Runner.** None of its properties is inductive: each speaks of what the
  *server* did and holds because of where the *client* was when it sent. `Inv`
  therefore says, for each stage, which effect is being executed (`EffectsFit`),
  what is awaited and what may be open (`WaitFits`), what has left the client
  (`SentFits`), which secrets are done (`SecretsFit`), and what the verdict says
  about the import (`VerdictFits`). The steps are proved by action; `SendInv`,
  `MoveInv`, `EndWithInv` and `ThrowInv` are the shapes the actions share. From
  it follow the six invariants, `SentOnce` and `Implements`: the initial states
  map to the contract's, and each step to a step of the contract or a stutter.
* **Barrier.** `BarrierInv` adds that an attempt is left while the retry timer
  runs, that a read shows the new name only if the catalog does, and that
  nothing is thrown before the end. `BarrierIsPatient` accounts for every code the
  barrier can end with: a permanent code is that of the last read (`fault`), and
  DEPENDENCY_FAILURE, which is also what a transient read failure carries, comes from
  the retry timer only.
* **Observation.** `ObservationInv` adds that the call has an outcome exactly
  when it is settled, that the final get_job is only sent for a job that ended,
  and that the polls sent are the attempts.
* **Logux.** `LoguxInv` adds what ties machine, connection and promise together
  (`Phases`: a pending promise and its machine are at the same point as the
  socket; a settled one is cleaned up or its terminal event is spent) and what
  has been sent at each point (`SendFits`). It gives the three invariants,
  `OneMutation`, `SettledIsFinal` and, step by step, the refinement of
  `MutationCall`.
* **Workflow.** `WorkflowInv` has a part per process. `PlanningInv`: a running
  planning job holds data its operation accepts, and a plan's ID is that of its
  selection. `CLIInv`: what the CLI holds at each step, so that nothing is started
  before the plan was confirmed. `ExecutionInv`: what the execution job holds in
  each operation, in terms of the confirmed plan, which is what makes
  `ExecutesConfirmedPlan` and `AcceptedByNextJob` inductive. `FolderInv`: every
  folder was issued its ID once, in one workspace; without it a folder of another
  workspace could come back under the ID of one that was deleted. All four
  invariants and `FolderAsRequested` follow. `ReportIsTrue` is proved, as it is
  checked, for an XYOps that gives no `completed` for an active job; without that
  it is false (`MCMigrationWorkflow_SuccessMeansDone`).

* **Catalog read.** `CatalogInv` ties machine, connection and promise together
  (`Phases`) and says where rows are, what bounds them and how old they are
  (`RowsFit`): they are kept only while collecting, within the limits, and each
  type's version lies between `asked` and `heard`. That last fact makes
  `GiveRows` of `SnapshotRead` possible when the last type arrives, and gives
  `FreshSnapshot`; all five properties and the refinement follow.
* **Reruns.** `RerunInv` has a part for each property. `Orderly`: at most one
  request or job at a time, none when the operator may launch, and imports only of
  jobs that were. `Room`: wherever a job could still begin, or has not sent its
  import, fewer imports are done or on their way than are intended; so the next
  one is one that was wanted. `Archives`: nothing but archive names is ever given
  to a project, which is why what a job archived stays archived though it is
  renamed again. `Unstray`: while every rename was seen, the catalog lacks at most
  imports, so a name that is free there is free.

* **Events mode.** `FlowInv` adds to the three invariants of the run what makes them
  hold from the first question on. `ChosenSoFar`: the fields of all questions
  passed are chosen, so the plan has every field. `FromCatalog`: each
  chosen ID and each line printed is of the catalog of its own field, so an ID
  chosen from one list is never one of another. `Asked`: what the question in hand
  printed and what was answered, which is all `FolderIsTheOneMeant` can rest on once
  the folders have changed. `Creation`: one folder is asked for, and nothing of
  it is open once a folder is chosen. `Execution`: at most one job or import is on
  its way, with the confirmed plan and only after it; a job that succeeded has
  imported, and one that gave its own diagnostic has left nothing on its way.
  `FailuresAreFinal` rests on the last: a run that ended before its execution imports
  nothing, then or later, and a job's diagnostic is given when all is over.
  `CreatesOnlyMissing` follows for each step.
* **One promise, two modes.** `FlowKeepsPromise` and `WorkflowKeepsPromise` map every
  step of either mode to a step of `ConfirmedMigration` or a stutter. Events mode
  needs `FlowInv` alone. Workflow mode needs beside `WorkflowInv` that nothing is
  confirmed before `Confirm` and nothing imported while the execution job runs
  (`LaunchInv`: a job with its import done has ended, and a late import comes after
  its job failed); the report is the one step that needs an XYOps that gives no
  `completed` for an active job, as `ReportIsTrue` does.

Only model-checked: the liveness properties (`EventuallySettles`,
`ConfirmationEnds`, `ObservationEnds`, `CallSettles`, `ReadSettles`, `RunEnds`,
`FlowProceeds`), which the prover cannot do, and the
counterexamples of section 4.

## 6. Not modelled

Next, in this order:

1. **CatalogPaths**: the paths in the labels of projects and folders, and what a
   configured name matches (`voiceflow/secrets.ts`, `voiceflow/catalog/options.ts`,
   `resolve-*.ts`); bounded inputs, a reference
   definition, no state.
2. **SSE framing**: events over any split of the bytes.

Left out, and why: the rest of the native plugin process is one sequence without
state (read, validate, dispatch, answer), whose only faults are errors that are
thrown, and tests reach each. Prompt wording and formatting are terminal I/O. The
parsing of rows, schemas other than those of the workflow data, redaction and
configuration parsing are values without state; the token is pure data; the plan
hash is taken to be injective, as a digest is meant to be. The server, XYOps and
the XYOps workflow graph are not in the repository and are external.
