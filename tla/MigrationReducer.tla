-------------------------- MODULE MigrationReducer --------------------------
(***************************************************************************)
(* The pure reducer of `execute_migration`:                                *)
(* src/xyops/voiceflow/execute-migration-state-machine.ts.                 *)
(*                                                                         *)
(* A state is the stage, the set of results the workflow context holds,    *)
(* the verdict a terminal transition recorded, and the effects that the    *)
(* last accepted event asked the runner to perform.  Every event kind of   *)
(* the code is an action; an event the code ignores is a stuttering step,  *)
(* so an action's guard is exactly the condition under which the reducer   *)
(* accepts the event.                                                      *)
(***************************************************************************)
EXTENDS Naturals, Sequences

VARIABLES
    stage,    \* state.stage
    context,  \* the fields of state.context that are defined
    verdict,  \* context.terminalFailure / terminalSuccess, or NoVerdict
    effects   \* transition.effects of the last accepted event

reducerVars == <<stage, context, verdict, effects>>

----------------------------------------------------------------------------
ActiveStages ==
    {"AUTHENTICATION", "EXPORT", "PLANNING", "ARCHIVE_PREFLIGHT", "ARCHIVE",
     "IMPORT", "SECRET_INPUT", "SECRET_RESOLUTION", "SECRET_CREATION"}
TerminalStages == {"COMPLETED", "FAILED", "UNKNOWN_OUTCOME", "CANCELLED"}
Stages == ActiveStages \cup TerminalStages

Fields == {"auth", "artifact", "plan", "archive", "imported", "secrets"}

ErrorCodes ==
    {"INVALID_ARGUMENT", "CONFIGURATION", "AUTHENTICATION_FAILED",
     "VOICEFLOW_LOGIN_REQUIRED", "NOT_FOUND", "DEPENDENCY_TIMEOUT",
     "DEPENDENCY_FAILURE", "PLAN_MISMATCH", "CONFIRMATION_REQUIRED",
     "IMPORT_OUTCOME_UNKNOWN", "INTERNAL_ERROR"}

\* The two phases of resolve-secrets are two effect names.
EffectKinds ==
    {"authenticate", "export", "plan", "load-archive-candidates", "rename",
     "confirm-archive-durability", "import", "resolve-secrets:input",
     "resolve-secrets:resolution", "create-next-secret",
     "abort-active-operation", "settle-success", "settle-failure"}

NoVerdict == [code |-> "", retryable |-> FALSE, stage |-> ""]
\* What a terminal transition records: the code of a success is "".
Verdicts == [code : ErrorCodes \cup {""}, retryable : BOOLEAN, stage : ActiveStages]

isTerminal(s) == s \in TerminalStages

\* The results MigrationStageContext says a state of each active stage holds.
StageFields ==
    [AUTHENTICATION    |-> {},
     EXPORT            |-> {"auth"},
     PLANNING          |-> {"auth", "artifact"},
     ARCHIVE_PREFLIGHT |-> {"auth", "artifact", "plan"},
     ARCHIVE           |-> {"auth", "artifact", "plan", "archive"},
     IMPORT            |-> {"auth", "artifact", "plan"},
     SECRET_INPUT      |-> {"auth", "artifact", "plan", "imported"},
     SECRET_RESOLUTION |-> {"auth", "artifact", "plan", "imported"},
     SECRET_CREATION   |-> {"auth", "artifact", "plan", "imported", "secrets"}]

----------------------------------------------------------------------------
\* transition(): go to an active stage with the context extended by `fields`.
Transition(from, to, fields, todo) ==
    /\ stage = from
    /\ stage' = to
    /\ context' = context \cup fields
    /\ effects' = todo
    /\ UNCHANGED verdict

\* A slip of terminal(): the failure forgets to ask for the settlement.
TerminalUnsettled(to, code, retryable, todo) ==
    /\ ~isTerminal(stage)
    /\ stage' = to
    /\ verdict' = [code |-> code, retryable |-> retryable, stage |-> stage]
    /\ effects' = IF to = "UNKNOWN_OUTCOME" THEN <<>> ELSE todo
    /\ UNCHANGED context

\* terminal(), behind the test of transitionMigrationWorkflow() that a
\* terminal state ignores every event.
Terminal(to, code, retryable, todo) ==
    /\ ~isTerminal(stage)
    /\ stage' = to
    /\ verdict' = [code |-> code, retryable |-> retryable, stage |-> stage]
    /\ effects' = todo
    /\ UNCHANGED context

ReducerInit ==
    /\ stage = "AUTHENTICATION"
    /\ context = {}
    /\ verdict = NoVerdict
    /\ effects = <<>>

----------------------------------------------------------------------------
\* Event "start": the state stays as it is.
Start == Transition("AUTHENTICATION", "AUTHENTICATION", {}, <<"authenticate">>)

AuthenticationSucceeded ==
    Transition("AUTHENTICATION", "EXPORT", {"auth"}, <<"export">>)

\* A slip: the artifact is not put in the context.
ExportForgotten == Transition("EXPORT", "PLANNING", {}, <<"plan">>)

ExportSucceeded ==
    Transition("EXPORT", "PLANNING", {"artifact"}, <<"plan">>)

\* The plan ID computed now equals the one the caller confirmed, or not.
PlanSucceeded(matches) ==
    IF matches
    THEN Transition("PLANNING", "ARCHIVE_PREFLIGHT", {"plan"},
                    <<"load-archive-candidates">>)
    ELSE /\ stage = "PLANNING"
         /\ Terminal("FAILED", "PLAN_MISMATCH", FALSE, <<"settle-failure">>)

PlanMismatch ==
    /\ stage = "PLANNING"
    /\ Terminal("FAILED", "PLAN_MISMATCH", FALSE, <<"settle-failure">>)

ArchiveRequired ==
    Transition("ARCHIVE_PREFLIGHT", "ARCHIVE", {"archive"}, <<"rename">>)

ArchiveNotNeeded ==
    Transition("ARCHIVE_PREFLIGHT", "IMPORT", {}, <<"import">>)

\* A slip: the acknowledged rename is taken for a durable one.
RenamedIsEnough == Transition("ARCHIVE", "IMPORT", {"archive"}, <<"import">>)

ArchiveRenamed ==
    Transition("ARCHIVE", "ARCHIVE", {"archive"}, <<"confirm-archive-durability">>)

\* A slip: confirmation renames again instead of importing.
ConfirmedRestarts ==
    Transition("ARCHIVE", "ARCHIVE_PREFLIGHT", {}, <<"load-archive-candidates">>)

ArchiveDurabilityConfirmed ==
    Transition("ARCHIVE", "IMPORT", {}, <<"import">>)

ImportSucceeded ==
    Transition("IMPORT", "SECRET_INPUT", {"imported"}, <<"resolve-secrets:input">>)

SecretInputResolved ==
    Transition("SECRET_INPUT", "SECRET_RESOLUTION", {}, <<"resolve-secrets:resolution">>)

SecretResolutionEmpty ==
    /\ stage = "SECRET_RESOLUTION"
    /\ Terminal("COMPLETED", "", FALSE, <<"settle-success">>)

SecretResolutionCompleted ==
    Transition("SECRET_RESOLUTION", "SECRET_CREATION", {"secrets"},
               <<"create-next-secret">>)

SecretCompleted(last) ==
    IF last
    THEN /\ stage = "SECRET_CREATION"
         /\ Terminal("COMPLETED", "", FALSE, <<"settle-success">>)
    ELSE Transition("SECRET_CREATION", "SECRET_CREATION", {}, <<"create-next-secret">>)

----------------------------------------------------------------------------
\* unknownOutcome(): each event is accepted in its own stage only.
ArchiveDurabilityUnknown ==
    /\ stage = "ARCHIVE"
    /\ Terminal("UNKNOWN_OUTCOME", "DEPENDENCY_FAILURE", TRUE, <<"settle-failure">>)

ImportUnknown ==
    /\ stage = "IMPORT"
    /\ Terminal("UNKNOWN_OUTCOME", "IMPORT_OUTCOME_UNKNOWN", TRUE, <<"settle-failure">>)

\* Events "secret-failed" and "secret-unknown" take the same branch.
SecretUnknown ==
    /\ stage = "SECRET_CREATION"
    /\ Terminal("UNKNOWN_OUTCOME", "DEPENDENCY_TIMEOUT", TRUE, <<"settle-failure">>)

\* failure(): accepted in every active stage.  Only AUTHENTICATION_FAILED is
\* not retryable, whatever the fault that raised the event said of itself.
DependencyFailure(code) ==
    Terminal("FAILED", code, code # "AUTHENTICATION_FAILED", <<"settle-failure">>)

Timeout == Terminal("FAILED", "DEPENDENCY_TIMEOUT", TRUE, <<"settle-failure">>)

ImportFailed == Terminal("FAILED", "DEPENDENCY_FAILURE", FALSE, <<"settle-failure">>)

Cancellation ==
    Terminal("CANCELLED", "INTERNAL_ERROR", FALSE,
             <<"abort-active-operation", "settle-failure">>)

----------------------------------------------------------------------------
ReducerNext ==
    \/ Start
    \/ AuthenticationSucceeded
    \/ ExportSucceeded
    \/ \E matches \in BOOLEAN : PlanSucceeded(matches)
    \/ PlanMismatch
    \/ ArchiveRequired
    \/ ArchiveNotNeeded
    \/ ArchiveRenamed
    \/ ArchiveDurabilityConfirmed
    \/ ImportSucceeded
    \/ SecretInputResolved
    \/ SecretResolutionEmpty
    \/ SecretResolutionCompleted
    \/ \E last \in BOOLEAN : SecretCompleted(last)
    \/ ArchiveDurabilityUnknown
    \/ ImportUnknown
    \/ SecretUnknown
    \/ \E code \in ErrorCodes : DependencyFailure(code)
    \/ Timeout
    \/ ImportFailed
    \/ Cancellation

\* The reducer alone, fed any event at any time.
ReducerSpec == ReducerInit /\ [][ReducerNext]_reducerVars

----------------------------------------------------------------------------
\* Type correctness of the reducer's state.
ReducerTypeOK ==
    /\ stage \in Stages
    /\ context \in SUBSET Fields
    /\ verdict \in Verdicts \cup {NoVerdict}
    /\ effects \in Seq(EffectKinds)

\* transition() casts its result to the union of stage states, which the
\* compiler cannot check: whatever events arrive, a state of a stage holds
\* every result the type of that stage promises, and a completed one holds
\* what the success settlement requires of it (requireArtifact, requirePlan,
\* requireImported), so no handler meets a missing result.
ContextComplete ==
    /\ stage \in ActiveStages => StageFields[stage] \subseteq context
    /\ stage = "COMPLETED" => {"artifact", "plan", "imported"} \subseteq context

\* A settlement is asked for exactly when the workflow has ended, it is the
\* last thing asked for, and it is a success exactly for COMPLETED; the
\* verdict is recorded by then and names an active stage.
SettlesWhenTerminal ==
    /\ isTerminal(stage) <=> verdict # NoVerdict
    /\ isTerminal(stage) =>
        /\ effects # <<>>
        /\ effects[Len(effects)] =
             IF stage = "COMPLETED" THEN "settle-success" ELSE "settle-failure"
    /\ ~isTerminal(stage) =>
        \A i \in DOMAIN effects : effects[i] \notin {"settle-success", "settle-failure"}

\* bdd/done/migration-workflow-state-machine.feature: no event moves the
\* workflow backward, and a stage never skips a required predecessor; the
\* only stage that may be skipped is ARCHIVE, and a stage that repeats
\* (ARCHIVE, SECRET_CREATION) repeats only itself.
Successors ==
    [AUTHENTICATION    |-> {"EXPORT"},
     EXPORT            |-> {"PLANNING"},
     PLANNING          |-> {"ARCHIVE_PREFLIGHT"},
     ARCHIVE_PREFLIGHT |-> {"ARCHIVE", "IMPORT"},
     ARCHIVE           |-> {"IMPORT"},
     IMPORT            |-> {"SECRET_INPUT"},
     SECRET_INPUT      |-> {"SECRET_RESOLUTION"},
     SECRET_RESOLUTION |-> {"SECRET_CREATION", "COMPLETED"},
     SECRET_CREATION   |-> {"COMPLETED"}]

\* Stages only move forward along Successors or into a terminal failure, and
\* a terminal stage is final: late events replace neither it nor its verdict.
StageOrder ==
    [][/\ isTerminal(stage) => UNCHANGED reducerVars
       /\ stage' # stage =>
            stage' \in Successors[stage] \cup {"FAILED", "UNKNOWN_OUTCOME", "CANCELLED"}
      ]_reducerVars

=============================================================================
