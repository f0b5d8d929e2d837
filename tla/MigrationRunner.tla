-------------------------- MODULE MigrationRunner --------------------------
(***************************************************************************)
(* `execute_migration` as it runs: the reducer of MigrationReducer driven  *)
(* by the effect runner (execute_migration/effect-runner/runtime.ts and    *)
(* its handlers), against a Voiceflow server that may apply, refuse, lose  *)
(* or delay each mutation.                                                 *)
(*                                                                         *)
(* A handler that only reads is one step: the event it dispatches, or the  *)
(* fault it throws.  A handler that mutates is several: it sends, the      *)
(* server acts (or not), and the answer, a failure or the client's own     *)
(* deadline ends the wait.  Nothing but the server's reply tells the       *)
(* client what happened, and the server may act after the client gave up.  *)
(***************************************************************************)
EXTENDS MigrationReducer, FiniteSets

CONSTANT Secrets   \* names of the secrets a run may be configured with

ASSUME SecretsAssumption ==
    /\ IsFiniteSet(Secrets)
    /\ {"rename", "import", "nothing"} \cap Secrets = {}

VARIABLES
    settlement,  \* runtime.settlement
    fault,       \* the code of the OperationFault a handler threw, "" before
    waiting,     \* the mutation whose answer the handler awaits, or "nothing"
    pending,     \* secrets reconcileProjectSecrets has still to reconcile
    configured,  \* the secrets the run was given
    sent,        \* mutations that left the client
    open,        \* sent, and the server has not decided yet
    done,        \* mutations the server has applied
    collision,   \* the destination holds a project with the source's name
    visible,     \* the catalog shows that project under its archive name
    copySuffix   \* the server named the import "<name> (n)"

runnerVars == <<settlement, fault, waiting, pending, configured, sent>>
serverVars == <<open, done, collision, visible, copySuffix>>
vars == <<reducerVars, runnerVars, serverVars>>

----------------------------------------------------------------------------
Mutations == {"rename", "import"} \cup Secrets

NotSettled == [kind |-> "none", code |-> "", retryable |-> FALSE, stage |-> ""]
Settlements ==
    {NotSettled} \cup
    [kind : {"ok", "error"}, code : ErrorCodes \cup {""}, retryable : BOOLEAN,
     stage : ActiveStages]

\* The codes the handlers that only read may throw, by effect: what the auth,
\* export, planning, catalog, rename-barrier and secret-resolution modules
\* raise; an error that is no OperationFault becomes INTERNAL_ERROR.
Transport == {"DEPENDENCY_FAILURE", "DEPENDENCY_TIMEOUT"}
Faults ==
    [authenticate |-> {"AUTHENTICATION_FAILED"},
     export |-> Transport \cup {"INVALID_ARGUMENT"},
     plan |-> Transport \cup
              {"CONFIGURATION", "INVALID_ARGUMENT", "NOT_FOUND", "AUTHENTICATION_FAILED"},
     preflight |-> Transport \cup {"INVALID_ARGUMENT", "NOT_FOUND", "AUTHENTICATION_FAILED"},
     confirm |-> Transport \cup {"INVALID_ARGUMENT", "NOT_FOUND", "AUTHENTICATION_FAILED"},
     beforeImport |-> {"CONFIGURATION", "INVALID_ARGUMENT"},
     resolve |-> Transport \cup {"INTERNAL_ERROR", "AUTHENTICATION_FAILED"},
     secret |-> Transport \cup {"AUTHENTICATION_FAILED"}]

\* dispatchWorkflowFailure(): the event failureEvent() makes of a fault.
Throw(code) ==
    /\ fault' = code
    /\ CASE code = "IMPORT_OUTCOME_UNKNOWN" -> ImportUnknown
         [] stage = "ARCHIVE" /\ code \in Transport -> ArchiveDurabilityUnknown
         [] stage = "SECRET_CREATION" /\ code = "DEPENDENCY_TIMEOUT" -> SecretUnknown
         [] OTHER -> DependencyFailure(code)

\* The handler returns an event for the reducer.
Dispatch(Event) == Event /\ UNCHANGED fault

\* executeWorkflowEffects() is at the handler of `effect`, with nothing awaited.
Running(effect) ==
    /\ settlement = NotSettled
    /\ waiting = "nothing"
    /\ effects # <<>>
    /\ Head(effects) = effect

\* A handler that sends nothing: it ends in an event or in a fault.
Reads(effect, faults, Event) ==
    /\ Running(effect)
    /\ \/ Dispatch(Event)
       \/ \E code \in faults : Throw(code)
    /\ UNCHANGED <<settlement, waiting, configured, sent, serverVars>>

\* The mutation leaves the client.
Send(m) ==
    /\ waiting' = m
    /\ sent' = sent \cup {m}
    /\ open' = open \cup {m}
    /\ UNCHANGED <<reducerVars, settlement, fault, pending, configured,
                   done, collision, visible, copySuffix>>

\* The wait for m ends: the reducer takes an event.
EndWait(m) ==
    /\ waiting = m
    /\ waiting' = "nothing"
    /\ UNCHANGED <<settlement, configured, sent, serverVars>>

----------------------------------------------------------------------------
RunnerInit ==
    /\ ReducerInit
    /\ settlement = NotSettled
    /\ fault = ""
    /\ waiting = "nothing"
    /\ pending = {}
    /\ configured \in SUBSET Secrets
    /\ sent = {} /\ open = {} /\ done = {}
    /\ collision \in BOOLEAN
    /\ visible = FALSE
    /\ copySuffix = FALSE

\* runMigrationWorkflow() dispatches "start".
Begin ==
    /\ effects = <<>> /\ settlement = NotSettled
    /\ Start
    /\ UNCHANGED <<runnerVars, serverVars>>

Authenticate ==
    /\ Reads("authenticate", Faults.authenticate, AuthenticationSucceeded)
    /\ UNCHANGED pending

Export ==
    /\ Reads("export", Faults.export, ExportSucceeded)
    /\ UNCHANGED pending

Plan ==
    /\ Reads("plan", Faults.plan, \E matches \in BOOLEAN : PlanSucceeded(matches))
    /\ UNCHANGED pending

LoadArchiveCandidates ==
    /\ Reads("load-archive-candidates", Faults.preflight,
             \/ collision /\ ArchiveRequired
             \/ ~collision /\ ArchiveNotNeeded)
    /\ UNCHANGED pending

----------------------------------------------------------------------------
\* renameProject() rejects with DEPENDENCY_FAILURE however it fails: even its
\* deadline, since the reducer's settle effect rejects first.
RenameFault == "DEPENDENCY_FAILURE"

\* renameProject(): the socket may fail before the mutation is sent.
SendRename ==
    /\ Running("rename")
    /\ Send("rename")

RenameNotSent ==
    /\ Running("rename")
    /\ Throw(RenameFault)
    /\ UNCHANGED <<settlement, waiting, pending, configured, sent, serverVars>>

\* The mutation's "synced", an error frame, a closed socket or the deadline.
RenameAnswered ==
    /\ EndWait("rename")
    /\ \/ "rename" \in done /\ Dispatch(ArchiveRenamed)
       \/ Throw(RenameFault)
    /\ UNCHANGED pending

\* A slip: the confirmation does not look at the catalog.
ConfirmBlindly ==
    /\ Reads("confirm-archive-durability", Faults.confirm, ArchiveDurabilityConfirmed)
    /\ UNCHANGED pending

\* confirmProjectRename(), refined by RenameBarrier: it returns only when a
\* catalog read showed the archive name.
ConfirmArchiveDurability ==
    /\ Reads("confirm-archive-durability", Faults.confirm,
             visible /\ ArchiveDurabilityConfirmed)
    /\ UNCHANGED pending

----------------------------------------------------------------------------
SendImport ==
    /\ Running("import")
    /\ Send("import")

\* The schema version, the artifact or an identifier is refused before sending.
ImportNotSent ==
    /\ Running("import")
    /\ \E code \in Faults.beforeImport : Throw(code)
    /\ UNCHANGED <<settlement, waiting, pending, configured, sent, serverVars>>

\* A slip: a deadline or a lost connection is taken for a rejection.
ImportAnsweredDefinitely ==
    /\ EndWait("import")
    /\ \/ "import" \in done /\ Dispatch(ImportSucceeded)
       \/ Throw("DEPENDENCY_FAILURE")
    /\ UNCHANGED pending

\* A slip: the request has no deadline, so a lost one is awaited forever.
ImportAnsweredByServerOnly ==
    /\ EndWait("import")
    /\ \/ "import" \in done /\ Dispatch(ImportSucceeded)
       \/ "import" \notin done \cup open /\ Throw("DEPENDENCY_FAILURE")
    /\ UNCHANGED pending

\* importVersion(): a usable receipt, a definite rejection (a status outside
\* 2xx, 408, 429, 5xx and above), or any answer that proves nothing: the
\* deadline, a network error, a retryable status, an unusable body.
ImportAnswered ==
    /\ EndWait("import")
    /\ \/ "import" \in done /\ Dispatch(ImportSucceeded)
       \/ "import" \notin done \cup open /\ Throw("DEPENDENCY_FAILURE")
       \/ Throw("IMPORT_OUTCOME_UNKNOWN")
    /\ UNCHANGED pending

----------------------------------------------------------------------------
\* resolve-secrets, phase "input": reads nothing and cannot fail.
ResolveSecretInput ==
    /\ Reads("resolve-secrets:input", {}, SecretInputResolved)
    /\ UNCHANGED pending

\* resolve-secrets, phase "resolution": parses the secrets and resolves them.
ResolveSecrets ==
    /\ Reads("resolve-secrets:resolution", Faults.resolve,
             \/ configured = {} /\ SecretResolutionEmpty
             \/ configured # {} /\ SecretResolutionCompleted)
    /\ pending' = configured

\* reconcileProjectSecrets() sends one secret and awaits it; the order is that
\* of the configuration, which is any.
SendSecret ==
    /\ Running("create-next-secret")
    /\ \E s \in pending : Send(s)

\* The destination version, the existing secrets or the socket of the next
\* secret are not to be had.
SecretNotSent ==
    /\ Running("create-next-secret")
    /\ pending # {}
    /\ \E code \in Faults.secret : Throw(code)
    /\ UNCHANGED <<settlement, waiting, pending, configured, sent, serverVars>>

\* A slip: an unconfirmed secret is skipped and the next one is sent.
SecretSkipped(s) ==
    /\ EndWait(s)
    /\ pending' = pending \ {s}
    /\ UNCHANGED <<reducerVars, fault>>

\* A slip: a secret that was not confirmed is sent again.
SecretRetried(s) ==
    /\ EndWait(s)
    /\ \/ s \in done /\ pending' = pending \ {s} /\ UNCHANGED <<reducerVars, fault>>
       \/ UNCHANGED <<pending, reducerVars, fault>>

\* createSecret() or updateSecret() settles: confirmed, or failed in any way.
SecretAnswered(s) ==
    /\ EndWait(s)
    /\ \/ s \in done /\ pending' = pending \ {s} /\ UNCHANGED <<reducerVars, fault>>
       \/ UNCHANGED pending /\ \E code \in Transport : Throw(code)

AllSecretsReconciled ==
    /\ Running("create-next-secret")
    /\ pending = {}
    /\ SecretCompleted(TRUE)
    /\ UNCHANGED <<runnerVars, serverVars>>

----------------------------------------------------------------------------
\* The success envelope carries no error.
SettleSuccess ==
    /\ Running("settle-success")
    /\ settlement' = [kind |-> "ok", code |-> "", retryable |-> FALSE, stage |-> verdict.stage]
    /\ effects' = Tail(effects)
    /\ UNCHANGED <<stage, context, verdict, fault, waiting, pending, configured, sent, serverVars>>

\* failureCode(): what failureForState() keeps of a terminal code.
failureCode(code) ==
    IF code \in {"CONFIGURATION", "VOICEFLOW_LOGIN_REQUIRED", ""}
    THEN "DEPENDENCY_FAILURE" ELSE code

\* A slip: the failure names the terminal stage, not the one that failed.
SettleFailureAtEnd ==
    /\ Running("settle-failure")
    /\ settlement' = [kind |-> "error", code |-> failureCode(verdict.code),
                      retryable |-> verdict.retryable, stage |-> stage]
    /\ effects' = Tail(effects)
    /\ UNCHANGED <<stage, context, verdict, fault, waiting, pending, configured, sent, serverVars>>

\* failureForState(): the envelope names the stage that failed.
SettleFailure ==
    /\ Running("settle-failure")
    /\ settlement' = [kind |-> "error", code |-> failureCode(verdict.code),
                      retryable |-> verdict.retryable, stage |-> verdict.stage]
    /\ effects' = Tail(effects)
    /\ UNCHANGED <<stage, context, verdict, fault, waiting, pending, configured, sent, serverVars>>

----------------------------------------------------------------------------
\* The server, whose code is not in the repository.
Apply(m) ==
    /\ m \in open
    /\ open' = open \ {m}
    /\ done' = done \cup {m}
    /\ copySuffix' = (copySuffix \/ (m = "import" /\ collision /\ ~visible))
    /\ UNCHANGED <<reducerVars, runnerVars, collision, visible>>

\* A request is refused, or lost on the way.
Drop(m) ==
    /\ m \in open
    /\ open' = open \ {m}
    /\ UNCHANGED <<reducerVars, runnerVars, done, collision, visible, copySuffix>>

\* The catalog, eventually consistent, starts to show the archive name.
CatalogCatchesUp ==
    /\ "rename" \in done
    /\ ~visible
    /\ visible' = TRUE
    /\ UNCHANGED <<reducerVars, runnerVars, open, done, collision, copySuffix>>

----------------------------------------------------------------------------
ClientNext ==
    \/ Begin \/ Authenticate \/ Export \/ Plan \/ LoadArchiveCandidates
    \/ SendRename \/ RenameNotSent \/ RenameAnswered \/ ConfirmArchiveDurability
    \/ SendImport \/ ImportNotSent \/ ImportAnswered
    \/ ResolveSecretInput \/ ResolveSecrets
    \/ SendSecret \/ SecretNotSent \/ AllSecretsReconciled
    \/ \E s \in Secrets : SecretAnswered(s)
    \/ SettleSuccess \/ SettleFailure

ServerNext ==
    \/ \E m \in Mutations : Apply(m) \/ Drop(m)
    \/ CatalogCatchesUp

\* The promise is settled and the server has nothing left to do: the only way
\* for the system to stop, so every other stop is a deadlock.
Finished ==
    /\ settlement # NotSettled
    /\ open = {}
    /\ UNCHANGED vars

Next == ClientNext \/ ServerNext \/ Finished

Spec == RunnerInit /\ [][Next]_vars

\* Every await of the client ends: HTTP requests and sockets have deadlines,
\* and the event loop runs what is ready.  The server owes nothing.
FairSpec == Spec /\ WF_vars(ClientNext)
----------------------------------------------------------------------------
\* Type correctness of the runner and of the server it talks to.
TypeOK ==
    /\ ReducerTypeOK
    /\ settlement \in Settlements
    /\ fault \in ErrorCodes \cup {""}
    /\ waiting \in Mutations \cup {"nothing"}
    /\ pending \in SUBSET Secrets
    /\ configured \in SUBSET Secrets
    /\ sent \in SUBSET Mutations
    /\ open \in SUBSET Mutations
    /\ done \in SUBSET Mutations
    /\ collision \in BOOLEAN /\ visible \in BOOLEAN /\ copySuffix \in BOOLEAN

\* bdd/done/logux-rename-protocol.feature, "Prevent Voiceflow from applying
\* its automatic copy suffix": when the import takes effect, however late,
\* the catalog no longer shows the colliding name.
NoCopySuffix == ~copySuffix

\* The caller is not lied to: once execute_migration has failed with a code
\* that claims to know, at IMPORT or before, the import has not taken effect
\* and never will.  Only IMPORT_OUTCOME_UNKNOWN leaves the question open.
BeforeImport ==
    {"AUTHENTICATION", "EXPORT", "PLANNING", "ARCHIVE_PREFLIGHT", "ARCHIVE", "IMPORT"}
FailureIsHonest ==
    /\ settlement.kind = "error"
    /\ settlement.code # "IMPORT_OUTCOME_UNKNOWN"
    /\ settlement.stage \in BeforeImport
    => "import" \notin open \cup done

\* A success envelope means the import and every configured secret took
\* effect and nothing is still on its way.
SuccessIsComplete ==
    settlement.kind = "ok" =>
        /\ {"import"} \cup configured \subseteq done
        /\ open = {}

\* bdd/done/migration-workflow-state-machine.feature, "Create secrets
\* sequentially after import": while the run is active, nothing is on its way
\* but the mutation awaited, and a secret is only sent into a project that
\* was imported.
OneMutationAtATime ==
    /\ stage \in ActiveStages => open \subseteq {waiting}
    /\ sent \cap Secrets # {} => "import" \in done

\* A mutation is sent at most once, and none after the run has failed or the
\* promise has settled: no handler retries, no secret follows a failed one.
NeverResent ==
    [][waiting' # waiting /\ waiting' # "nothing" =>
         waiting' \notin sent /\ stage \in ActiveStages]_vars

\* runMigrationWorkflow() falls back to INTERNAL_ERROR when the effects ran
\* out before a settlement; they never do, and one settlement is final.
SettledByEffects ==
    /\ settlement # NotSettled <=> isTerminal(stage) /\ effects = <<>>
    /\ settlement # NotSettled =>
        settlement.kind = IF stage = "COMPLETED" THEN "ok" ELSE "error"

\* Every confirmed run settles, whatever the server does.
EventuallySettles == <>(settlement # NotSettled)

\* What the settlement tells the caller, in the words of MigrationContract.
Reported ==
    CASE settlement.kind = "none" -> "none"
      [] settlement.kind = "ok" -> "success"
      [] settlement.kind = "error" ->
           IF settlement.code = "IMPORT_OUTCOME_UNKNOWN" THEN "uncertain"
           ELSE IF settlement.stage \in BeforeImport THEN "not-imported"
           ELSE "incomplete"

Contract == INSTANCE MigrationContract WITH asked <- sent, report <- Reported

\* The run keeps the contract: every step of it is a step of the contract or
\* invisible there.
KeepsContract == Contract!ContractSpec

----------------------------------------------------------------------------
\* README.md: operation failures "preserve retryability at the boundary";
\* faults of these codes are raised as not retryable.
RetryabilityPreserved ==
    settlement.kind = "error" /\ fault \in {"NOT_FOUND", "INVALID_ARGUMENT", "CONFIGURATION"}
    => ~settlement.retryable

\* bdd/done/migration-workflow-state-machine.feature, @secrets: "When one
\* secret has an unknown outcome Then the workflow becomes UNKNOWN_OUTCOME".
UnknownSecretReported ==
    stage = "FAILED" => sent \cap pending \cap (open \cup done) = {}

============================================================================
