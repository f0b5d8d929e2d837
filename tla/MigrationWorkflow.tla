------------------------- MODULE MigrationWorkflow -------------------------
(***************************************************************************)
(* A migration in workflow mode, the CLI's default: performWorkflow-       *)
(* Migration() (xyops/cli/migration/index.ts) starts the planning          *)
(* workflow, observes it, asks the operator, and starts and observes the   *)
(* execution workflow.  A workflow is a chain of plugin jobs (xyops/       *)
(* voiceflow, *-workflow.ts, load-*.ts, resolve-*.ts) in which each job    *)
(* parses the data of the one before it (migration-workflow-data.ts).      *)
(*                                                                         *)
(* Meanwhile other people create, rename and delete folders, and a folder  *)
(* the migration asked for may come into being after the job stopped       *)
(* waiting.  Catalog snapshots of workspaces and source projects do not    *)
(* change here; a source that has gone is one of the faults a job may end  *)
(* with.  Names are compared after normalize(), so two names are one       *)
(* label when they differ in case or in the spaces around them.            *)
(***************************************************************************)
EXTENDS Naturals, FiniteSets

CONSTANTS
    Names,               \* every ID and label there may be
    WorkspaceRecords, ProjectRecords,
    FolderRecords,       \* the folders there are when the CLI starts
    FolderIDs, Labels,   \* the IDs and labels of folders
    Stripped,            \* a label without the "(...)" it may end with
    Configs,             \* the configuration files an operator may pass
    ExportedSchema,      \* version._version of the source's export
    ActiveHasCompleted,  \* get_job says `completed: false` of an active job
    MaxOthers,           \* what other people do to folders, at most
    None

VARIABLES
    config,     \* the configuration file
    cli,        \* [step, mode, plan, report]
    confirmed,  \* the plan the operator said yes to
    stalled,    \* the body of an answer has stopped coming
    planning,   \* the two workflow jobs:
    execution,  \*   [status, operation, data, fault]
    awaiting,   \* the point the execution job has reached, or an import it left
    folders,    \* the folders at Voiceflow
    issued,     \* [id, workspaceID] of every folder there ever was
    request,    \* the folder creation: [status, workspaceID, label, folder]
    imported,   \* the selection that was imported, or None
    others      \* steps of other people so far

cliVars == <<config, cli, confirmed, stalled>>
worldVars == <<folders, issued, request, imported, others>>
vars == <<cliVars, planning, execution, awaiting, worldVars>>

\* The records of the schemas.
Optional(S) == S \cup {None}
Files == [source_workspace : Optional(Names), source_project : Optional(Names),
          source_version : Optional(Names), destination_workspace : Optional(Names),
          destination_folder : Optional(Labels), by_path : BOOLEAN,
          target_schema_version : Optional(Names), secrets : BOOLEAN]
VersionRecords == [id : Names, label : Names, development : BOOLEAN]
Folders == [id : FolderIDs, label : Labels, workspaceID : Names]
Selections == [sourceWorkspaceID : Optional(Names), sourceProjectID : Optional(Names),
               sourceVersionID : Optional(Names), destinationWorkspaceID : Optional(Names),
               destinationFolderID : Optional(Names), targetSchemaVersion : Optional(Names)]
Creations == [workspaceID : Names, requestedPath : Labels]
MigrationPlans == [planID : Selections, selection : Selections,
                   creation : Optional(Creations)]

\* The records are what their parsers make of them, no two folders have one ID,
\* and None is none of the values it stands in for.
ASSUME WorkflowAssumption ==
    /\ WorkspaceRecords \subseteq [id : Names, label : Names]
    /\ ProjectRecords \subseteq [id : Names, label : Names, workspaceID : Names,
                                 versions : SUBSET VersionRecords]
    /\ FolderRecords \subseteq Folders
    /\ \A f \in FolderRecords, g \in FolderRecords : f.id = g.id => f = g
    /\ FolderIDs \cup Labels \cup {ExportedSchema} \subseteq Names
    /\ Configs \subseteq Files
    /\ None \notin Names \cup Creations \cup MigrationPlans \cup Selections
    /\ MaxOthers \in Nat

----------------------------------------------------------------------------
\* Catalog options: what a value of the configuration file may name.

\* A slip of selectFoldersInWorkspace(): every folder of the account.
FolderOptionsAnywhere(workspaceID, rows) ==
    {[value |-> f.id, label |-> f.label] : f \in rows}

FolderOptions(workspaceID, rows) ==
    {[value |-> f.id, label |-> f.label] : f \in {r \in rows : r.workspaceID = workspaceID}}

WorkspaceOptions == {[value |-> w.id, label |-> w.label] : w \in WorkspaceRecords}

\* The label projectOptions() makes, "... (id)", loses its "(id)" when compared.
ProjectOptions(workspaceID) ==
    {[value |-> p.id, label |-> p.label] :
        p \in {r \in ProjectRecords : r.workspaceID = workspaceID}}

Versions(workspaceID, projectID) ==
    UNION {p.versions : p \in {r \in ProjectRecords :
                                   r.workspaceID = workspaceID /\ r.id = projectID}}

\* The folders a requested name means: their labels are compared without a
\* trailing "(...)", the name itself as it is.
FoldersNamed(name, options) == {o.value : o \in {x \in options : Stripped[x.label] = name}}

\* What an option's value or label picks: an ID wins over every label.
Candidates(value, options) ==
    IF \E o \in options : o.value = value
    THEN {value}
    ELSE {o.value : o \in {x \in options : x.label = value}}
FolderCandidates(value, options) ==
    IF \E o \in options : o.value = value THEN {value} ELSE FoldersNamed(value, options)

\* The one candidate; no choice when there is none, or several.
Sole(candidates) == {c \in candidates : candidates = {c}}

\* Without source_version, a development draft: the first in the list.
VersionChoices(value, versions) ==
    IF value = None
    THEN {v.id : v \in {x \in versions : x.development}}
    ELSE Sole(Candidates(value, {[value |-> v.id, label |-> v.label] : v \in versions}))

\* planID(): SHA-256 of the canonical selection, taken to be injective.
PlanID(selection) == selection

----------------------------------------------------------------------------
\* Workflow data.
SourceKnown == {"SOURCE_RESOLVED", "SOURCE_SCHEMA_RESOLVED", "DESTINATION_CATALOG_LOADED",
                "DESTINATION_RESOLVED", "PLANNED", "EXECUTION_READY"}
DestinationKnown == {"DESTINATION_CATALOG_LOADED", "DESTINATION_RESOLVED", "PLANNED",
                     "EXECUTION_READY"}
Stages == SourceKnown \cup {"none", "CONFIGURED", "WORKSPACES_LOADED",
                            "SOURCE_CATALOG_LOADED", "CONFIRMED"}

NoSelection == [sourceWorkspaceID |-> None, sourceProjectID |-> None,
                sourceVersionID |-> None, destinationWorkspaceID |-> None,
                destinationFolderID |-> None, targetSchemaVersion |-> None]
NoData == [stage |-> "none", selection |-> NoSelection, folders |-> {},
           creation |-> None, planID |-> None, plan |-> None]

\* toWorkflowInput(): what the file says becomes the selection, names and all;
\* a destination_path leaves workspace and folder of the selection undefined.
ConfiguredData ==
    [NoData EXCEPT
        !.stage = "CONFIGURED",
        !.selection =
            [sourceWorkspaceID |-> config.source_workspace,
             sourceProjectID |-> config.source_project,
             sourceVersionID |-> config.source_version,
             destinationWorkspaceID |-> IF config.by_path THEN None ELSE config.destination_workspace,
             destinationFolderID |-> IF config.by_path THEN None ELSE config.destination_folder,
             targetSchemaVersion |-> config.target_schema_version]]

\* toExecutionWorkflowInput(): the confirmed handoff.
Handoff(plan) ==
    [NoData EXCEPT !.stage = "CONFIRMED", !.planID = plan.planID, !.plan = plan]

\* A folder or a creation: the refinement of three of the schemas.
HasDestination(selection, creation) ==
    selection.destinationFolderID # None \/ creation # None

\* PlannedSelectionSchema: all but the folder and the schema version.
Resolved(selection) ==
    /\ selection.sourceWorkspaceID # None /\ selection.sourceProjectID # None
    /\ selection.sourceVersionID # None /\ selection.destinationWorkspaceID # None

\* MigrationPlanSchema.
PlanParses(plan) ==
    /\ plan # None
    /\ Resolved(plan.selection) /\ HasDestination(plan.selection, plan.creation)

\* MigrationWorkflowDataSchema and ConfirmedMigrationHandoffSchema.
ParsesAs(data, stage) ==
    LET selection == data.selection
    IN  /\ data.stage = stage
        /\ stage \in SourceKnown \cup {"SOURCE_CATALOG_LOADED"} =>
               selection.sourceWorkspaceID # None
        /\ stage \in SourceKnown =>
               selection.sourceProjectID # None /\ selection.sourceVersionID # None
        /\ stage = "SOURCE_SCHEMA_RESOLVED" => selection.targetSchemaVersion # None
        /\ stage \in DestinationKnown => Resolved(selection)
        /\ stage = "DESTINATION_RESOLVED" => HasDestination(selection, data.creation)
        /\ stage \in {"PLANNED", "EXECUTION_READY", "CONFIRMED"} => PlanParses(data.plan)
        /\ stage = "PLANNED" => HasDestination(selection, data.plan.creation)
        /\ stage \in {"EXECUTION_READY", "CONFIRMED"} => data.planID = data.plan.planID
        /\ stage = "EXECUTION_READY" => selection = data.plan.selection

\* The stage each operation insists on, and the operation XYOps runs next.
Requires == [initialize_migration_workflow |-> "CONFIGURED",
             check_session_workflow |-> "CONFIGURED",
             load_workspaces |-> "CONFIGURED",
             load_source_catalog |-> "WORKSPACES_LOADED",
             resolve_source_selection |-> "SOURCE_CATALOG_LOADED",
             resolve_source_schema_workflow |-> "SOURCE_RESOLVED",
             load_destination_catalog |-> "SOURCE_SCHEMA_RESOLVED",
             resolve_destination_selection |-> "DESTINATION_CATALOG_LOADED",
             plan_migration_workflow |-> "DESTINATION_RESOLVED",
             initialize_execution_workflow |-> "CONFIRMED",
             create_folder_workflow |-> "EXECUTION_READY",
             execute_migration_workflow |-> "EXECUTION_READY"]
Operations == DOMAIN Requires

Successor == [initialize_migration_workflow |-> "check_session_workflow",
              check_session_workflow |-> "load_workspaces",
              load_workspaces |-> "load_source_catalog",
              load_source_catalog |-> "resolve_source_selection",
              resolve_source_selection |-> "resolve_source_schema_workflow",
              resolve_source_schema_workflow |-> "load_destination_catalog",
              load_destination_catalog |-> "resolve_destination_selection",
              resolve_destination_selection |-> "plan_migration_workflow",
              initialize_execution_workflow |-> "create_folder_workflow",
              create_folder_workflow |-> "execute_migration_workflow"]

\* The operations that talk to Voiceflow, each of which may fail at it.
Remote == {"check_session_workflow", "load_workspaces", "load_source_catalog",
           "resolve_source_schema_workflow", "load_destination_catalog",
           "create_folder_workflow", "execute_migration_workflow"}

Idle == [status |-> "none", operation |-> "none", data |-> NoData, fault |-> "none"]

\* mapVoiceflowEnvelope(): the result of a job is the data of the next one, a
\* fault ends the workflow.  Each operation begins with the schema of its stage
\* and refuses data of any other kind, which is part of the step that hands on.
Running(operation, data) ==
    LET accepted == ParsesAs(data, Requires[operation])
    IN  [status |-> IF accepted THEN "running" ELSE "failed",
         operation |-> operation, data |-> data,
         fault |-> IF accepted THEN "none" ELSE "INVALID_ARGUMENT"]
Advanced(job, data) == Running(Successor[job.operation], data)
Succeeded(job, data) == [job EXCEPT !.status = "succeeded", !.data = data]
Failed(job, fault) == [job EXCEPT !.status = "failed", !.fault = fault]

WorkflowInit ==
    /\ config \in Configs
    /\ cli = [step |-> "start_migration_workflow", mode |-> "stream", plan |-> None,
              report |-> "none"]
    /\ confirmed = None
    /\ stalled = FALSE
    /\ planning = Idle /\ execution = Idle
    /\ awaiting = "none"
    /\ folders = FolderRecords
    /\ issued = {[id |-> f.id, workspaceID |-> f.workspaceID] : f \in FolderRecords}
    /\ request = [status |-> "none", workspaceID |-> None, label |-> None, folder |-> None]
    /\ imported = None
    /\ others = 0

----------------------------------------------------------------------------
\* The planning workflow.
Plans(operation) ==
    /\ planning.status = "running" /\ planning.operation = operation
    /\ UNCHANGED <<cliVars, execution, awaiting, worldVars>>

\* initialize_migration_workflow and check_session_workflow hand on what they got.
HandOn == \E operation \in {"initialize_migration_workflow", "check_session_workflow"} :
    /\ Plans(operation)
    /\ planning' = Advanced(planning, planning.data)

LoadWorkspaces ==
    /\ Plans("load_workspaces")
    /\ planning' = Advanced(planning, [planning.data EXCEPT !.stage = "WORKSPACES_LOADED"])

LoadSourceCatalog ==
    /\ Plans("load_source_catalog")
    /\ LET choices == Sole(Candidates(config.source_workspace, WorkspaceOptions))
       IN  \/ \E id \in choices :
               planning' = Advanced(planning,
                   [planning.data EXCEPT !.stage = "SOURCE_CATALOG_LOADED",
                                         !.selection.sourceWorkspaceID = id])
           \/ choices = {} /\ planning' = Failed(planning, "CONFIGURATION")

ResolveSourceSelection ==
    /\ Plans("resolve_source_selection")
    /\ LET workspaceID == planning.data.selection.sourceWorkspaceID
           choices == Sole(Candidates(config.source_project, ProjectOptions(workspaceID)))
           versions(id) == VersionChoices(config.source_version, Versions(workspaceID, id))
       IN  \/ \E id \in choices : \E version \in versions(id) :
               planning' = Advanced(planning,
                   [planning.data EXCEPT !.stage = "SOURCE_RESOLVED",
                                         !.selection.sourceProjectID = id,
                                         !.selection.sourceVersionID = version])
           \/ /\ \A id \in choices : versions(id) = {}
              /\ planning' = Failed(planning, "CONFIGURATION")

ResolveSourceSchema ==
    /\ Plans("resolve_source_schema_workflow")
    /\ planning' = Advanced(planning,
           [planning.data EXCEPT
               !.stage = "SOURCE_SCHEMA_RESOLVED",
               !.selection.targetSchemaVersion = IF @ = None THEN ExportedSchema ELSE @])

\* What loadFolders() reads: the folders, without one this run created whose
\* catalog row has not come through yet.
FolderViews == {folders, {f \in folders : f.id # request.folder}}

LoadDestinationCatalog ==
    /\ Plans("load_destination_catalog")
    /\ LET choices == Sole(Candidates(config.destination_workspace, WorkspaceOptions))
       IN  \/ \E id \in choices, rows \in FolderViews :
               planning' = Advanced(planning,
                   [planning.data EXCEPT !.stage = "DESTINATION_CATALOG_LOADED",
                                         !.folders = rows,
                                         !.selection.destinationWorkspaceID = id])
           \/ choices = {} /\ planning' = Failed(planning, "CONFIGURATION")

\* A folder that is not there is to be created; `destinationFolderID` of the
\* selection is then left as it was, which toWorkflowInput() may have filled.
ResolveDestinationSelection ==
    /\ Plans("resolve_destination_selection")
    /\ LET workspaceID == planning.data.selection.destinationWorkspaceID
           found == FolderCandidates(config.destination_folder,
                                     FolderOptions(workspaceID, planning.data.folders))
           resolved == [planning.data EXCEPT !.stage = "DESTINATION_RESOLVED"]
       IN  IF config.destination_folder = None
           THEN planning' = Failed(planning, "CONFIGURATION")
           ELSE \/ /\ found = {}
                   /\ planning' = Advanced(planning,
                          [resolved EXCEPT !.creation =
                              [workspaceID |-> workspaceID,
                               requestedPath |-> config.destination_folder]])
                \/ \E id \in Sole(found) :
                       planning' = Advanced(planning,
                           [resolved EXCEPT !.selection.destinationFolderID = id])
                \/ /\ found # {} /\ Sole(found) = {}
                   /\ planning' = Failed(planning, "CONFIGURATION")

\* plannedLabels() looks the folder up; the other labels come from the
\* snapshots the IDs were taken from.
PlanMigration ==
    /\ Plans("plan_migration_workflow")
    /\ LET selection == planning.data.selection
           plan == [planID |-> PlanID(selection), selection |-> selection,
                    creation |-> planning.data.creation]
           listed == \E o \in FolderOptions(selection.destinationWorkspaceID,
                                            planning.data.folders) :
                         o.value = selection.destinationFolderID
       IN  planning' = IF selection.destinationFolderID = None \/ listed
                       THEN Succeeded(planning, [planning.data EXCEPT !.stage = "PLANNED",
                                                                      !.plan = plan])
                       ELSE Failed(planning, "NOT_FOUND")

----------------------------------------------------------------------------
\* The execution workflow.
Executes(operation, point) ==
    /\ execution.status = "running" /\ execution.operation = operation
    /\ awaiting = point
    /\ UNCHANGED <<cliVars, planning, folders, issued, others>>

InitializeExecution ==
    /\ Executes("initialize_execution_workflow", "none")
    /\ LET plan == execution.data.plan
       IN  execution' = Advanced(execution,
               [NoData EXCEPT !.stage = "EXECUTION_READY", !.planID = execution.data.planID,
                              !.plan = plan, !.selection = plan.selection])
    /\ UNCHANGED <<awaiting, request, imported>>

\* A slip of completedData(): the plan ID stays as it was.
CompletedDataSamePlanID(data, folderID) ==
    LET selection == [data.selection EXCEPT !.destinationFolderID = folderID]
    IN  [data EXCEPT !.selection = selection,
                     !.plan = [data.plan EXCEPT !.selection = selection, !.creation = None]]

\* completedData(): the folder's ID goes in, and the plan ID follows it.
CompletedData(data, folderID) ==
    LET selection == [data.selection EXCEPT !.destinationFolderID = folderID]
        nextPlanID == PlanID(selection)
    IN  [data EXCEPT !.planID = nextPlanID,
                     !.selection = selection,
                     !.plan = [planID |-> nextPlanID, selection |-> selection,
                               creation |-> None]]

Adopts(folderID) ==
    /\ execution' = Advanced(execution, CompletedData(execution.data, folderID))
    /\ awaiting' = "none"
    /\ UNCHANGED <<request, imported>>
Refuses(fault) ==
    /\ execution' = Failed(execution, fault)
    /\ awaiting' = "none"
    /\ UNCHANGED <<request, imported>>

\* resolveCurrentFolder(), with the rows of this read.
CurrentFolders(rows) ==
    LET creation == execution.data.plan.creation
    IN  FoldersNamed(creation.requestedPath, FolderOptions(creation.workspaceID, rows))

NeedsFolder(data) ==
    data.plan.creation # None /\ data.selection.destinationFolderID = None

FolderNotNeeded ==
    /\ Executes("create_folder_workflow", "none")
    /\ ~NeedsFolder(execution.data)
    /\ execution' = Advanced(execution, execution.data)
    /\ UNCHANGED <<awaiting, request, imported>>

\* ensureFolder(): the folder that has appeared meanwhile, or a creation.
\* create_folder may fail before it sends anything.
EnsureFolder ==
    /\ Executes("create_folder_workflow", "none")
    /\ NeedsFolder(execution.data)
    /\ \E rows \in FolderViews :
           LET found == CurrentFolders(rows)
           IN  \/ \E id \in Sole(found) : Adopts(id)
               \/ found # {} /\ Sole(found) = {} /\ Refuses("CONFIGURATION")
               \/ /\ found = {}
                  /\ \/ /\ awaiting' = "create"
                        /\ request' = [status |-> "sent",
                                       workspaceID |-> execution.data.plan.creation.workspaceID,
                                       label |-> execution.data.plan.creation.requestedPath,
                                       folder |-> None]
                     \/ awaiting' = "recheck" /\ UNCHANGED request
                  /\ UNCHANGED <<execution, imported>>

CreateAnswered ==
    /\ Executes("create_folder_workflow", "create")
    /\ request.status = "applied"
    /\ awaiting' = "verify"
    /\ UNCHANGED <<execution, request, imported>>

\* A timeout, a closed connection, a refusal: applied or not, now or later.
CreateFails ==
    /\ Executes("create_folder_workflow", "create")
    /\ awaiting' = "recheck"
    /\ UNCHANGED <<execution, request, imported>>

VerifyFolder ==
    /\ Executes("create_folder_workflow", "verify")
    /\ \E rows \in FolderViews :
           IF \E f \in rows : f.id = request.folder
           THEN Adopts(request.folder)
           ELSE Refuses("DEPENDENCY_FAILURE")

RecheckFolder ==
    /\ Executes("create_folder_workflow", "recheck")
    /\ \E rows \in FolderViews :
           LET found == CurrentFolders(rows)
           IN  \/ \E id \in Sole(found) : Adopts(id)
               \/ found = {} /\ Refuses("destination-folder-creation-uncertain")
               \/ found # {} /\ Sole(found) = {} /\ Refuses("CONFIGURATION")

\* execute_migration_workflow plans again on the catalog of the moment.
PlanFault(data, rows) ==
    LET selection == data.selection
        listed == \E o \in FolderOptions(selection.destinationWorkspaceID, rows) :
                      o.value = selection.destinationFolderID
    IN  IF selection.destinationFolderID = None THEN "INVALID_ARGUMENT"
        ELSE IF ~listed THEN "NOT_FOUND"
        ELSE IF PlanID(selection) # data.planID THEN "PLAN_MISMATCH"
        ELSE "none"

CheckPlan ==
    /\ Executes("execute_migration_workflow", "none")
    /\ \E rows \in FolderViews :
           LET fault == PlanFault(execution.data, rows)
           IN  \/ fault # "none" /\ Refuses(fault)
               \/ /\ fault = "none"
                  /\ awaiting' = "import"
                  /\ UNCHANGED <<execution, request, imported>>

\* The import and what follows it are the subject of MigrationRunner.  A job may
\* fail after its import, or while Voiceflow still works on it.
ImportEnds ==
    /\ Executes("execute_migration_workflow", "import")
    /\ execution' = Succeeded(execution, execution.data)
    /\ awaiting' = "none"
    /\ imported' = execution.data.selection
    /\ UNCHANGED request

ImportFails ==
    /\ Executes("execute_migration_workflow", "import")
    /\ execution' = Failed(execution, "DEPENDENCY_FAILURE")
    /\ \/ awaiting' = "none" /\ imported' \in {None, execution.data.selection}
       \/ awaiting' = "late" /\ UNCHANGED imported
    /\ UNCHANGED request

\* Session, catalog and export calls may fail, and so may the read after a
\* create_folder that failed.
Unavailable ==
    \/ \E operation \in Remote :
          Plans(operation) /\ planning' = Failed(planning, "DEPENDENCY_FAILURE")
    \/ \E operation \in Remote, point \in {"none", "verify", "recheck"} :
          Executes(operation, point) /\ Refuses("DEPENDENCY_FAILURE")

----------------------------------------------------------------------------
\* Voiceflow, and the other people of the workspace.
LateImport ==
    /\ awaiting = "late"
    /\ awaiting' = "none"
    /\ imported' = execution.data.selection
    /\ UNCHANGED <<cliVars, planning, execution, folders, issued, request, others>>

ChangesFolders == UNCHANGED <<cliVars, planning, execution, awaiting, imported>>

Fresh(id) == \A old \in issued : old.id # id

ApplyCreate ==
    /\ request.status = "sent"
    /\ \E id \in FolderIDs :
        /\ Fresh(id)
        /\ folders' = folders \cup {[id |-> id, label |-> request.label,
                                     workspaceID |-> request.workspaceID]}
        /\ issued' = issued \cup {[id |-> id, workspaceID |-> request.workspaceID]}
        /\ request' = [request EXCEPT !.status = "applied", !.folder = id]
    /\ ChangesFolders /\ UNCHANGED others

DropCreate ==
    /\ request.status = "sent"
    /\ request' = [request EXCEPT !.status = "dropped"]
    /\ ChangesFolders /\ UNCHANGED <<folders, issued, others>>

OthersAct ==
    /\ others < MaxOthers
    /\ others' = others + 1
    /\ ChangesFolders /\ UNCHANGED request

OtherCreates ==
    /\ OthersAct
    /\ \E id \in FolderIDs, label \in Labels, w \in WorkspaceRecords :
        /\ Fresh(id)
        /\ folders' = folders \cup {[id |-> id, label |-> label, workspaceID |-> w.id]}
        /\ issued' = issued \cup {[id |-> id, workspaceID |-> w.id]}

OtherDeletes ==
    /\ OthersAct
    /\ \E f \in folders : folders' = folders \ {f}
    /\ UNCHANGED issued

OtherRenames ==
    /\ OthersAct
    /\ \E f \in folders : \E label \in Labels \ {f.label} :
        folders' = (folders \ {f}) \cup {[f EXCEPT !.label = label]}
    /\ UNCHANGED issued

----------------------------------------------------------------------------
\* The CLI.
Ended(report) == [cli EXCEPT !.step = "done", !.report = report]
CLIActs == ~stalled /\ UNCHANGED <<stalled, awaiting, worldVars>>

\* startWorkflow(): its answer is the job's ID; without it the CLI ends with the
\* diagnostic of the request, whether the workflow was launched or not.
StartPlanning ==
    /\ cli.step = "start_migration_workflow"
    /\ LET job == Running("initialize_migration_workflow", ConfiguredData)
       IN  \/ planning' = job /\ cli' = [cli EXCEPT !.step = "observe_migration_workflow"]
           \/ planning' \in {Idle, job} /\ cli' = Ended("network")
    /\ CLIActs /\ UNCHANGED <<config, confirmed, execution>>

\* A slip: a launch without an answer is tried again.
StartExecutionRetried ==
    /\ cli.step = "start_execution_workflow"
    /\ LET job == Running("initialize_execution_workflow", Handoff(cli.plan))
       IN  \/ /\ execution' = job
              /\ cli' = [cli EXCEPT !.step = "observe_execution_workflow", !.mode = "stream"]
           \/ execution' \in {Idle, job} /\ UNCHANGED cli
    /\ CLIActs /\ UNCHANGED <<config, confirmed, planning>>

StartExecution ==
    /\ cli.step = "start_execution_workflow"
    /\ LET job == Running("initialize_execution_workflow", Handoff(cli.plan))
       IN  \/ /\ execution' = job
              /\ cli' = [cli EXCEPT !.step = "observe_execution_workflow", !.mode = "stream"]
           \/ execution' \in {Idle, job} /\ cli' = Ended("network")
    /\ CLIActs /\ UNCHANGED <<config, confirmed, planning>>

Observing == {"observe_migration_workflow", "observe_execution_workflow"}
ObservedJob == IF cli.step = "observe_migration_workflow" THEN planning ELSE execution

Observes(mode) ==
    /\ cli.step \in Observing
    /\ cli.mode = mode
    /\ CLIActs /\ UNCHANGED <<config, confirmed, planning, execution>>

\* What the CLI reads of the planning job: a plan to confirm, no data or that of
\* an earlier stage, or data that is no workflow data.
AfterPlanning(data) ==
    IF ParsesAs(data, "PLANNED") THEN [cli EXCEPT !.step = "confirm", !.plan = data.plan]
    ELSE IF ParsesAs(data, data.stage) /\ data.stage # "CONFIRMED" THEN Ended("planned")
    ELSE Ended("envelope")

\* A slip of performWorkflowMigration(): the code of the execution job unread.
ReadsIgnoringCode(job, data) ==
    IF cli.step = "observe_execution_workflow" THEN Ended("success")
    ELSE IF job.status = "failed" THEN Ended("job")
    ELSE AfterPlanning(data)

\* A job without a code counts as one that did not fail; a running job has none.
Reads(job, data) ==
    IF job.status = "failed" THEN Ended("job")
    ELSE IF cli.step = "observe_execution_workflow" THEN Ended("success")
    ELSE AfterPlanning(data)

\* The stream ends with the job's outcome; the response may leave the data out.
StreamEnds ==
    /\ Observes("stream")
    /\ ObservedJob.status \in {"succeeded", "failed"}
    /\ \E data \in {ObservedJob.data, NoData} : cli' = Reads(ObservedJob, data)

StreamFails ==
    /\ Observes("stream")
    /\ cli' = [cli EXCEPT !.mode = "poll"]

IsFinalJob(job) ==
    job.status \in {"succeeded", "failed"} \/ (ActiveHasCompleted /\ job.status = "running")

PollFinds ==
    /\ Observes("poll")
    /\ IsFinalJob(ObservedJob)
    /\ \E data \in {ObservedJob.data, NoData} :
           /\ ObservedJob.status = "running" => data = NoData
           /\ cli' = Reads(ObservedJob, data)

\* A get_job request that fails is not asked again.
PollFails ==
    /\ Observes("poll")
    /\ cli' = Ended("network")

\* fetchRequest() clears its timer with the headers: the body of a run_event or
\* get_job may never come, and nothing ends the wait for it.  A stream keeps its
\* timer; the get_job that follows it does not.
BodyStalls ==
    /\ \/ cli.step \in {"start_migration_workflow", "start_execution_workflow"}
       \/ cli.step \in Observing /\ cli.mode = "poll"
       \/ cli.step \in Observing /\ ObservedJob.status \in {"succeeded", "failed"}
    /\ stalled' = TRUE
    /\ UNCHANGED <<config, cli, confirmed, planning, execution, awaiting, worldVars>>

\* Two forms of the loop's end: never, and at the deadline.
PollDeadlineNever == cli.step = "none" /\ Observes("poll") /\ cli' = Ended("none")
PollDeadline ==
    /\ Observes("poll")
    /\ cli' = Ended("execute-outcome-unknown")

\* A slip of requestMigrationConfirmation(): Enter counts as yes.
GrantedByEnter(answer) == answer \in {"yes", ""}
Granted(answer) == answer = "yes"

Confirm ==
    /\ cli.step = "confirm"
    /\ \E answer \in {"yes", "no", ""} :
        /\ cli' = IF Granted(answer) THEN [cli EXCEPT !.step = "load_secrets"]
                                     ELSE Ended("aborted")
        /\ confirmed' = IF answer = "yes" THEN cli.plan ELSE None
    /\ CLIActs /\ UNCHANGED <<config, planning, execution>>

\* Only a configured secrets file can be unreadable here.
LoadSecrets ==
    /\ cli.step = "load_secrets"
    /\ \/ cli' = [cli EXCEPT !.step = "start_execution_workflow"]
       \/ config.secrets /\ cli' = Ended("configuration")
    /\ CLIActs /\ UNCHANGED <<config, confirmed, planning, execution>>

----------------------------------------------------------------------------
PlanningNext ==
    \/ HandOn \/ LoadWorkspaces \/ LoadSourceCatalog \/ ResolveSourceSelection
    \/ ResolveSourceSchema \/ LoadDestinationCatalog \/ ResolveDestinationSelection
    \/ PlanMigration
ExecutionNext ==
    \/ InitializeExecution \/ FolderNotNeeded \/ EnsureFolder \/ CreateAnswered
    \/ CreateFails \/ VerifyFolder \/ RecheckFolder \/ CheckPlan \/ ImportEnds \/ ImportFails
WorldNext == LateImport \/ ApplyCreate \/ DropCreate \/ OtherCreates \/ OtherDeletes \/ OtherRenames
CLINext ==
    \/ StartPlanning \/ StartExecution \/ StreamEnds \/ StreamFails \/ PollFinds
    \/ PollFails \/ PollDeadline \/ Confirm \/ LoadSecrets
WorkflowNext ==
    PlanningNext \/ ExecutionNext \/ Unavailable \/ WorldNext \/ CLINext \/ BodyStalls

\* The CLI's own steps come to pass: its stream, the headers of its requests and
\* the pauses between them have timers, and the polling loop a deadline.  Bodies
\* of answers, the jobs, the other people and the operator are owed nothing.
WorkflowFairness ==
    /\ WF_vars(StartPlanning) /\ WF_vars(StartExecution) /\ WF_vars(LoadSecrets)
    /\ WF_vars(StreamEnds \/ StreamFails)
    /\ WF_vars(PollFinds \/ PollDeadline)

WorkflowSpec == WorkflowInit /\ [][WorkflowNext]_vars
FairWorkflow == WorkflowSpec /\ WorkflowFairness

----------------------------------------------------------------------------
WorkflowData == [stage : Stages, selection : Selections, folders : SUBSET Folders,
                 creation : Optional(Creations), planID : Optional(Selections),
                 plan : Optional(MigrationPlans)]
Faults == {"none", "INVALID_ARGUMENT", "CONFIGURATION", "NOT_FOUND", "PLAN_MISMATCH",
           "DEPENDENCY_FAILURE", "destination-folder-creation-uncertain"}
Jobs == [status : {"none", "running", "succeeded", "failed"},
         operation : Operations \cup {"none"}, data : WorkflowData, fault : Faults]
Steps == Observing \cup {"start_migration_workflow", "start_execution_workflow", "confirm",
                         "load_secrets", "done"}
Reports == {"none", "planned", "envelope", "network", "job", "success", "aborted",
            "configuration", "execute-outcome-unknown"}

\* The jobs' data is workflow data, and the execution job waits inside an
\* operation only while that operation runs.
WorkflowTypeOK ==
    /\ config \in Configs
    /\ cli \in [step : Steps, mode : {"stream", "poll"}, plan : Optional(MigrationPlans),
                report : Reports]
    /\ confirmed \in Optional(MigrationPlans)
    /\ planning \in Jobs /\ execution \in Jobs
    /\ stalled \in BOOLEAN
    /\ awaiting \in {"none", "create", "verify", "recheck", "import", "late"}
    /\ awaiting \in {"create", "verify", "recheck"} =>
           execution.status = "running" /\ execution.operation = "create_folder_workflow"
    /\ awaiting = "import" =>
           execution.status = "running" /\ execution.operation = "execute_migration_workflow"
    /\ awaiting = "late" => execution.status = "failed"
    /\ folders \subseteq Folders
    /\ issued \subseteq [id : FolderIDs, workspaceID : Names]
    /\ request \in [status : {"none", "sent", "applied", "dropped"},
                    workspaceID : Optional(Names), label : Optional(Labels),
                    folder : Optional(FolderIDs)]
    /\ imported \in Optional(Selections)
    /\ others \in 0..MaxOthers

\* Nothing is created or imported but what the operator said yes to: the folder
\* of the plan, and its selection with at most the folder filled in; and that
\* folder belongs to the workspace of the plan, whatever others did to it.
ExecutesConfirmedPlan ==
    /\ request.status # "none" =>
           /\ confirmed # None
           /\ confirmed.creation = [workspaceID |-> request.workspaceID,
                                    requestedPath |-> request.label]
    /\ imported # None =>
           /\ confirmed # None
           /\ imported = [confirmed.selection EXCEPT
                             !.destinationFolderID = imported.destinationFolderID]
           /\ confirmed.selection.destinationFolderID \in {None, imported.destinationFolderID}
           /\ [id |-> imported.destinationFolderID,
               workspaceID |-> imported.destinationWorkspaceID] \in issued

\* A folder taken for a missing one is in the requested workspace and, unless
\* this run created it, carries the requested name: whoever created it, and
\* whether create_folder answered or not.
AdoptsRequestedFolder ==
    LET creation == execution.data.plan.creation
    IN  /\ execution.operation = "create_folder_workflow"
        /\ execution'.operation = "execute_migration_workflow"
        /\ execution.data.selection.destinationFolderID = None
        => \E f \in folders :
               /\ f.id = execution'.data.selection.destinationFolderID
               /\ f.workspaceID = creation.workspaceID
               /\ f.id = request.folder \/ Stripped[f.label] = creation.requestedPath
FolderAsRequested == [][AdoptsRequestedFolder]_vars

\* What one job returns the next one accepts, and the plan that is executed is
\* the plan its ID was made for.
AcceptedByNextJob ==
    \A job \in {planning, execution} : job.fault \notin {"INVALID_ARGUMENT", "PLAN_MISMATCH"}

\* What the CLI says at its end has happened: success means imported, failure
\* of a job means one failed, and otherwise that nothing was executed.
ReportIsTrue ==
    /\ cli.report = "success" => imported # None
    /\ cli.report = "job" => planning.status = "failed" \/ execution.status = "failed"
    /\ cli.report \in {"planned", "envelope", "aborted", "configuration"} =>
           execution.status = "none" /\ request.status = "none" /\ imported = None

\* The same promise as events mode's: a plan is confirmed once and launched at most
\* once, only its selection is imported, with at most the folder filled in, and what
\* the CLI says at its end stays true.
Said ==
    CASE cli.report = "none" -> "nothing"
      [] cli.report = "success" -> "done"
      [] cli.report = "job" /\ execution.status # "none" -> "unknown"
      [] cli.report \in {"network", "execute-outcome-unknown"} -> "unknown"
      [] OTHER -> "not done"
Progress ==
    CASE execution.status = "none" -> "none"
      [] execution.status = "running" \/ awaiting = "late" -> "open"
      [] OTHER -> "over"
IsFor(selection, plan) ==
    /\ selection = [plan.selection EXCEPT
                       !.destinationFolderID = selection.destinationFolderID]
    /\ plan.selection.destinationFolderID \in {None, selection.destinationFolderID}

Promise == INSTANCE ConfirmedMigration WITH
               AllPlans <- MigrationPlans, Fulfils <- IsFor, migration <- Progress, said <- Said
KeepsPromise == Promise!PromiseSpec

\* The CLI stops working by itself: it asks the operator, or it ends.  Only the
\* body of an answer that stops coming can keep it from either.
Waiting == cli.step \in {"confirm", "done"}
RunEnds == ~Waiting ~> (Waiting \/ stalled)

\* README.md:161: "display names are not sufficient to cross a boundary".  A
\* resolved destination is the ID of a folder, or none yet.
CanonicalFolder ==
    planning.data.stage = "DESTINATION_RESOLVED" =>
        LET folderID == planning.data.selection.destinationFolderID
        IN  folderID = None \/ \E f \in planning.data.folders : f.id = folderID

\* The help of the CLI: "Configured IDs or exact catalog names are resolved
\* before planning".  A folder that bears the configured name is not created
\* again.
ExactNamesResolved ==
    planning.data.creation # None =>
        \A f \in planning.data.folders :
            f.workspaceID = planning.data.creation.workspaceID =>
                f.label # planning.data.creation.requestedPath

\* xyops-job-observation-state-machine.feature:71: after a network or timeout
\* failure the outcome is unknown.  The CLI reports a plain network fault only
\* when nothing was executed.
UnobservedIsUnknown == cli.report = "network" => execution.status = "none"

\* The same feature, line 67: a job whose `completed` is false is active.
SuccessMeansDone == cli.report = "success" => execution.status = "succeeded"
=============================================================================
