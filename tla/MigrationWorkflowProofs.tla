---------------------- MODULE MigrationWorkflowProofs ----------------------
(***************************************************************************)
(* Every invariant the run of MigrationWorkflow checks, and its action     *)
(* property, for any workspaces, folders and configuration files.  The     *)
(* inductive invariant has one part per process:                           *)
(*   PlanningInv   a running job holds data its operation accepts, and a   *)
(*                 plan's ID is that of its selection;                     *)
(*   CLIInv        what the CLI holds at each of its steps;                *)
(*   ExecutionInv  what the execution job holds in each operation, in      *)
(*                 terms of the confirmed plan;                            *)
(*   FolderInv     every folder, the one created included, was issued its  *)
(*                 ID once, in one workspace.                              *)
(***************************************************************************)
EXTENDS MigrationWorkflow, TLAPS

Refusals == {"INVALID_ARGUMENT", "PLAN_MISMATCH"}
WellPlanned(data) == data.plan # None => data.plan.planID = data.plan.selection

PlanningOK(job) ==
    /\ job \in Jobs
    /\ job.status = "running" => /\ job.operation \in Operations
                                 /\ ParsesAs(job.data, Requires[job.operation])
    /\ job.fault \notin Refusals
    /\ WellPlanned(job.data)
PlanningInv == PlanningOK(planning)

\* The execution job's data in its first and in its second operation, and what
\* a selection is in the last.
PlanOK(plan) == plan \in MigrationPlans /\ PlanParses(plan) /\ plan.planID = plan.selection
Ready(plan) == [NoData EXCEPT !.stage = "EXECUTION_READY", !.planID = plan.planID,
                              !.plan = plan, !.selection = plan.selection]
IsIssued(selection) == [id |-> selection.destinationFolderID,
                        workspaceID |-> selection.destinationWorkspaceID] \in issued

ExecutionData ==
    \/ /\ execution.operation = "initialize_execution_workflow"
       /\ execution.data = Handoff(confirmed)
    \/ /\ execution.operation = "create_folder_workflow"
       /\ execution.data = Ready(confirmed)
    \/ /\ execution.operation = "execute_migration_workflow"
       /\ IsFor(execution.data.selection, confirmed)
       /\ execution.data.selection.destinationFolderID # None
       /\ execution.data.planID = execution.data.selection

ExecutionInv ==
    /\ execution.fault \notin Refusals
    /\ execution.status = "none" => request.status = "none" /\ imported = None
    /\ execution.status # "none" => PlanOK(confirmed)
    /\ execution.status = "running" => ExecutionData
    /\ execution.status = "succeeded" => imported # None
    /\ execution.status = "running" => imported = None
    /\ awaiting \in {"create", "verify", "recheck"} => NeedsFolder(execution.data)
    /\ awaiting \in {"import", "late"} => IsIssued(execution.data.selection)
    /\ awaiting = "late" => /\ IsFor(execution.data.selection, confirmed)
                            /\ execution.data.selection.destinationFolderID # None
                            /\ imported = None
    /\ ExecutesConfirmedPlan

FolderInv ==
    /\ \A f \in folders : [id |-> f.id, workspaceID |-> f.workspaceID] \in issued
    /\ \A a \in issued, b \in issued : a.id = b.id => a = b
    /\ request.status # "none" => request.workspaceID \in Names /\ request.label \in Labels
    /\ request.status = "none" => request.folder = None
    /\ request.folder # None =>
           [id |-> request.folder, workspaceID |-> request.workspaceID] \in issued

CLIInv ==
    /\ cli.step \in {"confirm", "load_secrets", "start_execution_workflow"} => PlanOK(cli.plan)
    /\ cli.step \in {"load_secrets", "start_execution_workflow"} => confirmed = cli.plan
    /\ cli.step \notin {"observe_execution_workflow", "done"} => execution = Idle
    /\ cli.report # "none" => cli.step = "done"
    /\ cli.report \in {"planned", "envelope", "aborted", "configuration"} => execution = Idle
    /\ cli.report = "job" => planning.status = "failed" \/ execution.status = "failed"
    /\ cli.report = "success" => ActiveHasCompleted \/ execution.status = "succeeded"

WorkflowInv ==
    WorkflowTypeOK /\ PlanningInv /\ ExecutionInv /\ FolderInv /\ CLIInv

----------------------------------------------------------------------------
\* The tables of the workflow, looked up.
LEMMA Tables ==
    /\ Requires["initialize_migration_workflow"] = "CONFIGURED"
    /\ Requires["check_session_workflow"] = "CONFIGURED"
    /\ Requires["load_workspaces"] = "CONFIGURED"
    /\ Requires["load_source_catalog"] = "WORKSPACES_LOADED"
    /\ Requires["resolve_source_selection"] = "SOURCE_CATALOG_LOADED"
    /\ Requires["resolve_source_schema_workflow"] = "SOURCE_RESOLVED"
    /\ Requires["load_destination_catalog"] = "SOURCE_SCHEMA_RESOLVED"
    /\ Requires["resolve_destination_selection"] = "DESTINATION_CATALOG_LOADED"
    /\ Requires["plan_migration_workflow"] = "DESTINATION_RESOLVED"
    /\ Requires["initialize_execution_workflow"] = "CONFIRMED"
    /\ Requires["create_folder_workflow"] = "EXECUTION_READY"
    /\ Requires["execute_migration_workflow"] = "EXECUTION_READY"
    /\ Successor["initialize_migration_workflow"] = "check_session_workflow"
    /\ Successor["check_session_workflow"] = "load_workspaces"
    /\ Successor["load_workspaces"] = "load_source_catalog"
    /\ Successor["load_source_catalog"] = "resolve_source_selection"
    /\ Successor["resolve_source_selection"] = "resolve_source_schema_workflow"
    /\ Successor["resolve_source_schema_workflow"] = "load_destination_catalog"
    /\ Successor["load_destination_catalog"] = "resolve_destination_selection"
    /\ Successor["resolve_destination_selection"] = "plan_migration_workflow"
    /\ Successor["initialize_execution_workflow"] = "create_folder_workflow"
    /\ Successor["create_folder_workflow"] = "execute_migration_workflow"
BY DEF Requires, Successor

LEMMA OperationNames ==
    Operations = {"initialize_migration_workflow", "check_session_workflow", "load_workspaces",
                  "load_source_catalog", "resolve_source_selection",
                  "resolve_source_schema_workflow", "load_destination_catalog",
                  "resolve_destination_selection", "plan_migration_workflow",
                  "initialize_execution_workflow", "create_folder_workflow",
                  "execute_migration_workflow"}
BY DEF Operations, Requires

\* A job handed data it accepts runs on it.
LEMMA RunningAccepts ==
    ASSUME NEW operation \in Operations, NEW data \in WorkflowData,
           ParsesAs(data, Requires[operation])
    PROVE  /\ Running(operation, data) = [status |-> "running", operation |-> operation,
                                          data |-> data, fault |-> "none"]
           /\ Running(operation, data) \in Jobs
BY DEF Running, Jobs, Faults

LEMMA AdvancedOK ==
    ASSUME NEW job, NEW operation \in Operations, NEW data \in WorkflowData,
           Successor[job.operation] = operation,
           ParsesAs(data, Requires[operation]), WellPlanned(data)
    PROVE  PlanningOK(Advanced(job, data))
BY RunningAccepts DEF Advanced, PlanningOK, Refusals

LEMMA FailedOK ==
    ASSUME NEW job, PlanningOK(job), NEW fault \in Faults \ Refusals
    PROVE  PlanningOK(Failed(job, fault))
BY DEF PlanningOK, Failed, Jobs

LEMMA SoleMember == ASSUME NEW candidates, NEW c \in Sole(candidates)
                    PROVE  c \in candidates
BY DEF Sole

\* What is picked among options is the value of one of them.
LEMMA CandidateIsOption ==
    ASSUME NEW value, NEW options, NEW c \in Candidates(value, options)
    PROVE  \E o \in options : o.value = c
BY DEF Candidates

LEMMA FolderCandidateIsOption ==
    ASSUME NEW value, NEW options, NEW c \in FolderCandidates(value, options)
    PROVE  \E o \in options : o.value = c
BY DEF FolderCandidates, FoldersNamed
----------------------------------------------------------------------------
\* Each operation of the planning workflow returns data the next one accepts.
LEMMA HandOnOK == ASSUME PlanningInv, HandOn PROVE PlanningInv'
<1>1. PICK operation \in {"initialize_migration_workflow", "check_session_workflow"} :
         /\ Plans(operation)
         /\ planning' = Advanced(planning, planning.data)
  BY DEF HandOn
<1>2. planning.data \in WorkflowData /\ WellPlanned(planning.data)
  BY DEF PlanningInv, PlanningOK, Jobs
<1>3. Requires[operation] = "CONFIGURED" /\ Requires[Successor[operation]] = "CONFIGURED"
      /\ Successor[operation] \in Operations
  BY Tables, OperationNames
<1>4. ParsesAs(planning.data, "CONFIGURED")
  BY <1>1, <1>3 DEF Plans, PlanningInv, PlanningOK
<1>5. QED
  BY <1>1, <1>2, <1>3, <1>4, AdvancedOK DEF Plans, PlanningInv

LEMMA LoadWorkspacesOK == ASSUME PlanningInv, LoadWorkspaces PROVE PlanningInv'
<1> DEFINE data == [planning.data EXCEPT !.stage = "WORKSPACES_LOADED"]
<1>1. data \in WorkflowData /\ WellPlanned(data)
  BY DEF PlanningInv, PlanningOK, Jobs, WorkflowData, WellPlanned, Stages
<1>2. ParsesAs(data, "WORKSPACES_LOADED")
  BY DEF ParsesAs, PlanningInv, PlanningOK, Jobs, WorkflowData, SourceKnown, DestinationKnown
<1>3. QED
  BY <1>1, <1>2, Tables, OperationNames, AdvancedOK DEF LoadWorkspaces, Plans, PlanningInv

LEMMA LoadSourceCatalogOK == ASSUME PlanningInv, LoadSourceCatalog PROVE PlanningInv'
<1>1. CASE planning' = Failed(planning, "CONFIGURATION")
  BY <1>1, FailedOK DEF PlanningInv, Faults, Refusals
<1>2. ASSUME NEW id \in Sole(Candidates(config.source_workspace, WorkspaceOptions)),
             planning' = Advanced(planning,
                 [planning.data EXCEPT !.stage = "SOURCE_CATALOG_LOADED",
                                       !.selection.sourceWorkspaceID = id])
      PROVE  PlanningInv'
  <2> DEFINE data == [planning.data EXCEPT !.stage = "SOURCE_CATALOG_LOADED",
                                           !.selection.sourceWorkspaceID = id]
  <2>1. id \in Names /\ id # None
    <3>1. \E o \in WorkspaceOptions : o.value = id
      BY SoleMember, CandidateIsOption
    <3>2. QED
      BY <3>1, WorkflowAssumption DEF WorkspaceOptions
  <2>2. data \in WorkflowData /\ WellPlanned(data)
    BY <2>1 DEF PlanningInv, PlanningOK, Jobs, WorkflowData, WellPlanned, Stages,
                Selections, Optional
  <2>3. ParsesAs(data, "SOURCE_CATALOG_LOADED")
    BY <2>1 DEF ParsesAs, PlanningInv, PlanningOK, Jobs, WorkflowData, Selections,
                SourceKnown, DestinationKnown
  <2>4. QED
    BY <1>2, <2>2, <2>3, Tables, OperationNames, AdvancedOK
    DEF LoadSourceCatalog, Plans, PlanningInv
<1>3. QED
  BY <1>1, <1>2 DEF LoadSourceCatalog

LEMMA ResolveSourceSelectionOK ==
  ASSUME PlanningInv, ResolveSourceSelection PROVE PlanningInv'
<1> DEFINE workspaceID == planning.data.selection.sourceWorkspaceID
           choices == Sole(Candidates(config.source_project, ProjectOptions(workspaceID)))
           versions(id) == VersionChoices(config.source_version, Versions(workspaceID, id))
<1>1. CASE planning' = Failed(planning, "CONFIGURATION")
  BY <1>1, FailedOK DEF PlanningInv, Faults, Refusals
<1>2. ASSUME NEW id \in choices, NEW version \in versions(id),
             planning' = Advanced(planning,
                 [planning.data EXCEPT !.stage = "SOURCE_RESOLVED",
                                       !.selection.sourceProjectID = id,
                                       !.selection.sourceVersionID = version])
      PROVE  PlanningInv'
  <2> DEFINE data == [planning.data EXCEPT !.stage = "SOURCE_RESOLVED",
                                           !.selection.sourceProjectID = id,
                                           !.selection.sourceVersionID = version]
  <2>1. id \in Names
    <3>1. \E o \in ProjectOptions(workspaceID) : o.value = id
      BY SoleMember, CandidateIsOption
    <3>2. QED
      BY <3>1, WorkflowAssumption DEF ProjectOptions
  <2>2. version \in Names
    <3>1. Versions(workspaceID, id) \subseteq VersionRecords
      BY WorkflowAssumption DEF Versions
    <3>2. \E v \in Versions(workspaceID, id) : v.id = version
      <4>1. CASE config.source_version = None
        BY <4>1 DEF VersionChoices
      <4>2. CASE config.source_version # None
        <5> DEFINE options == {[value |-> v.id, label |-> v.label] :
                                   v \in Versions(workspaceID, id)}
        <5>1. version \in Sole(Candidates(config.source_version, options))
          BY <4>2 DEF VersionChoices
        <5>2. \E o \in options : o.value = version
          BY <5>1, SoleMember, CandidateIsOption
        <5>3. QED
          BY <5>2
      <4>3. QED
        BY <4>1, <4>2
    <3>3. QED
      BY <3>1, <3>2 DEF VersionRecords
  <2>3. id # None /\ version # None
    BY <2>1, <2>2, WorkflowAssumption
  <2>4. data \in WorkflowData /\ WellPlanned(data)
    BY <2>1, <2>2 DEF PlanningInv, PlanningOK, Jobs, WorkflowData, WellPlanned, Stages,
                      SourceKnown, Selections, Optional
  <2>5. ParsesAs(planning.data, "SOURCE_CATALOG_LOADED")
    BY Tables DEF ResolveSourceSelection, Plans, PlanningInv, PlanningOK
  <2>6. ParsesAs(data, "SOURCE_RESOLVED")
    BY <2>3, <2>5 DEF ParsesAs, PlanningInv, PlanningOK, Jobs, WorkflowData, Selections,
                      SourceKnown, DestinationKnown
  <2>7. QED
    BY <1>2, <2>4, <2>6, Tables, OperationNames, AdvancedOK
    DEF ResolveSourceSelection, Plans, PlanningInv
<1>3. QED
  BY <1>1, <1>2 DEF ResolveSourceSelection

LEMMA ResolveSourceSchemaOK == ASSUME PlanningInv, ResolveSourceSchema PROVE PlanningInv'
<1> DEFINE schema == IF planning.data.selection.targetSchemaVersion = None
                     THEN ExportedSchema ELSE planning.data.selection.targetSchemaVersion
           data == [planning.data EXCEPT !.stage = "SOURCE_SCHEMA_RESOLVED",
                                         !.selection.targetSchemaVersion = schema]
<1>1. schema \in Names
  BY WorkflowAssumption DEF PlanningInv, PlanningOK, Jobs, WorkflowData, Selections, Optional
<1>2. schema # None
  BY <1>1, WorkflowAssumption
<1>3. data \in WorkflowData /\ WellPlanned(data)
  BY <1>1 DEF PlanningInv, PlanningOK, Jobs, WorkflowData, WellPlanned, Stages,
              SourceKnown, Selections, Optional
<1>4. ParsesAs(planning.data, "SOURCE_RESOLVED")
  BY Tables DEF ResolveSourceSchema, Plans, PlanningInv, PlanningOK
<1>5. ParsesAs(data, "SOURCE_SCHEMA_RESOLVED")
  BY <1>2, <1>4 DEF ParsesAs, PlanningInv, PlanningOK, Jobs, WorkflowData, Selections,
                    SourceKnown, DestinationKnown
<1>6. planning' = Advanced(planning, data)
  BY DEF ResolveSourceSchema, PlanningInv, PlanningOK, Jobs, WorkflowData, Selections
<1>7. QED
  BY <1>3, <1>5, <1>6, Tables, OperationNames, AdvancedOK
  DEF ResolveSourceSchema, Plans, PlanningInv
\* A read of the catalog returns folders there are.
LEMMA ViewsAreFolders == ASSUME NEW rows \in FolderViews PROVE rows \subseteq folders
BY DEF FolderViews

LEMMA LoadDestinationCatalogOK ==
  ASSUME PlanningInv, folders \subseteq Folders, LoadDestinationCatalog PROVE PlanningInv'
<1>1. CASE planning' = Failed(planning, "CONFIGURATION")
  BY <1>1, FailedOK DEF PlanningInv, Faults, Refusals
<1>2. ASSUME NEW id \in Sole(Candidates(config.destination_workspace, WorkspaceOptions)),
             NEW rows \in FolderViews,
             planning' = Advanced(planning,
                 [planning.data EXCEPT !.stage = "DESTINATION_CATALOG_LOADED",
                                       !.folders = rows,
                                       !.selection.destinationWorkspaceID = id])
      PROVE  PlanningInv'
  <2> DEFINE data == [planning.data EXCEPT !.stage = "DESTINATION_CATALOG_LOADED",
                                           !.folders = rows,
                                           !.selection.destinationWorkspaceID = id]
  <2>1. id \in Names /\ id # None
    <3>1. \E o \in WorkspaceOptions : o.value = id
      BY SoleMember, CandidateIsOption
    <3>2. QED
      BY <3>1, WorkflowAssumption DEF WorkspaceOptions
  <2>2. data \in WorkflowData /\ WellPlanned(data)
    BY <2>1, ViewsAreFolders DEF PlanningInv, PlanningOK, Jobs, WorkflowData, WellPlanned,
                                 Stages, SourceKnown, Selections, Optional
  <2>3. ParsesAs(planning.data, "SOURCE_SCHEMA_RESOLVED")
    BY Tables DEF LoadDestinationCatalog, Plans, PlanningInv, PlanningOK
  <2>4. ParsesAs(data, "DESTINATION_CATALOG_LOADED")
    BY <2>1, <2>3 DEF ParsesAs, PlanningInv, PlanningOK, Jobs, WorkflowData, Selections,
                      Resolved, SourceKnown, DestinationKnown
  <2>5. QED
    BY <1>2, <2>2, <2>4, Tables, OperationNames, AdvancedOK
    DEF LoadDestinationCatalog, Plans, PlanningInv
<1>3. QED
  BY <1>1, <1>2 DEF LoadDestinationCatalog

LEMMA ResolveDestinationSelectionOK ==
  ASSUME WorkflowTypeOK, PlanningInv, ResolveDestinationSelection PROVE PlanningInv'
<1> DEFINE workspaceID == planning.data.selection.destinationWorkspaceID
           options == FolderOptions(workspaceID, planning.data.folders)
           found == FolderCandidates(config.destination_folder, options)
           resolved == [planning.data EXCEPT !.stage = "DESTINATION_RESOLVED"]
           creation == [workspaceID |-> workspaceID,
                        requestedPath |-> config.destination_folder]
<1>1. ParsesAs(planning.data, "DESTINATION_CATALOG_LOADED")
  BY Tables DEF ResolveDestinationSelection, Plans, PlanningInv, PlanningOK
<1>2. CASE planning' = Failed(planning, "CONFIGURATION")
  BY <1>2, FailedOK DEF PlanningInv, Faults, Refusals
<1>3. CASE /\ config.destination_folder # None
           /\ planning' = Advanced(planning, [resolved EXCEPT !.creation = creation])
  <2> DEFINE data == [resolved EXCEPT !.creation = creation]
  <2>1. creation \in Creations /\ creation # None
    <3>1. config.destination_folder \in Labels
      BY <1>3, WorkflowAssumption DEF WorkflowTypeOK, Files, Optional
    <3>2. workspaceID \in Names
      BY <1>1 DEF ParsesAs, Resolved, DestinationKnown, PlanningInv, PlanningOK, Jobs,
                  WorkflowData, Selections, Optional
    <3>3. QED
      BY <3>1, <3>2, WorkflowAssumption DEF Creations
  <2>2. data \in WorkflowData /\ WellPlanned(data)
    BY <2>1 DEF PlanningInv, PlanningOK, Jobs, WorkflowData, WellPlanned, Stages,
                SourceKnown, Optional
  <2>3. ParsesAs(data, "DESTINATION_RESOLVED")
    BY <1>1, <2>1, <2>2 DEF ParsesAs, PlanningInv, PlanningOK, Jobs, WorkflowData, Resolved,
                      HasDestination, SourceKnown, DestinationKnown
  <2>4. Successor[planning.operation] = "plan_migration_workflow"
    BY Tables DEF ResolveDestinationSelection, Plans
  <2> HIDE DEF data
  <2>5. PlanningOK(Advanced(planning, data))
    BY <2>2, <2>3, <2>4, Tables, OperationNames, AdvancedOK
  <2>6. QED
    BY <1>3, <2>5 DEF PlanningInv, data
<1>4. ASSUME NEW id \in Sole(found),
             planning' = Advanced(planning,
                             [resolved EXCEPT !.selection.destinationFolderID = id])
      PROVE  PlanningInv'
  <2> DEFINE data == [resolved EXCEPT !.selection.destinationFolderID = id]
  <2>1. id \in Names /\ id # None
    <3>1. \E o \in options : o.value = id
      BY SoleMember, FolderCandidateIsOption
    <3>2. planning.data.folders \subseteq Folders
      BY DEF PlanningInv, PlanningOK, Jobs, WorkflowData
    <3>3. QED
      BY <3>1, <3>2, WorkflowAssumption DEF FolderOptions, Folders
  <2>2. data \in WorkflowData /\ WellPlanned(data)
    BY <2>1 DEF PlanningInv, PlanningOK, Jobs, WorkflowData, WellPlanned, Stages,
                SourceKnown, Selections, Optional
  <2>3. ParsesAs(data, "DESTINATION_RESOLVED")
    BY <1>1, <2>1 DEF ParsesAs, PlanningInv, PlanningOK, Jobs, WorkflowData, Selections,
                      Resolved, HasDestination, SourceKnown, DestinationKnown
  <2>4. QED
    BY <1>4, <2>2, <2>3, Tables, OperationNames, AdvancedOK
    DEF ResolveDestinationSelection, Plans, PlanningInv
<1>5. QED
  BY <1>2, <1>3, <1>4 DEF ResolveDestinationSelection

LEMMA PlanMigrationOK == ASSUME PlanningInv, PlanMigration PROVE PlanningInv'
<1> DEFINE selection == planning.data.selection
           plan == [planID |-> PlanID(selection), selection |-> selection,
                    creation |-> planning.data.creation]
           data == [planning.data EXCEPT !.stage = "PLANNED", !.plan = plan]
<1>1. CASE planning' = Failed(planning, "NOT_FOUND")
  BY <1>1, FailedOK DEF PlanningInv, Faults, Refusals
<1>2. CASE planning' = Succeeded(planning, data)
  <2>1. plan \in MigrationPlans
    BY DEF PlanningInv, PlanningOK, Jobs, WorkflowData, MigrationPlans, PlanID
  <2>2. data \in WorkflowData /\ WellPlanned(data)
    BY <2>1 DEF PlanningInv, PlanningOK, Jobs, WorkflowData, WellPlanned, Stages,
                SourceKnown, Optional, PlanID
  <2>3. QED
    BY <1>2, <2>2 DEF Succeeded, PlanningInv, PlanningOK, Jobs
<1>3. QED
  BY <1>1, <1>2 DEF PlanMigration

\* The planning workflow keeps its invariant, whatever operation it is at.
LEMMA PlanningStep ==
  ASSUME WorkflowTypeOK, PlanningInv, PlanningNext PROVE PlanningInv'
BY HandOnOK, LoadWorkspacesOK, LoadSourceCatalogOK, ResolveSourceSelectionOK,
   ResolveSourceSchemaOK, LoadDestinationCatalogOK, ResolveDestinationSelectionOK,
   PlanMigrationOK
DEF PlanningNext, WorkflowTypeOK
----------------------------------------------------------------------------
\* The initial states.
LEMMA NoDataIsData == NoData \in WorkflowData
BY DEF NoData, NoSelection, WorkflowData, Stages, Selections, Optional

LEMMA IdleIsJob == Idle \in Jobs
BY NoDataIsData DEF Idle, Jobs, Faults

LEMMA WorkflowInitInv == WorkflowInit => WorkflowInv
<1> SUFFICES ASSUME WorkflowInit
             PROVE  WorkflowInv
  OBVIOUS
<1>1. WorkflowTypeOK
  <2>1. stalled \in BOOLEAN
    BY DEF WorkflowInit
  <2>2. QED
    BY <2>1, IdleIsJob, WorkflowAssumption
    DEF WorkflowInit, WorkflowTypeOK, Steps, Reports, Optional, Folders
<1>2. PlanningInv
  BY IdleIsJob DEF WorkflowInit, PlanningInv, PlanningOK, Idle, NoData, WellPlanned, Refusals
<1>3. ExecutionInv
  BY DEF WorkflowInit, ExecutionInv, ExecutesConfirmedPlan, Idle, Refusals
<1>4. FolderInv
  <2>1. \A f \in folders : [id |-> f.id, workspaceID |-> f.workspaceID] \in issued
    BY DEF WorkflowInit
  <2>2. \A a \in issued, b \in issued : a.id = b.id => a = b
    BY WorkflowAssumption DEF WorkflowInit
  <2>3. QED
    BY <2>1, <2>2 DEF WorkflowInit, FolderInv
<1>5. CLIInv
  BY DEF WorkflowInit, CLIInv
<1>6. QED
  BY <1>1, <1>2, <1>3, <1>4, <1>5 DEF WorkflowInv

\* A step of the planning workflow disturbs nothing else.
LEMMA PlanningStepInv ==
  ASSUME WorkflowInv,
         \/ PlanningNext
         \/ \E operation \in Remote :
                Plans(operation) /\ planning' = Failed(planning, "DEPENDENCY_FAILURE")
  PROVE  WorkflowInv'
<1>1. /\ planning.status = "running"
      /\ UNCHANGED <<cliVars, execution, awaiting, worldVars>>
  BY DEF PlanningNext, HandOn, LoadWorkspaces, LoadSourceCatalog, ResolveSourceSelection,
         ResolveSourceSchema, LoadDestinationCatalog, ResolveDestinationSelection,
         PlanMigration, Plans
<1>2. PlanningInv'
  <2>1. CASE PlanningNext
    BY <2>1, PlanningStep DEF WorkflowInv
  <2>2. CASE planning' = Failed(planning, "DEPENDENCY_FAILURE")
    BY <2>2, FailedOK DEF WorkflowInv, PlanningInv, Faults, Refusals
  <2>3. QED
    BY <2>1, <2>2
<1>3. WorkflowTypeOK'
  BY <1>1, <1>2 DEF WorkflowInv, WorkflowTypeOK, PlanningInv, PlanningOK, cliVars, worldVars
<1>4. ExecutionInv' /\ FolderInv'
  BY <1>1 DEF WorkflowInv, ExecutionInv, FolderInv, ExecutionData, ExecutesConfirmedPlan,
              IsIssued, cliVars, worldVars
<1>5. CLIInv'
  BY <1>1 DEF WorkflowInv, CLIInv, cliVars, worldVars
<1>6. QED
  BY <1>2, <1>3, <1>4, <1>5 DEF WorkflowInv
----------------------------------------------------------------------------
\* The execution workflow.
LEMMA HandoffParses ==
  ASSUME NEW plan, PlanOK(plan)
  PROVE  Handoff(plan) \in WorkflowData /\ ParsesAs(Handoff(plan), "CONFIRMED")
<1>1. Handoff(plan) \in WorkflowData
  BY NoDataIsData DEF Handoff, PlanOK, MigrationPlans, WorkflowData, Stages, Optional
<1>2. ParsesAs(Handoff(plan), "CONFIRMED")
  BY DEF Handoff, NoData, PlanOK, ParsesAs, SourceKnown, DestinationKnown
<1>3. QED
  BY <1>1, <1>2

LEMMA ReadyParses ==
  ASSUME NEW plan, PlanOK(plan)
  PROVE  Ready(plan) \in WorkflowData /\ ParsesAs(Ready(plan), "EXECUTION_READY")
<1>1. Ready(plan) \in WorkflowData
  BY NoDataIsData DEF Ready, PlanOK, MigrationPlans, WorkflowData, Stages, SourceKnown, Optional
<1>2. ParsesAs(Ready(plan), "EXECUTION_READY")
  BY DEF Ready, NoData, PlanOK, PlanParses, Resolved, ParsesAs, SourceKnown, DestinationKnown
<1>3. QED
  BY <1>1, <1>2

\* The folder filled in.
LEMMA CompletedParses ==
  ASSUME NEW plan, PlanOK(plan), NEW folderID \in FolderIDs
  PROVE  LET data == CompletedData(Ready(plan), folderID)
         IN  /\ data \in WorkflowData
             /\ ParsesAs(data, "EXECUTION_READY")
             /\ data.selection = [plan.selection EXCEPT !.destinationFolderID = folderID]
             /\ data.selection.destinationFolderID = folderID
             /\ data.planID = data.selection
<1> DEFINE selection == [plan.selection EXCEPT !.destinationFolderID = folderID]
           filled == [planID |-> selection, selection |-> selection, creation |-> None]
           data == [NoData EXCEPT !.stage = "EXECUTION_READY", !.planID = selection,
                                  !.plan = filled, !.selection = selection]
<1>1. folderID \in Names /\ folderID # None
  BY WorkflowAssumption
<1>2. plan.selection \in Selections
  BY DEF PlanOK, MigrationPlans
<1>3. selection \in Selections /\ selection.destinationFolderID = folderID
  BY <1>1, <1>2 DEF Selections, Optional
<1>4. filled \in MigrationPlans /\ filled # None
  BY <1>3, WorkflowAssumption DEF MigrationPlans, Optional
<1>5. Resolved(selection)
  BY <1>2 DEF PlanOK, PlanParses, Resolved, Selections
<1>6. data \in WorkflowData
  BY <1>3, <1>4, NoDataIsData DEF WorkflowData, Stages, SourceKnown, Optional
<1>7. CompletedData(Ready(plan), folderID) = data
  BY DEF CompletedData, Ready, NoData, PlanID
<1>8. ParsesAs(data, "EXECUTION_READY")
  BY <1>1, <1>3, <1>4, <1>5
  DEF ParsesAs, PlanParses, HasDestination, Resolved, NoData, SourceKnown, DestinationKnown
<1>9. data.selection = selection /\ data.planID = selection
  BY DEF NoData
<1>10. QED
  BY <1>3, <1>6, <1>7, <1>8, <1>9
\* While the execution job runs the CLI observes it, or has ended without
\* saying more than it knows.
LEMMA CLIUndisturbed ==
  ASSUME WorkflowInv, execution.status = "running", UNCHANGED <<cliVars, planning>>
  PROVE  CLIInv'
BY DEF WorkflowInv, CLIInv, Idle, cliVars

\* What is left of the invariant to show for a step of the execution job.
LEMMA ExecutionStep ==
  ASSUME WorkflowInv, execution.status = "running",
         UNCHANGED <<cliVars, planning, folders, issued, others>>,
         execution' \in Jobs,
         awaiting' \in {"none", "create", "verify", "recheck", "import", "late"},
         awaiting' \in {"create", "verify", "recheck"} =>
             execution'.status = "running" /\ execution'.operation = "create_folder_workflow",
         awaiting' = "import" =>
             execution'.status = "running" /\ execution'.operation = "execute_migration_workflow",
         awaiting' = "late" => execution'.status = "failed",
         UNCHANGED request,
         imported' \in Optional(Selections),
         ExecutionInv'
  PROVE  WorkflowInv'
<1>1. WorkflowTypeOK'
  BY DEF WorkflowInv, WorkflowTypeOK, cliVars
<1>2. PlanningInv' /\ FolderInv'
  BY DEF WorkflowInv, PlanningInv, FolderInv
<1>3. CLIInv'
  BY CLIUndisturbed
<1>4. QED
  BY <1>1, <1>2, <1>3 DEF WorkflowInv

LEMMA RefusesInv ==
  ASSUME WorkflowInv, execution.status = "running",
         UNCHANGED <<cliVars, planning, folders, issued, others>>,
         NEW fault \in Faults \ Refusals, Refuses(fault)
  PROVE  WorkflowInv'
<1>1. execution' \in Jobs /\ execution'.status = "failed" /\ execution'.fault = fault
  BY DEF Refuses, Failed, Jobs, WorkflowInv, WorkflowTypeOK
<1>2. /\ awaiting' = "none" /\ UNCHANGED <<request, imported>>
      /\ imported \in Optional(Selections)
  BY DEF Refuses, WorkflowInv, WorkflowTypeOK
<1>3. ExecutionInv'
  BY <1>1, <1>2 DEF WorkflowInv, ExecutionInv, ExecutesConfirmedPlan, cliVars
<1>4. QED
  BY <1>1, <1>2, <1>3, ExecutionStep

LEMMA AdvancedExecution ==
  ASSUME NEW operation \in Operations, NEW data \in WorkflowData,
         Successor[execution.operation] = operation, ParsesAs(data, Requires[operation])
  PROVE  Advanced(execution, data) = [status |-> "running", operation |-> operation,
                                      data |-> data, fault |-> "none"]
BY RunningAccepts DEF Advanced

LEMMA InitializeExecutionInv ==
  ASSUME WorkflowInv, InitializeExecution PROVE WorkflowInv'
<1>1. /\ execution.status = "running" /\ awaiting' = "none"
      /\ execution.operation = "initialize_execution_workflow"
      /\ UNCHANGED <<cliVars, planning, folders, issued, others, request, imported>>
  BY DEF InitializeExecution, Executes
<1>2. execution.data = Handoff(confirmed) /\ PlanOK(confirmed)
  BY <1>1 DEF WorkflowInv, ExecutionInv, ExecutionData
<1>3. execution' = Advanced(execution, Ready(confirmed))
  <2>1. execution.data.plan = confirmed /\ execution.data.planID = confirmed.planID
    BY <1>2 DEF Handoff, NoData
  <2>2. QED
    BY <2>1 DEF InitializeExecution, Ready
<1>4. execution' = [status |-> "running", operation |-> "create_folder_workflow",
                    data |-> Ready(confirmed), fault |-> "none"]
  BY <1>1, <1>2, <1>3, ReadyParses, Tables, OperationNames, AdvancedExecution
<1>5. execution' \in Jobs
  BY <1>2, <1>4, ReadyParses, OperationNames DEF Jobs, Faults
<1>6. ExecutionInv'
  BY <1>1, <1>2, <1>4
  DEF WorkflowInv, ExecutionInv, ExecutionData, ExecutesConfirmedPlan, Refusals, cliVars
<1>7. imported' \in Optional(Selections)
  BY <1>1 DEF WorkflowInv, WorkflowTypeOK
<1>8. QED
  BY <1>1, <1>4, <1>5, <1>6, <1>7, ExecutionStep

\* In create_folder_workflow the job holds the confirmed plan.
LEMMA FolderJob ==
  ASSUME WorkflowInv, execution.status = "running",
         execution.operation = "create_folder_workflow"
  PROVE  /\ PlanOK(confirmed) /\ confirmed \in MigrationPlans /\ confirmed # None
         /\ execution.data = Ready(confirmed)
         /\ execution.data.plan = confirmed
         /\ execution.data.selection = confirmed.selection
         /\ execution.data.planID = confirmed.selection
<1>1. PlanOK(confirmed) /\ execution.data = Ready(confirmed)
  BY DEF WorkflowInv, ExecutionInv, ExecutionData
<1>2. QED
  BY <1>1 DEF Ready, NoData, PlanOK, PlanParses

LEMMA FolderNotNeededInv ==
  ASSUME WorkflowInv, FolderNotNeeded PROVE WorkflowInv'
<1>1. /\ execution.status = "running" /\ awaiting' = "none"
      /\ execution.operation = "create_folder_workflow"
      /\ UNCHANGED <<cliVars, planning, folders, issued, others, request, imported>>
      /\ execution' = Advanced(execution, execution.data)
      /\ ~NeedsFolder(execution.data)
  BY DEF FolderNotNeeded, Executes
<1>2. execution' = [status |-> "running", operation |-> "execute_migration_workflow",
                    data |-> Ready(confirmed), fault |-> "none"]
  BY <1>1, FolderJob, ReadyParses, Tables, OperationNames, AdvancedExecution
<1>3. execution' \in Jobs
  BY <1>1, <1>2, FolderJob, ReadyParses, OperationNames DEF Jobs, Faults
<1>4. confirmed.selection.destinationFolderID # None
  BY <1>1, FolderJob DEF NeedsFolder, PlanOK, PlanParses, HasDestination
<1>5. IsFor(confirmed.selection, confirmed)
  BY <1>1, FolderJob DEF IsFor, PlanOK, MigrationPlans, Selections
<1>6. ExecutionData'
  <2>1. /\ execution'.operation = "execute_migration_workflow"
        /\ execution'.data.selection = confirmed.selection
        /\ execution'.data.planID = confirmed.selection
    <3>1. execution'.data = execution.data
      BY <1>1, <1>2, FolderJob
    <3>2. QED
      BY <1>1, <1>2, <3>1, FolderJob
  <2>2. UNCHANGED confirmed
    BY <1>1 DEF cliVars
  <2>3. QED
    BY <1>4, <1>5, <2>1, <2>2 DEF ExecutionData, IsFor
<1>7. ExecutionInv'
  BY <1>1, <1>2, <1>6, FolderJob
  DEF WorkflowInv, ExecutionInv, ExecutesConfirmedPlan, Refusals, cliVars
<1>8. imported' \in Optional(Selections)
  BY <1>1 DEF WorkflowInv, WorkflowTypeOK
<1>9. QED
  BY <1>1, <1>2, <1>3, <1>7, <1>8, ExecutionStep
\* The folder a name means is there, in the workspace and under the name.
LEMMA CurrentFolderIsNamed ==
  ASSUME NEW rows \in FolderViews, NEW id \in Sole(CurrentFolders(rows))
  PROVE  \E f \in folders : /\ f.id = id
                            /\ f.workspaceID = execution.data.plan.creation.workspaceID
                            /\ Stripped[f.label] = execution.data.plan.creation.requestedPath
<1> DEFINE creation == execution.data.plan.creation
<1>1. id \in FoldersNamed(creation.requestedPath, FolderOptions(creation.workspaceID, rows))
  BY SoleMember DEF CurrentFolders
<1>2. PICK o \in FolderOptions(creation.workspaceID, rows) :
         o.value = id /\ Stripped[o.label] = creation.requestedPath
  BY <1>1 DEF FoldersNamed
<1>3. QED
  BY <1>2, ViewsAreFolders DEF FolderOptions

LEMMA AdoptsInv ==
  ASSUME WorkflowInv, execution.status = "running",
         execution.operation = "create_folder_workflow", NeedsFolder(execution.data),
         UNCHANGED <<cliVars, planning, folders, issued, others>>,
         NEW folderID \in FolderIDs, Adopts(folderID)
  PROVE  WorkflowInv'
<1> DEFINE data == CompletedData(Ready(confirmed), folderID)
<1>1. PlanOK(confirmed) /\ execution.data = Ready(confirmed)
  BY FolderJob
<1>2. /\ data \in WorkflowData /\ ParsesAs(data, "EXECUTION_READY")
      /\ data.selection = [confirmed.selection EXCEPT !.destinationFolderID = folderID]
      /\ data.selection.destinationFolderID = folderID
      /\ data.planID = data.selection
  BY <1>1, CompletedParses
<1> HIDE DEF data
<1>3. execution' = Advanced(execution, data)
  BY <1>1 DEF Adopts, data
<1>4. execution' = [status |-> "running", operation |-> "execute_migration_workflow",
                    data |-> data, fault |-> "none"]
  BY <1>2, <1>3, Tables, OperationNames, AdvancedExecution
<1>5. execution' \in Jobs
  BY <1>2, <1>4, OperationNames DEF Jobs, Faults
<1>6. confirmed.selection.destinationFolderID = None
  BY FolderJob DEF NeedsFolder
<1>7. IsFor(data.selection, confirmed)
  BY <1>2, <1>6 DEF IsFor
<1>8. folderID # None
  BY WorkflowAssumption
<1>9. awaiting' = "none" /\ UNCHANGED <<request, imported, confirmed>>
  BY DEF Adopts, cliVars
<1>10. ExecutionData'
  BY <1>2, <1>4, <1>7, <1>8, <1>9 DEF ExecutionData, IsFor
<1>11. ExecutionInv'
  BY <1>1, <1>4, <1>9, <1>10 DEF WorkflowInv, ExecutionInv, ExecutesConfirmedPlan, Refusals
<1>12. imported' \in Optional(Selections)
  BY <1>9 DEF WorkflowInv, WorkflowTypeOK
<1>13. QED
  BY <1>4, <1>5, <1>9, <1>11, <1>12, ExecutionStep

LEMMA EnsureFolderInv == ASSUME WorkflowInv, EnsureFolder PROVE WorkflowInv'
<1>1. /\ execution.status = "running"
      /\ execution.operation = "create_folder_workflow"
      /\ UNCHANGED <<cliVars, planning, folders, issued, others>>
      /\ NeedsFolder(execution.data)
  BY DEF EnsureFolder, Executes
<1>2. PICK rows \in FolderViews :
         LET found == CurrentFolders(rows)
         IN  \/ \E id \in Sole(found) : Adopts(id)
             \/ found # {} /\ Sole(found) = {} /\ Refuses("CONFIGURATION")
             \/ /\ found = {}
                /\ \/ /\ awaiting' = "create"
                      /\ request' = [status |-> "sent",
                                     workspaceID |-> execution.data.plan.creation.workspaceID,
                                     label |-> execution.data.plan.creation.requestedPath,
                                     folder |-> None]
                   \/ awaiting' = "recheck" /\ UNCHANGED request
                /\ UNCHANGED <<execution, imported>>
  BY DEF EnsureFolder
<1>3. CASE Refuses("CONFIGURATION")
  BY <1>1, <1>3, RefusesInv DEF Faults, Refusals
<1>4. ASSUME NEW id \in Sole(CurrentFolders(rows)), Adopts(id)
      PROVE  WorkflowInv'
  <2>1. id \in FolderIDs
    BY CurrentFolderIsNamed DEF WorkflowInv, WorkflowTypeOK, Folders
  <2>2. QED
    BY <1>1, <1>4, <2>1, AdoptsInv
<1>5. ASSUME awaiting' \in {"create", "recheck"},
             \/ UNCHANGED request
             \/ request' = [status |-> "sent",
                            workspaceID |-> execution.data.plan.creation.workspaceID,
                            label |-> execution.data.plan.creation.requestedPath,
                            folder |-> None],
             UNCHANGED <<execution, imported>>
      PROVE  WorkflowInv'
  <2> DEFINE creation == confirmed.creation
  <2>1. /\ execution.data.plan = confirmed /\ confirmed # None
        /\ creation \in Creations
    BY <1>1, FolderJob DEF NeedsFolder, MigrationPlans, Optional
  <2>2. creation = [workspaceID |-> creation.workspaceID,
                    requestedPath |-> creation.requestedPath]
    BY <2>1 DEF Creations
  <2>3. UNCHANGED confirmed
    BY <1>1 DEF cliVars
  <2>4. WorkflowTypeOK'
    BY <1>1, <1>5, <2>1
    DEF WorkflowInv, WorkflowTypeOK, cliVars, Creations, Optional
  <2>5. PlanningInv' /\ CLIInv'
    BY <1>1, CLIUndisturbed DEF WorkflowInv, PlanningInv
  <2>6. FolderInv'
    BY <1>1, <1>5, <2>1 DEF WorkflowInv, FolderInv, Creations
  <2>7. ExecutesConfirmedPlan'
    BY <1>1, <1>5, <2>1, <2>2, <2>3
    DEF WorkflowInv, ExecutionInv, ExecutesConfirmedPlan
  <2>8. ExecutionInv'
    BY <1>1, <1>5, <2>3, <2>7 DEF WorkflowInv, ExecutionInv, ExecutionData
  <2>9. QED
    BY <2>4, <2>5, <2>6, <2>8 DEF WorkflowInv
<1>6. QED
  BY <1>2, <1>3, <1>4, <1>5

LEMMA CreateEndsInv ==
  ASSUME WorkflowInv, CreateAnswered \/ CreateFails PROVE WorkflowInv'
<1>1. /\ execution.status = "running"
      /\ execution.operation = "create_folder_workflow"
      /\ UNCHANGED <<cliVars, planning, folders, issued, others>>
      /\ awaiting = "create" /\ awaiting' \in {"verify", "recheck"}
      /\ UNCHANGED <<execution, request, imported>>
  BY DEF CreateAnswered, CreateFails, Executes
<1>2. /\ execution' \in Jobs /\ imported' \in Optional(Selections)
  BY <1>1 DEF WorkflowInv, WorkflowTypeOK
<1>3. ExecutionInv'
  BY <1>1 DEF WorkflowInv, ExecutionInv, ExecutionData, ExecutesConfirmedPlan, cliVars
<1>4. QED
  BY <1>1, <1>2, <1>3, ExecutionStep

LEMMA VerifyFolderInv == ASSUME WorkflowInv, VerifyFolder PROVE WorkflowInv'
<1>1. /\ execution.status = "running"
      /\ execution.operation = "create_folder_workflow"
      /\ UNCHANGED <<cliVars, planning, folders, issued, others>>
      /\ NeedsFolder(execution.data)
  BY DEF VerifyFolder, Executes, WorkflowInv, ExecutionInv
<1>2. PICK rows \in FolderViews :
         IF \E f \in rows : f.id = request.folder
         THEN Adopts(request.folder) ELSE Refuses("DEPENDENCY_FAILURE")
  BY DEF VerifyFolder
<1>3. CASE Refuses("DEPENDENCY_FAILURE")
  BY <1>1, <1>3, RefusesInv DEF Faults, Refusals
<1>4. CASE (\E f \in rows : f.id = request.folder) /\ Adopts(request.folder)
  <2>1. request.folder \in FolderIDs
    BY <1>4, ViewsAreFolders DEF WorkflowInv, WorkflowTypeOK, Folders
  <2>2. QED
    BY <1>1, <1>4, <2>1, AdoptsInv
<1>5. QED
  BY <1>2, <1>3, <1>4

LEMMA RecheckFolderInv == ASSUME WorkflowInv, RecheckFolder PROVE WorkflowInv'
<1>1. /\ execution.status = "running"
      /\ execution.operation = "create_folder_workflow"
      /\ UNCHANGED <<cliVars, planning, folders, issued, others>>
      /\ NeedsFolder(execution.data)
  BY DEF RecheckFolder, Executes, WorkflowInv, ExecutionInv
<1>2. PICK rows \in FolderViews :
         \/ \E id \in Sole(CurrentFolders(rows)) : Adopts(id)
         \/ Refuses("destination-folder-creation-uncertain")
         \/ Refuses("CONFIGURATION")
  BY DEF RecheckFolder
<1>3. CASE Refuses("destination-folder-creation-uncertain") \/ Refuses("CONFIGURATION")
  BY <1>1, <1>3, RefusesInv DEF Faults, Refusals
<1>4. ASSUME NEW id \in Sole(CurrentFolders(rows)), Adopts(id)
      PROVE  WorkflowInv'
  <2>1. id \in FolderIDs
    BY CurrentFolderIsNamed DEF WorkflowInv, WorkflowTypeOK, Folders
  <2>2. QED
    BY <1>1, <1>4, <2>1, AdoptsInv
<1>5. QED
  BY <1>2, <1>3, <1>4

\* In execute_migration_workflow the job holds the confirmed plan, with a folder.
LEMMA ImportJob ==
  ASSUME WorkflowInv, execution.status = "running",
         execution.operation = "execute_migration_workflow"
  PROVE  /\ PlanOK(confirmed) /\ confirmed # None
         /\ IsFor(execution.data.selection, confirmed)
         /\ execution.data.selection.destinationFolderID # None
         /\ execution.data.planID = execution.data.selection
         /\ execution.data.selection \in Selections
BY DEF WorkflowInv, WorkflowTypeOK, ExecutionInv, ExecutionData, Jobs, WorkflowData,
       PlanOK, PlanParses

LEMMA CheckPlanInv == ASSUME WorkflowInv, CheckPlan PROVE WorkflowInv'
<1>1. /\ execution.status = "running"
      /\ execution.operation = "execute_migration_workflow"
      /\ UNCHANGED <<cliVars, planning, folders, issued, others>>
  BY DEF CheckPlan, Executes
<1>2. PICK rows \in FolderViews :
         \/ PlanFault(execution.data, rows) # "none" /\ Refuses(PlanFault(execution.data, rows))
         \/ /\ PlanFault(execution.data, rows) = "none"
            /\ awaiting' = "import"
            /\ UNCHANGED <<execution, request, imported>>
  BY DEF CheckPlan
<1> DEFINE selection == execution.data.selection
           listed == \E o \in FolderOptions(selection.destinationWorkspaceID, rows) :
                         o.value = selection.destinationFolderID
<1>3. PlanFault(execution.data, rows) = IF listed THEN "none" ELSE "NOT_FOUND"
  BY <1>1, ImportJob DEF PlanFault, PlanID
<1>4. CASE Refuses("NOT_FOUND")
  BY <1>1, <1>4, RefusesInv DEF Faults, Refusals
<1>5. CASE listed /\ awaiting' = "import" /\ UNCHANGED <<execution, request, imported>>
  <2>1. IsIssued(selection)
    <3>1. \E f \in folders : /\ f.id = selection.destinationFolderID
                             /\ f.workspaceID = selection.destinationWorkspaceID
      BY <1>5, ViewsAreFolders DEF FolderOptions
    <3>2. QED
      BY <3>1 DEF IsIssued, WorkflowInv, FolderInv
  <2>2. ExecutionInv'
    BY <1>1, <1>5, <2>1
    DEF WorkflowInv, ExecutionInv, ExecutionData, ExecutesConfirmedPlan, IsIssued, cliVars
  <2>3. execution' \in Jobs /\ imported' \in Optional(Selections)
    BY <1>5 DEF WorkflowInv, WorkflowTypeOK
  <2>4. QED
    BY <1>1, <1>5, <2>2, <2>3, ExecutionStep
<1>6. QED
  BY <1>2, <1>3, <1>4, <1>5

\* What is imported is the confirmed plan's selection with the folder filled in.
LEMMA ImportEndsInv == ASSUME WorkflowInv, ImportEnds \/ ImportFails PROVE WorkflowInv'
<1> DEFINE selection == execution.data.selection
<1>1. /\ execution.status = "running" /\ awaiting = "import"
      /\ execution.operation = "execute_migration_workflow"
      /\ UNCHANGED <<cliVars, planning, folders, issued, others, request>>
      /\ \/ /\ execution' = Succeeded(execution, execution.data)
            /\ awaiting' = "none" /\ imported' = selection
         \/ /\ execution' = Failed(execution, "DEPENDENCY_FAILURE")
            /\ \/ awaiting' = "none" /\ imported' \in {None, selection}
               \/ awaiting' = "late" /\ imported' = imported
  BY DEF ImportEnds, ImportFails, Executes
<1>2. /\ execution' \in Jobs /\ execution'.fault \in {execution.fault, "DEPENDENCY_FAILURE"}
      /\ execution'.status \in {"succeeded", "failed"}
      /\ execution'.status = "succeeded" => imported' = selection
      /\ awaiting' = "late" => execution'.status = "failed"
      /\ execution'.data = execution.data
  BY <1>1 DEF Succeeded, Failed, Jobs, Faults, WorkflowInv, WorkflowTypeOK
<1>3. /\ imported' \in {None, selection} /\ selection \in Selections /\ selection # None
      /\ awaiting' \in {"none", "late"} /\ (awaiting' = "late" => imported' = None)
  <2>1. imported = None
    BY <1>1 DEF WorkflowInv, ExecutionInv
  <2>2. QED
    BY <1>1, <2>1, ImportJob, WorkflowAssumption
<1>4. /\ IsFor(selection, confirmed) /\ IsIssued(selection) /\ confirmed # None
      /\ selection.destinationFolderID # None
  BY <1>1, ImportJob DEF WorkflowInv, ExecutionInv
<1>5. ExecutesConfirmedPlan'
  BY <1>1, <1>3, <1>4
  DEF WorkflowInv, ExecutionInv, ExecutesConfirmedPlan, IsFor, IsIssued, cliVars
<1>6. ExecutionInv'
  <2>1. UNCHANGED confirmed /\ PlanOK(confirmed)
    BY <1>1, ImportJob DEF cliVars
  <2>2. execution'.fault \notin Refusals
    BY <1>2 DEF WorkflowInv, ExecutionInv, Refusals
  <2>3. awaiting' = "late" => /\ IsFor(execution.data.selection, confirmed)'
                              /\ IsIssued(execution.data.selection)'
    BY <1>1, <1>2, <1>4, <2>1 DEF IsFor, IsIssued
  <2>4. QED
    BY <1>1, <1>2, <1>3, <1>4, <1>5, <2>1, <2>2, <2>3 DEF ExecutionInv
<1>7. QED
  BY <1>1, <1>2, <1>3, <1>6, ExecutionStep DEF Optional

LEMMA ExecutionStepInv ==
  ASSUME WorkflowInv,
         \/ ExecutionNext
         \/ \E operation \in Remote, point \in {"none", "verify", "recheck"} :
                Executes(operation, point) /\ Refuses("DEPENDENCY_FAILURE")
  PROVE  WorkflowInv'
<1>1. CASE ExecutionNext
  BY <1>1, InitializeExecutionInv, FolderNotNeededInv, EnsureFolderInv, CreateEndsInv,
     VerifyFolderInv, RecheckFolderInv, CheckPlanInv, ImportEndsInv DEF ExecutionNext
<1>2. CASE \E operation \in Remote, point \in {"none", "verify", "recheck"} :
               Executes(operation, point) /\ Refuses("DEPENDENCY_FAILURE")
  BY <1>2, RefusesInv DEF Executes, Faults, Refusals
<1>3. QED
  BY <1>1, <1>2
----------------------------------------------------------------------------
\* Voiceflow and the other people change folders only.
LEMMA WorldStep ==
  ASSUME WorkflowInv, ChangesFolders, issued \subseteq issued',
         request'.status = "none" <=> request.status = "none",
         UNCHANGED <<request.workspaceID, request.label>>
  PROVE  PlanningInv' /\ ExecutionInv' /\ CLIInv'
<1>1. ExecutesConfirmedPlan'
  BY DEF WorkflowInv, ExecutionInv, ExecutesConfirmedPlan, ChangesFolders, cliVars
<1>2. ExecutionInv'
  BY <1>1 DEF WorkflowInv, ExecutionInv, ExecutionData, IsIssued, ChangesFolders, cliVars
<1>3. PlanningInv' /\ CLIInv'
  BY DEF WorkflowInv, PlanningInv, CLIInv, ChangesFolders, cliVars
<1>4. QED
  BY <1>2, <1>3

\* An import that the failed job left behind is still one for the confirmed plan.
LEMMA LateImportInv == ASSUME WorkflowInv, LateImport PROVE WorkflowInv'
<1> DEFINE selection == execution.data.selection
<1>1. /\ awaiting = "late" /\ awaiting' = "none" /\ imported' = selection
      /\ UNCHANGED <<cliVars, planning, execution, folders, issued, request, others>>
  BY DEF LateImport
<1>2. /\ execution.status = "failed" /\ selection \in Selections /\ selection # None
      /\ PlanOK(confirmed) /\ confirmed # None
      /\ IsFor(selection, confirmed) /\ IsIssued(selection)
      /\ selection.destinationFolderID # None
  BY <1>1, WorkflowAssumption
  DEF WorkflowInv, WorkflowTypeOK, ExecutionInv, Jobs, WorkflowData, PlanOK, PlanParses
<1>3. WorkflowTypeOK'
  BY <1>1, <1>2 DEF WorkflowInv, WorkflowTypeOK, Optional, cliVars
<1>4. ExecutesConfirmedPlan'
  BY <1>1, <1>2
  DEF WorkflowInv, ExecutionInv, ExecutesConfirmedPlan, IsFor, IsIssued, cliVars
<1>5. ExecutionInv'
  BY <1>1, <1>2, <1>4 DEF WorkflowInv, ExecutionInv, cliVars
<1>6. PlanningInv' /\ FolderInv' /\ CLIInv'
  BY <1>1 DEF WorkflowInv, PlanningInv, FolderInv, CLIInv, cliVars
<1>7. QED
  BY <1>3, <1>5, <1>6 DEF WorkflowInv

LEMMA ApplyCreateInv == ASSUME WorkflowInv, ApplyCreate PROVE WorkflowInv'
<1>1. /\ ChangesFolders /\ UNCHANGED others
      /\ request.status = "sent"
      /\ request.workspaceID \in Names /\ request.label \in Labels
  BY DEF ApplyCreate, WorkflowInv, FolderInv
<1>2. PICK id \in FolderIDs :
        /\ Fresh(id)
        /\ folders' = folders \cup {[id |-> id, label |-> request.label,
                                     workspaceID |-> request.workspaceID]}
        /\ issued' = issued \cup {[id |-> id, workspaceID |-> request.workspaceID]}
        /\ request' = [request EXCEPT !.status = "applied", !.folder = id]
  BY DEF ApplyCreate
<1>3. /\ request'.status = "applied" /\ request'.folder = id
      /\ request'.workspaceID = request.workspaceID /\ request'.label = request.label
      /\ request' \in [status : {"none", "sent", "applied", "dropped"},
                       workspaceID : Optional(Names), label : Optional(Labels),
                       folder : Optional(FolderIDs)]
  BY <1>1, <1>2 DEF WorkflowInv, WorkflowTypeOK, Optional
<1>4. PlanningInv' /\ ExecutionInv' /\ CLIInv'
  BY <1>1, <1>2, <1>3, WorldStep
<1>5. WorkflowTypeOK'
  BY <1>1, <1>2, <1>3
  DEF WorkflowInv, WorkflowTypeOK, ChangesFolders, Folders, cliVars
<1>6. FolderInv'
  <2> DEFINE new == [id |-> id, label |-> request.label, workspaceID |-> request.workspaceID]
  <2>1. ASSUME NEW f \in folders'
        PROVE  [id |-> f.id, workspaceID |-> f.workspaceID] \in issued'
    <3>1. CASE f \in folders
      BY <1>2, <3>1 DEF WorkflowInv, FolderInv
    <3>2. CASE f = new
      <4>1. f.id = id /\ f.workspaceID = request.workspaceID
        BY <3>2
      <4>2. QED
        BY <1>2, <4>1
    <3>3. QED
      BY <1>2, <3>1, <3>2
  <2>2. \A a \in issued', b \in issued' : a.id = b.id => a = b
    BY <1>2 DEF WorkflowInv, FolderInv, Fresh
  <2>3. QED
    BY <1>1, <1>2, <1>3, <2>1, <2>2 DEF FolderInv
<1>7. QED
  BY <1>4, <1>5, <1>6 DEF WorkflowInv

LEMMA DropCreateInv == ASSUME WorkflowInv, DropCreate PROVE WorkflowInv'
<1>1. /\ ChangesFolders /\ UNCHANGED <<folders, issued, others>>
      /\ request.status = "sent" /\ request' = [request EXCEPT !.status = "dropped"]
  BY DEF DropCreate
<1>2. /\ request'.status = "dropped" /\ request'.folder = request.folder
      /\ request'.workspaceID = request.workspaceID /\ request'.label = request.label
      /\ request' \in [status : {"none", "sent", "applied", "dropped"},
                       workspaceID : Optional(Names), label : Optional(Labels),
                       folder : Optional(FolderIDs)]
  BY <1>1 DEF WorkflowInv, WorkflowTypeOK
<1>3. PlanningInv' /\ ExecutionInv' /\ CLIInv'
  BY <1>1, <1>2, WorldStep
<1>4. WorkflowTypeOK'
  BY <1>1, <1>2 DEF WorkflowInv, WorkflowTypeOK, ChangesFolders, cliVars
<1>5. FolderInv'
  BY <1>1, <1>2 DEF WorkflowInv, FolderInv
<1>6. QED
  BY <1>3, <1>4, <1>5 DEF WorkflowInv

LEMMA OtherStepInv ==
  ASSUME WorkflowInv, OtherCreates \/ OtherDeletes \/ OtherRenames PROVE WorkflowInv'
<1>1. ChangesFolders /\ UNCHANGED request /\ others' \in 0..MaxOthers
  <2>1. OthersAct
    BY DEF OtherCreates, OtherDeletes, OtherRenames
  <2>2. QED
    BY <2>1, WorkflowAssumption DEF OthersAct, WorkflowInv, WorkflowTypeOK
<1>2. CASE OtherCreates
  <2>1. PICK id \in FolderIDs, label \in Labels, w \in WorkspaceRecords :
          /\ Fresh(id)
          /\ folders' = folders \cup {[id |-> id, label |-> label, workspaceID |-> w.id]}
          /\ issued' = issued \cup {[id |-> id, workspaceID |-> w.id]}
    BY <1>2 DEF OtherCreates
  <2>2. w.id \in Names
    BY WorkflowAssumption
  <2>3. PlanningInv' /\ ExecutionInv' /\ CLIInv'
    BY <1>1, <2>1, WorldStep
  <2>4. WorkflowTypeOK'
    BY <1>1, <2>1, <2>2 DEF WorkflowInv, WorkflowTypeOK, ChangesFolders, Folders, cliVars
  <2>5. FolderInv'
    <3> DEFINE new == [id |-> id, label |-> label, workspaceID |-> w.id]
    <3>1. ASSUME NEW f \in folders'
          PROVE  [id |-> f.id, workspaceID |-> f.workspaceID] \in issued'
      <4>1. CASE f \in folders
        BY <2>1, <4>1 DEF WorkflowInv, FolderInv
      <4>2. CASE f = new
        <5>1. f.id = id /\ f.workspaceID = w.id
          BY <4>2
        <5>2. QED
          BY <2>1, <5>1
      <4>3. QED
        BY <2>1, <4>1, <4>2
    <3>2. \A a \in issued', b \in issued' : a.id = b.id => a = b
      BY <2>1 DEF WorkflowInv, FolderInv, Fresh
    <3>3. QED
      BY <1>1, <2>1, <3>1, <3>2 DEF WorkflowInv, FolderInv
  <2>6. QED
    BY <2>3, <2>4, <2>5 DEF WorkflowInv
<1>3. CASE OtherDeletes \/ OtherRenames
  <2>1. PICK f \in folders :
          /\ UNCHANGED issued
          /\ \/ folders' = folders \ {f}
             \/ \E label \in Labels :
                    folders' = (folders \ {f}) \cup {[f EXCEPT !.label = label]}
    BY <1>3 DEF OtherDeletes, OtherRenames
  <2>2. f \in Folders
    BY DEF WorkflowInv, WorkflowTypeOK
  <2>3. ASSUME NEW g \in folders'
        PROVE  g \in Folders /\ [id |-> g.id, workspaceID |-> g.workspaceID] \in issued
    <3>1. CASE g \in folders
      BY <3>1 DEF WorkflowInv, WorkflowTypeOK, FolderInv
    <3>2. CASE g \notin folders
      <4>1. PICK label \in Labels : g = [f EXCEPT !.label = label]
        BY <2>1, <3>2
      <4>2. g \in Folders /\ g.id = f.id /\ g.workspaceID = f.workspaceID
        BY <2>2, <4>1 DEF Folders
      <4>3. QED
        BY <4>2 DEF WorkflowInv, FolderInv
    <3>3. QED
      BY <3>1, <3>2
  <2>4. PlanningInv' /\ ExecutionInv' /\ CLIInv'
    BY <1>1, <2>1, WorldStep
  <2>5. WorkflowTypeOK'
    BY <1>1, <2>1, <2>3 DEF WorkflowInv, WorkflowTypeOK, ChangesFolders, cliVars
  <2>6. FolderInv'
    BY <1>1, <2>1, <2>3 DEF WorkflowInv, FolderInv
  <2>7. QED
    BY <2>4, <2>5, <2>6 DEF WorkflowInv
<1>4. QED
  BY <1>2, <1>3
----------------------------------------------------------------------------
\* The CLI.  What it does leaves the folders and the execution alone, but for
\* the start of a workflow.
CLIRecords == [step : Steps, mode : {"stream", "poll"}, plan : Optional(MigrationPlans),
               report : Reports]

LEMMA EndedIsRecord ==
  ASSUME cli \in CLIRecords, NEW report \in Reports
  PROVE  /\ Ended(report) \in CLIRecords
         /\ Ended(report).step = "done" /\ Ended(report).report = report
BY DEF Ended, CLIRecords, Steps

\* A step that changes neither job: only what the CLI holds is to be shown.
LEMMA CLIStep ==
  ASSUME WorkflowInv, CLIActs, UNCHANGED <<config, confirmed, planning, execution>>,
         cli' \in CLIRecords, CLIInv'
  PROVE  WorkflowInv'
<1>1. WorkflowTypeOK'
  BY DEF WorkflowInv, WorkflowTypeOK, CLIActs, worldVars, CLIRecords
<1>2. PlanningInv' /\ FolderInv'
  BY DEF WorkflowInv, PlanningInv, FolderInv, CLIActs, worldVars
<1>3. ExecutionInv'
  BY DEF WorkflowInv, ExecutionInv, ExecutionData, ExecutesConfirmedPlan, IsIssued,
         CLIActs, worldVars
<1>4. QED
  BY <1>1, <1>2, <1>3 DEF WorkflowInv

LEMMA BodyStallsInv == ASSUME WorkflowInv, BodyStalls PROVE WorkflowInv'
<1>1. /\ UNCHANGED <<config, cli, confirmed, planning, execution, awaiting, worldVars>>
      /\ stalled' = TRUE
  BY DEF BodyStalls
<1>2. WorkflowTypeOK'
  BY <1>1 DEF WorkflowInv, WorkflowTypeOK, worldVars
<1>3. PlanningInv' /\ FolderInv' /\ CLIInv'
  BY <1>1 DEF WorkflowInv, PlanningInv, FolderInv, CLIInv, worldVars
<1>4. ExecutionInv'
  BY <1>1 DEF WorkflowInv, ExecutionInv, ExecutionData, ExecutesConfirmedPlan, IsIssued, worldVars
<1>5. QED
  BY <1>2, <1>3, <1>4 DEF WorkflowInv

\* A CLI that ends with a report: what the report says of the jobs is to be shown.
LEMMA EndsInv ==
  ASSUME WorkflowInv, CLIActs, UNCHANGED <<config, confirmed, planning, execution>>,
         NEW report \in Reports, cli' = Ended(report),
         report \in {"planned", "envelope", "aborted", "configuration"} => execution = Idle,
         report = "job" => planning.status = "failed" \/ execution.status = "failed",
         report = "success" => ActiveHasCompleted \/ execution.status = "succeeded"
  PROVE  WorkflowInv'
<1>1. cli \in CLIRecords
  BY DEF WorkflowInv, WorkflowTypeOK, CLIRecords
<1>2. cli' \in CLIRecords /\ cli'.step = "done" /\ cli'.report = report
  BY <1>1, EndedIsRecord
<1>3. CLIInv'
  BY <1>2 DEF CLIInv
<1>4. QED
  BY <1>2, <1>3, CLIStep

LEMMA ConfiguredParses ==
  ASSUME config \in Configs
  PROVE  /\ ConfiguredData \in WorkflowData /\ WellPlanned(ConfiguredData)
         /\ ParsesAs(ConfiguredData, "CONFIGURED")
<1>1. config \in Files /\ Labels \subseteq Names
  BY WorkflowAssumption
<1> DEFINE selection == ConfiguredData.selection
<1>2. ConfiguredData = [NoData EXCEPT !.stage = "CONFIGURED", !.selection = selection]
  BY DEF ConfiguredData, NoData
<1>3. selection =
          [sourceWorkspaceID |-> config.source_workspace,
           sourceProjectID |-> config.source_project,
           sourceVersionID |-> config.source_version,
           destinationWorkspaceID |-> IF config.by_path THEN None ELSE config.destination_workspace,
           destinationFolderID |-> IF config.by_path THEN None ELSE config.destination_folder,
           targetSchemaVersion |-> config.target_schema_version]
  BY DEF ConfiguredData, NoData
<1>4. selection \in Selections
  BY <1>1, <1>3 DEF Files, Optional, Selections
<1> HIDE DEF selection
<1>5. ConfiguredData \in WorkflowData
  BY <1>2, <1>4, NoDataIsData DEF WorkflowData, Stages
<1>6. ConfiguredData.stage = "CONFIGURED" /\ ConfiguredData.plan = None
  BY <1>2 DEF NoData
<1>7. QED
  BY <1>5, <1>6 DEF WellPlanned, ParsesAs, SourceKnown, DestinationKnown

LEMMA StartPlanningInv == ASSUME WorkflowInv, StartPlanning PROVE WorkflowInv'
<1>1. /\ cli.step = "start_migration_workflow" /\ execution = Idle
      /\ CLIActs /\ UNCHANGED <<config, confirmed, execution>>
      /\ planning' \in {Idle, Running("initialize_migration_workflow", ConfiguredData)}
      /\ \/ cli' = [cli EXCEPT !.step = "observe_migration_workflow"]
         \/ cli' = Ended("network")
  BY DEF StartPlanning, WorkflowInv, CLIInv
<1>2. PlanningOK(Idle)
  BY IdleIsJob DEF PlanningOK, Idle, NoData, WellPlanned, Refusals
<1>3. PlanningOK(Running("initialize_migration_workflow", ConfiguredData))
  BY ConfiguredParses, RunningAccepts, Tables, OperationNames
  DEF PlanningOK, Refusals, WorkflowInv, WorkflowTypeOK
<1>4. PlanningInv'
  BY <1>1, <1>2, <1>3 DEF PlanningInv
<1>5. /\ cli' \in CLIRecords /\ cli'.report \in {"none", "network"}
      /\ cli'.step \in {"observe_migration_workflow", "done"}
      /\ cli'.report # "none" => cli'.step = "done"
  BY <1>1, EndedIsRecord
  DEF WorkflowInv, WorkflowTypeOK, CLIRecords, CLIInv, Steps, Observing, Reports
<1>6. CLIInv'
  BY <1>1, <1>5 DEF CLIInv
<1>7. WorkflowTypeOK'
  BY <1>1, <1>4, <1>5
  DEF WorkflowInv, WorkflowTypeOK, PlanningInv, PlanningOK, CLIActs, worldVars, CLIRecords
<1>8. ExecutionInv' /\ FolderInv'
  BY <1>1 DEF WorkflowInv, ExecutionInv, ExecutionData, ExecutesConfirmedPlan, IsIssued,
              FolderInv, CLIActs, worldVars
<1>9. QED
  BY <1>4, <1>6, <1>7, <1>8 DEF WorkflowInv

\* The execution starts on the plan that was confirmed.
LEMMA StartExecutionInv == ASSUME WorkflowInv, StartExecution PROVE WorkflowInv'
<1>1. /\ cli.step = "start_execution_workflow" /\ execution = Idle
      /\ PlanOK(confirmed) /\ confirmed = cli.plan
      /\ CLIActs /\ UNCHANGED <<config, confirmed, planning>>
      /\ execution' \in {Idle, Running("initialize_execution_workflow", Handoff(confirmed))}
      /\ \/ cli' = [cli EXCEPT !.step = "observe_execution_workflow", !.mode = "stream"]
         \/ cli' = Ended("network")
  BY DEF StartExecution, WorkflowInv, CLIInv
<1> DEFINE job == [status |-> "running", operation |-> "initialize_execution_workflow",
                   data |-> Handoff(confirmed), fault |-> "none"]
<1>2. execution' \in {Idle, job} /\ job \in Jobs
  BY <1>1, HandoffParses, RunningAccepts, Tables, OperationNames
<1>3. execution' \in Jobs
  BY <1>2, IdleIsJob
<1>4. /\ cli' \in CLIRecords /\ cli'.report \in {"none", "network"}
      /\ cli'.step \in {"observe_execution_workflow", "done"}
      /\ cli'.report # "none" => cli'.step = "done"
  <2>1. cli \in CLIRecords /\ cli.report = "none"
    BY <1>1 DEF WorkflowInv, WorkflowTypeOK, CLIRecords, CLIInv
  <2>2. CASE cli' = [cli EXCEPT !.step = "observe_execution_workflow", !.mode = "stream"]
    BY <2>1, <2>2 DEF CLIRecords, Steps, Observing
  <2>3. CASE cli' = Ended("network")
    BY <2>1, <2>3, EndedIsRecord DEF Reports
  <2>4. QED
    BY <1>1, <2>2, <2>3
<1>5. CLIInv'
  BY <1>4 DEF CLIInv
<1>6. awaiting = "none" /\ request.status = "none" /\ imported = None
  BY <1>1 DEF WorkflowInv, WorkflowTypeOK, ExecutionInv, Idle
<1>7. WorkflowTypeOK'
  BY <1>1, <1>3, <1>4, <1>6
  DEF WorkflowInv, WorkflowTypeOK, CLIActs, worldVars, CLIRecords
<1>8. PlanningInv' /\ FolderInv'
  BY <1>1 DEF WorkflowInv, PlanningInv, FolderInv, CLIActs, worldVars
<1>9. ExecutionInv'
  <2>1. UNCHANGED <<awaiting, request, imported, confirmed>>
    BY <1>1 DEF CLIActs, worldVars
  <2>2. CASE execution' = Idle
    BY <1>6, <2>1, <2>2 DEF ExecutionInv, ExecutesConfirmedPlan, Idle, Refusals
  <2>3. CASE execution' = job
    BY <1>1, <1>6, <2>1, <2>3 DEF ExecutionInv, ExecutionData, ExecutesConfirmedPlan, Refusals
  <2>4. QED
    BY <1>2, <2>2, <2>3
<1>10. QED
  BY <1>5, <1>7, <1>8, <1>9 DEF WorkflowInv

\* What the CLI reads of a job that has ended, or that it takes for one that has.
LEMMA ReadsInv ==
  ASSUME WorkflowInv, CLIActs, UNCHANGED <<config, confirmed, planning, execution>>,
         cli.step \in Observing,
         ObservedJob.status \in {"succeeded", "failed"} \/ ActiveHasCompleted,
         NEW data \in {ObservedJob.data, NoData}, cli' = Reads(ObservedJob, data)
  PROVE  WorkflowInv'
<1>1. CASE ObservedJob.status = "failed"
  <2>1. planning.status = "failed" \/ execution.status = "failed"
    BY <1>1 DEF ObservedJob
  <2>2. cli' = Ended("job")
    BY <1>1 DEF Reads
  <2>3. QED
    BY <2>1, <2>2, EndsInv DEF Reports
<1>2. CASE ObservedJob.status # "failed" /\ cli.step = "observe_execution_workflow"
  <2>1. ActiveHasCompleted \/ execution.status = "succeeded"
    BY <1>2 DEF ObservedJob
  <2>2. cli' = Ended("success")
    BY <1>2 DEF Reads
  <2>3. QED
    BY <2>1, <2>2, EndsInv DEF Reports
<1>3. CASE ObservedJob.status # "failed" /\ cli.step = "observe_migration_workflow"
  <2>1. execution = Idle /\ ObservedJob = planning /\ cli' = AfterPlanning(data)
    BY <1>3 DEF WorkflowInv, CLIInv, Reads, ObservedJob
  <2>2. CASE cli' \in {Ended("planned"), Ended("envelope")}
    BY <2>1, <2>2, EndsInv DEF Reports
  <2>3. CASE /\ ParsesAs(data, "PLANNED")
             /\ cli' = [cli EXCEPT !.step = "confirm", !.plan = data.plan]
    <3>1. data = planning.data
      BY <2>1, <2>3 DEF NoData, ParsesAs
    <3>2. PlanOK(data.plan)
      BY <2>3, <3>1 DEF ParsesAs, PlanParses, PlanOK, WorkflowInv, PlanningInv, PlanningOK,
                        WellPlanned, Jobs, WorkflowData, Optional
    <3>3. cli' \in CLIRecords /\ cli'.step = "confirm" /\ cli'.plan = data.plan
          /\ cli'.report = "none"
      BY <1>3, <2>3, <3>2
      DEF WorkflowInv, WorkflowTypeOK, CLIInv, CLIRecords, Steps, Optional, PlanOK
    <3>4. CLIInv'
      BY <2>1, <3>2, <3>3 DEF CLIInv
    <3>5. QED
      BY <3>3, <3>4, CLIStep
  <2>4. QED
    BY <2>1, <2>2, <2>3 DEF AfterPlanning
<1>4. QED
  BY <1>1, <1>2, <1>3 DEF Observing

LEMMA ObservesInv ==
  ASSUME WorkflowInv,
         StreamEnds \/ StreamFails \/ PollFinds \/ PollFails \/ PollDeadline
  PROVE  WorkflowInv'
<1>1. /\ CLIActs /\ UNCHANGED <<config, confirmed, planning, execution>>
      /\ cli.step \in Observing
  BY DEF StreamEnds, StreamFails, PollFinds, PollFails, PollDeadline, Observes
<1>2. CASE StreamEnds
  BY <1>1, <1>2, ReadsInv DEF StreamEnds
<1>3. CASE PollFinds
  BY <1>1, <1>3, ReadsInv DEF PollFinds, IsFinalJob
<1>4. CASE PollFails \/ PollDeadline
  BY <1>1, <1>4, EndsInv DEF PollFails, PollDeadline, Reports
<1>5. CASE StreamFails
  <2>1. /\ cli' \in CLIRecords /\ cli'.step = cli.step /\ cli'.report = cli.report
        /\ cli'.plan = cli.plan
    BY <1>5 DEF StreamFails, WorkflowInv, WorkflowTypeOK, CLIRecords
  <2>2. CLIInv'
    BY <1>1, <2>1 DEF WorkflowInv, CLIInv
  <2>3. QED
    BY <1>1, <2>1, <2>2, CLIStep
<1>6. QED
  BY <1>2, <1>3, <1>4, <1>5

\* The operator's answer: nothing has been executed yet.
LEMMA ConfirmInv == ASSUME WorkflowInv, Confirm PROVE WorkflowInv'
<1>1. /\ cli.step = "confirm" /\ execution = Idle /\ PlanOK(cli.plan) /\ cli.report = "none"
      /\ CLIActs /\ UNCHANGED <<config, planning, execution>>
  BY DEF Confirm, WorkflowInv, CLIInv
<1>2. PICK answer \in {"yes", "no", ""} :
        /\ cli' = IF Granted(answer) THEN [cli EXCEPT !.step = "load_secrets"]
                                     ELSE Ended("aborted")
        /\ confirmed' = IF answer = "yes" THEN cli.plan ELSE None
  BY DEF Confirm
<1>3. \/ cli' = [cli EXCEPT !.step = "load_secrets"] /\ confirmed' = cli.plan
      \/ cli' = Ended("aborted") /\ confirmed' = None
  BY <1>2 DEF Granted
<1>4. cli \in CLIRecords /\ cli.plan \in MigrationPlans
  BY <1>1 DEF WorkflowInv, WorkflowTypeOK, CLIRecords, PlanOK
<1>5. /\ cli' \in CLIRecords /\ confirmed' \in Optional(MigrationPlans)
      /\ \/ /\ cli'.step = "load_secrets" /\ cli'.report = "none"
            /\ cli'.plan = cli.plan /\ confirmed' = cli.plan
         \/ cli'.step = "done" /\ cli'.report = "aborted"
  <2>1. CASE cli' = [cli EXCEPT !.step = "load_secrets"] /\ confirmed' = cli.plan
    BY <1>1, <1>4, <2>1 DEF CLIRecords, Steps, Optional
  <2>2. CASE cli' = Ended("aborted") /\ confirmed' = None
    BY <1>4, <2>2, EndedIsRecord DEF Reports, Optional
  <2>3. QED
    BY <1>3, <2>1, <2>2
<1>6. CLIInv'
  BY <1>1, <1>5 DEF CLIInv
<1>7. WorkflowTypeOK'
  BY <1>1, <1>5 DEF WorkflowInv, WorkflowTypeOK, CLIActs, worldVars, CLIRecords
<1>8. PlanningInv' /\ FolderInv'
  BY <1>1 DEF WorkflowInv, PlanningInv, FolderInv, CLIActs, worldVars
<1>9. ExecutionInv'
  <2>1. awaiting = "none" /\ request.status = "none" /\ imported = None
    BY <1>1 DEF WorkflowInv, WorkflowTypeOK, ExecutionInv, Idle
  <2>2. UNCHANGED <<awaiting, request, imported>>
    BY <1>1 DEF CLIActs, worldVars
  <2>3. QED
    BY <1>1, <2>1, <2>2 DEF ExecutionInv, ExecutesConfirmedPlan, Idle, Refusals
<1>10. QED
  BY <1>6, <1>7, <1>8, <1>9 DEF WorkflowInv

LEMMA LoadSecretsInv == ASSUME WorkflowInv, LoadSecrets PROVE WorkflowInv'
<1>1. /\ cli.step = "load_secrets" /\ execution = Idle
      /\ CLIActs /\ UNCHANGED <<config, confirmed, planning, execution>>
  BY DEF LoadSecrets, WorkflowInv, CLIInv
<1>2. CASE cli' = Ended("configuration")
  BY <1>1, <1>2, EndsInv DEF Reports
<1>3. CASE cli' = [cli EXCEPT !.step = "start_execution_workflow"]
  <2>1. /\ cli' \in CLIRecords /\ cli'.step = "start_execution_workflow"
        /\ cli'.report = cli.report /\ cli'.plan = cli.plan
    BY <1>3 DEF WorkflowInv, WorkflowTypeOK, CLIRecords, Steps
  <2>2. CLIInv'
    BY <1>1, <2>1 DEF WorkflowInv, CLIInv
  <2>3. QED
    BY <1>1, <2>1, <2>2, CLIStep
<1>4. QED
  BY <1>2, <1>3 DEF LoadSecrets
----------------------------------------------------------------------------
LEMMA WorkflowStepInv ==
  ASSUME WorkflowInv, [WorkflowNext]_vars PROVE WorkflowInv'
<1>1. CASE PlanningNext
  BY <1>1, PlanningStepInv
<1>2. CASE ExecutionNext
  BY <1>2, ExecutionStepInv
<1>3. CASE Unavailable
  BY <1>3, PlanningStepInv, ExecutionStepInv DEF Unavailable
<1>4. CASE WorldNext
  BY <1>4, LateImportInv, ApplyCreateInv, DropCreateInv, OtherStepInv DEF WorldNext
<1>5. CASE CLINext
  BY <1>5, StartPlanningInv, StartExecutionInv, ObservesInv, ConfirmInv, LoadSecretsInv
  DEF CLINext
<1>6. CASE UNCHANGED vars
  <2>1. UNCHANGED <<cliVars, planning, execution, awaiting, worldVars>>
    BY <1>6 DEF vars
  <2>2. WorkflowTypeOK'
    BY <2>1 DEF WorkflowInv, WorkflowTypeOK, cliVars, worldVars
  <2>3. PlanningInv' /\ FolderInv' /\ CLIInv'
    BY <2>1 DEF WorkflowInv, PlanningInv, FolderInv, CLIInv, cliVars, worldVars
  <2>4. ExecutionInv'
    BY <2>1 DEF WorkflowInv, ExecutionInv, ExecutionData, ExecutesConfirmedPlan, IsIssued,
                cliVars, worldVars
  <2>5. QED
    BY <2>2, <2>3, <2>4 DEF WorkflowInv
<1>7. CASE BodyStalls
  BY <1>7, BodyStallsInv
<1>8. QED
  BY <1>1, <1>2, <1>3, <1>4, <1>5, <1>6, <1>7 DEF WorkflowNext

\* The inductive invariant holds in every reachable state: at every point of
\* the two workflows (executeOperation() in operation_dispatch.ts, the CLI in
\* cli/migration/index.ts) the data, the CLI and the folders agree.
THEOREM WorkflowInvariant == WorkflowSpec => []WorkflowInv
<1>1. WorkflowInv /\ [WorkflowNext]_vars => WorkflowInv'
  BY WorkflowStepInv
<1>2. QED
  BY WorkflowInitInv, <1>1, PTL DEF WorkflowSpec

\* The data each operation hands on is data of its schema
\* (migration-workflow-data.ts), and the execution job waits for create_folder
\* only in create_folder_workflow and for the import only in the last operation.
THEOREM WorkflowTypesCorrect == WorkflowSpec => []WorkflowTypeOK
<1>1. WorkflowInv => WorkflowTypeOK
  BY DEF WorkflowInv
<1>2. QED
  BY WorkflowInvariant, <1>1, PTL

\* The execution workflow creates and imports what the operator confirmed, and
\* nothing before: toExecutionWorkflowInput() hands on the plan of the
\* confirmation, completedData() changes the folder alone, and the plan check
\* of execute_migration_workflow puts that folder in the plan's workspace.
THEOREM OnlyTheConfirmedPlan == WorkflowSpec => []ExecutesConfirmedPlan
<1>1. WorkflowInv => ExecutesConfirmedPlan
  BY DEF WorkflowInv, ExecutionInv
<1>2. QED
  BY WorkflowInvariant, <1>1, PTL

\* No operation of a workflow refuses the data of the one before it, and the
\* plan ID is that of the selection when the plan is checked again: for every
\* catalog, file and course of events, neither INVALID_ARGUMENT nor
\* PLAN_MISMATCH ends a workflow.
THEOREM WorkflowHandsOn == WorkflowSpec => []AcceptedByNextJob
<1>1. WorkflowInv => AcceptedByNextJob
  BY DEF WorkflowInv, PlanningInv, PlanningOK, ExecutionInv, AcceptedByNextJob, Refusals
<1>2. QED
  BY WorkflowInvariant, <1>1, PTL

\* What performWorkflowMigration() reports is true when get_job leaves
\* `completed` out of an active job (client/index.ts:259 takes any value of it
\* for an end): success means imported, a failed job is one that failed, and
\* the ends before the execution have executed nothing.
THEOREM ReportsAreTrue ==
  ASSUME ~ActiveHasCompleted
  PROVE  WorkflowSpec => []ReportIsTrue
<1>1. WorkflowInv => ReportIsTrue
  BY DEF WorkflowInv, CLIInv, ExecutionInv, ReportIsTrue, Idle
<1>2. QED
  BY WorkflowInvariant, <1>1, PTL
----------------------------------------------------------------------------
\* create_folder_workflow hands on by one of four of its steps.
LEMMA FolderSteps ==
  ASSUME WorkflowInv, [WorkflowNext]_vars,
         execution.operation = "create_folder_workflow",
         execution'.operation = "execute_migration_workflow"
  PROVE  /\ execution.status = "running"
         /\ FolderNotNeeded \/ EnsureFolder \/ VerifyFolder \/ RecheckFolder
<1>1. execution \in Jobs /\ execution' # execution /\ execution # Idle
  BY DEF WorkflowInv, WorkflowTypeOK, Idle
<1>2. \A fault : ~Refuses(fault)
  BY <1>1 DEF Refuses, Failed, Jobs
<1>3. ~PlanningNext /\ ~WorldNext /\ ~BodyStalls /\ ~UNCHANGED vars
  BY <1>1 DEF PlanningNext, HandOn, LoadWorkspaces, LoadSourceCatalog,
     ResolveSourceSelection, ResolveSourceSchema, LoadDestinationCatalog,
     ResolveDestinationSelection, PlanMigration, Plans, WorldNext, LateImport, ApplyCreate,
     DropCreate, OtherCreates, OtherDeletes, OtherRenames, OthersAct, ChangesFolders,
     BodyStalls, vars
<1>4. ~Unavailable
  BY <1>1, <1>2 DEF Unavailable, Plans
<1>5. ~CLINext
  <2>1. ~StartExecution
    BY <1>1 DEF StartExecution, WorkflowInv, CLIInv
  <2>2. QED
    BY <1>1, <2>1 DEF CLINext, StartPlanning, StreamEnds, StreamFails, PollFinds, PollFails,
       PollDeadline, Observes, Confirm, LoadSecrets
<1>6. ExecutionNext
  BY <1>3, <1>4, <1>5 DEF WorkflowNext
<1>7. QED
  BY <1>1, <1>6 DEF ExecutionNext, InitializeExecution, FolderNotNeeded, EnsureFolder,
     VerifyFolder, RecheckFolder, CreateAnswered, CreateFails, CheckPlan, ImportEnds,
     ImportFails, Executes

LEMMA AdoptsFolder ==
  ASSUME WorkflowInv, execution.status = "running",
         execution.operation = "create_folder_workflow",
         NEW folderID \in FolderIDs, Adopts(folderID)
  PROVE  execution'.data.selection.destinationFolderID = folderID
<1>1. PlanOK(confirmed) /\ execution.data = Ready(confirmed)
  BY FolderJob
<1>2. CompletedData(Ready(confirmed), folderID).selection.destinationFolderID = folderID
  BY <1>1, CompletedParses
<1>3. CompletedData(execution.data, folderID).selection.destinationFolderID = folderID
  BY <1>1, <1>2
<1>4. QED
  BY <1>3 DEF Adopts, Advanced, Running

\* A folder taken for the missing one is in the workspace of the plan, and is
\* the one this run created or bears the requested name: resolveCurrentFolder()
\* and the verification after create_folder (create-folder-workflow.ts) never
\* settle on another, whatever others do between the reads.
THEOREM AdoptedFolderIsRequested == WorkflowSpec => FolderAsRequested
<1>1. ASSUME WorkflowInv, [WorkflowNext]_vars PROVE AdoptsRequestedFolder
  <2> SUFFICES ASSUME execution.operation = "create_folder_workflow",
                      execution'.operation = "execute_migration_workflow",
                      execution.data.selection.destinationFolderID = None
               PROVE  \E f \in folders :
                         /\ f.id = execution'.data.selection.destinationFolderID
                         /\ f.workspaceID = execution.data.plan.creation.workspaceID
                         /\ \/ f.id = request.folder
                            \/ Stripped[f.label] = execution.data.plan.creation.requestedPath
    BY DEF AdoptsRequestedFolder
  <2>1. /\ execution.status = "running"
        /\ FolderNotNeeded \/ EnsureFolder \/ VerifyFolder \/ RecheckFolder
    BY <1>1, FolderSteps
  <2>2. execution \in Jobs /\ \A fault : ~Refuses(fault)
    BY <1>1 DEF WorkflowInv, WorkflowTypeOK, Refuses, Failed, Jobs
  <2>3. ASSUME NEW rows \in FolderViews, NEW id \in Sole(CurrentFolders(rows)), Adopts(id)
        PROVE  \E f \in folders :
                  /\ f.id = execution'.data.selection.destinationFolderID
                  /\ f.workspaceID = execution.data.plan.creation.workspaceID
                  /\ Stripped[f.label] = execution.data.plan.creation.requestedPath
    <3>1. id \in FolderIDs
      BY <1>1, CurrentFolderIsNamed DEF WorkflowInv, WorkflowTypeOK, Folders
    <3>2. execution'.data.selection.destinationFolderID = id
      BY <1>1, <2>1, <2>3, <3>1, AdoptsFolder
    <3>3. QED
      BY <3>2, CurrentFolderIsNamed
  <2>4. CASE FolderNotNeeded
    BY <1>1, <2>1, <2>4, FolderJob
    DEF FolderNotNeeded, NeedsFolder, PlanOK, PlanParses, HasDestination
  <2>5. CASE EnsureFolder
    BY <2>2, <2>3, <2>5 DEF EnsureFolder
  <2>6. CASE RecheckFolder
    BY <2>2, <2>3, <2>6 DEF RecheckFolder
  <2>7. CASE VerifyFolder
    <3>1. PICK f \in folders : f.id = request.folder /\ Adopts(request.folder)
      BY <2>2, <2>7, ViewsAreFolders DEF VerifyFolder
    <3>2. f.id \in FolderIDs /\ request.folder # None
      BY <1>1, <3>1, WorkflowAssumption DEF WorkflowInv, WorkflowTypeOK, Folders
    <3>3. execution'.data.selection.destinationFolderID = f.id
      BY <1>1, <2>1, <3>1, <3>2, AdoptsFolder
    <3>4. f.workspaceID = request.workspaceID
      <4>1. /\ [id |-> f.id, workspaceID |-> f.workspaceID] \in issued
            /\ [id |-> f.id, workspaceID |-> request.workspaceID] \in issued
        BY <1>1, <3>1, <3>2 DEF WorkflowInv, FolderInv
      <4>2. [id |-> f.id, workspaceID |-> f.workspaceID]
              = [id |-> f.id, workspaceID |-> request.workspaceID]
        BY <1>1, <4>1 DEF WorkflowInv, FolderInv
      <4>3. QED
        BY <4>2
    <3>5. confirmed.creation.workspaceID = request.workspaceID
      BY <1>1, <3>2 DEF WorkflowInv, FolderInv, ExecutionInv, ExecutesConfirmedPlan
    <3>6. QED
      BY <1>1, <2>1, <3>1, <3>3, <3>4, <3>5, FolderJob
  <2>8. QED
    BY <2>1, <2>4, <2>5, <2>6, <2>7
<1>2. WorkflowInv /\ [WorkflowNext]_vars => [AdoptsRequestedFolder]_vars
  BY <1>1
<1>3. QED
  BY WorkflowInvariant, <1>2, PTL DEF WorkflowSpec, FolderAsRequested
----------------------------------------------------------------------------
\* The promise of ConfirmedMigration.  What WorkflowInv leaves open: nothing is
\* imported before the execution job ends, and nothing is confirmed before Confirm.
LaunchInv ==
    /\ execution.status \in {"none", "running"} => imported = None
    /\ cli.step \in {"start_migration_workflow", "observe_migration_workflow", "confirm"} =>
           confirmed = None

PromiseKept == [Promise!PromiseNext]_(Promise!promiseVars)

\* Of the planning workflow, of Voiceflow and of other people it says nothing.
LEMMA PromiseUndisturbed ==
  ASSUME LaunchInv, UNCHANGED <<cli, confirmed, execution, awaiting, imported>>
  PROVE  LaunchInv' /\ PromiseKept
BY DEF LaunchInv, PromiseKept, Promise!promiseVars, Said, Progress

\* The execution job goes on, or ends with an import or without one.
LEMMA ExecutionPromise ==
  ASSUME LaunchInv, execution.status = "running", UNCHANGED cliVars,
         execution'.status \in {"running", "succeeded", "failed"},
         awaiting' = "late" => imported' = imported,
         \/ imported' = imported
         \/ /\ execution'.status # "running"
            /\ imported' # None /\ IsFor(imported', confirmed)
  PROVE  LaunchInv' /\ PromiseKept
<1>1. LaunchInv'
  BY DEF LaunchInv, cliVars
<1>2. UNCHANGED <<confirmed, Said>>
  BY DEF Said, cliVars
<1>3. CASE execution'.status = "running" \/ awaiting' = "late"
  BY <1>1, <1>2, <1>3 DEF PromiseKept, Promise!promiseVars, Progress
<1>4. CASE execution'.status # "running" /\ awaiting' # "late" /\ imported' = imported
  <2>1. Promise!EndWithoutImport
    BY <1>2, <1>4 DEF Promise!EndWithoutImport, Progress
  <2>2. QED
    BY <1>1, <2>1 DEF PromiseKept, Promise!PromiseNext
<1>5. CASE /\ execution'.status # "running" /\ awaiting' # "late"
           /\ imported' # None /\ IsFor(imported', confirmed)
  <2>1. Promise!Import
    BY <1>2, <1>5 DEF Promise!Import, Progress
  <2>2. QED
    BY <1>1, <2>1 DEF PromiseKept, Promise!PromiseNext
<1>6. QED
  BY <1>1, <1>3, <1>4, <1>5

\* The steps of the execution job are of that kind.
LEMMA ExecutionKeepsPromise ==
  ASSUME WorkflowInv, LaunchInv,
         \/ ExecutionNext
         \/ \E operation \in Remote, point \in {"none", "verify", "recheck"} :
                Executes(operation, point) /\ Refuses("DEPENDENCY_FAILURE")
  PROVE  LaunchInv' /\ PromiseKept
<1>1. execution.status = "running" /\ UNCHANGED cliVars
  BY DEF ExecutionNext, InitializeExecution, FolderNotNeeded, EnsureFolder, CreateAnswered,
     CreateFails, VerifyFolder, RecheckFolder, CheckPlan, ImportEnds, ImportFails, Executes
<1>2. execution \in Jobs
  BY DEF WorkflowInv, WorkflowTypeOK
<1>3. ASSUME NEW data, execution' = Advanced(execution, data)
      PROVE  execution'.status \in {"running", "failed"}
  BY <1>3 DEF Advanced, Running
<1>4. ASSUME NEW fault, execution' = Failed(execution, fault)
      PROVE  execution'.status = "failed"
  BY <1>2, <1>4 DEF Failed, Jobs
<1>5. CASE ImportEnds \/ ImportFails
  <2>1. /\ execution.operation = "execute_migration_workflow"
        /\ \/ /\ execution' = Succeeded(execution, execution.data)
              /\ awaiting' = "none" /\ imported' = execution.data.selection
           \/ /\ execution' = Failed(execution, "DEPENDENCY_FAILURE")
              /\ \/ awaiting' = "none" /\ imported' \in {None, execution.data.selection}
                 \/ awaiting' = "late" /\ imported' = imported
    BY <1>5 DEF ImportEnds, ImportFails, Executes
  <2>2. execution'.status \in {"succeeded", "failed"}
    BY <1>2, <2>1 DEF Succeeded, Failed, Jobs
  <2>3. IsFor(execution.data.selection, confirmed)
    BY <1>1, <2>1, ImportJob
  <2>4. imported = None
    BY <1>1 DEF LaunchInv
  <2>5. imported' = imported \/ (imported' # None /\ IsFor(imported', confirmed))
    BY <2>1, <2>3, <2>4, ImportJob, <1>1, WorkflowAssumption
  <2>6. QED
    BY <1>1, <2>1, <2>2, <2>5, ExecutionPromise
<1>6. CASE ~ImportEnds /\ ~ImportFails
  <2>1. imported' = imported /\ awaiting' # "late"
    BY <1>1, <1>6 DEF Executes, ExecutionNext, InitializeExecution, FolderNotNeeded, EnsureFolder,
       CreateAnswered, CreateFails, VerifyFolder, RecheckFolder, CheckPlan, Adopts, Refuses
  <2>2. \/ execution' = execution
        \/ \E data : execution' = Advanced(execution, data)
        \/ \E fault : execution' = Failed(execution, fault)
    BY <1>6 DEF ExecutionNext, InitializeExecution, FolderNotNeeded, EnsureFolder,
       CreateAnswered, CreateFails, VerifyFolder, RecheckFolder, CheckPlan, Adopts, Refuses
  <2>3. execution'.status \in {"running", "failed"}
    BY <1>1, <1>3, <1>4, <2>2
  <2>4. QED
    BY <1>1, <2>1, <2>3, ExecutionPromise
<1>7. QED
  BY <1>5, <1>6

\* The CLI ends with a report, which is the one thing said.
LEMMA ReportKeepsPromise ==
  ASSUME WorkflowInv, LaunchInv, CLIActs, UNCHANGED <<confirmed, execution>>,
         cli.report = "none", NEW report \in Reports \ {"none"}, cli' = Ended(report),
         report \in {"planned", "envelope", "aborted", "configuration"} => execution = Idle,
         report = "job" => execution.status # "running",
         report = "success" => execution.status = "succeeded"
  PROVE  LaunchInv' /\ PromiseKept
<1>1. cli'.step = "done" /\ cli'.report = report /\ Said = "nothing"
  BY EndedIsRecord DEF WorkflowInv, WorkflowTypeOK, CLIRecords, Said
<1>2. UNCHANGED <<confirmed, Progress, imported>>
  BY DEF CLIActs, worldVars, Progress
<1>3. LaunchInv'
  BY <1>1, <1>2 DEF LaunchInv
<1>4. CASE report = "success"
  <2>1. imported # None
    BY <1>4 DEF WorkflowInv, ExecutionInv
  <2>2. Promise!SayDone
    BY <1>1, <1>2, <1>4, <2>1 DEF Promise!SayDone, Promise!Say, Said
  <2>3. QED
    BY <1>3, <2>2 DEF PromiseKept, Promise!PromiseNext
<1>5. CASE report \in {"network", "execute-outcome-unknown"}
           \/ (report = "job" /\ execution.status # "none")
  <2>1. Promise!SayUnknown
    BY <1>1, <1>2, <1>5 DEF Promise!SayUnknown, Promise!Say, Said
  <2>2. QED
    BY <1>3, <2>1 DEF PromiseKept, Promise!PromiseNext
<1>6. CASE report \in {"planned", "envelope", "aborted", "configuration"}
           \/ (report = "job" /\ execution.status = "none")
  <2>1. execution.status = "none" /\ imported = None
    BY <1>6 DEF Idle, LaunchInv
  <2>2. Progress = "none" /\ Said' = "not done"
    <3>1. awaiting # "late"
      BY <2>1 DEF WorkflowInv, WorkflowTypeOK
    <3>2. QED
      BY <1>1, <1>6, <2>1, <3>1 DEF Progress, Said
  <2>3. Promise!SayNotDone
    BY <1>1, <1>2, <2>1, <2>2 DEF Promise!SayNotDone, Promise!Say
  <2>4. QED
    BY <1>3, <2>3 DEF PromiseKept, Promise!PromiseNext
<1>7. QED
  BY <1>4, <1>5, <1>6 DEF Reports
\* The steps of the CLI.
LEMMA CLIKeepsPromise ==
  ASSUME ~ActiveHasCompleted, WorkflowInv, LaunchInv, CLINext
  PROVE  LaunchInv' /\ PromiseKept
<1>1. /\ cli.step # "done" /\ cli.report = "none" /\ CLIActs
      /\ cli \in CLIRecords
  BY DEF CLINext, StartPlanning, StartExecution, StreamEnds, StreamFails, PollFinds, PollFails,
     PollDeadline, Observes, Observing, Confirm, LoadSecrets, WorkflowInv, WorkflowTypeOK,
     CLIInv, CLIRecords
<1>2. UNCHANGED <<awaiting, imported>>
  BY <1>1 DEF CLIActs, worldVars
<1>3. ASSUME UNCHANGED <<confirmed, execution>>, cli'.report = "none",
             cli'.step \in {"start_migration_workflow", "observe_migration_workflow", "confirm"}
             => confirmed = None
      PROVE  LaunchInv' /\ PromiseKept
  BY <1>1, <1>2, <1>3 DEF LaunchInv, PromiseKept, Promise!promiseVars, Said, Progress
<1>4. CASE StartPlanning
  <2>1. /\ cli.step = "start_migration_workflow" /\ UNCHANGED <<confirmed, execution>>
        /\ cli' = [cli EXCEPT !.step = "observe_migration_workflow"] \/ cli' = Ended("network")
    BY <1>4 DEF StartPlanning
  <2>2. confirmed = None
    BY <2>1 DEF LaunchInv
  <2>3. CASE cli' = [cli EXCEPT !.step = "observe_migration_workflow"]
    BY <1>1, <1>3, <2>1, <2>2, <2>3 DEF CLIRecords
  <2>4. CASE cli' = Ended("network")
    BY <1>1, <2>1, <2>4, ReportKeepsPromise DEF Reports
  <2>5. QED
    BY <2>1, <2>3, <2>4
<1>5. CASE StartExecution
  <2>1. /\ cli.step = "start_execution_workflow" /\ execution = Idle
        /\ PlanOK(confirmed) /\ UNCHANGED confirmed
        /\ execution' \in {Idle, Running("initialize_execution_workflow", Handoff(confirmed))}
        /\ \/ /\ execution' = Running("initialize_execution_workflow", Handoff(confirmed))
              /\ cli' = [cli EXCEPT !.step = "observe_execution_workflow", !.mode = "stream"]
           \/ cli' = Ended("network")
    BY <1>5 DEF StartExecution, WorkflowInv, CLIInv
  <2>2. Running("initialize_execution_workflow", Handoff(confirmed)).status = "running"
    BY <2>1, HandoffParses, RunningAccepts, Tables, OperationNames
  <2>3. confirmed # None /\ execution.status = "none" /\ imported = None
    BY <2>1 DEF PlanOK, PlanParses, Idle, LaunchInv
  <2>4. /\ cli'.report \in {"none", "network"}
        /\ cli'.step \in {"observe_execution_workflow", "done"}
    <3>1. CASE cli' = [cli EXCEPT !.step = "observe_execution_workflow", !.mode = "stream"]
      BY <1>1, <3>1 DEF CLIRecords
    <3>2. CASE cli' = Ended("network")
      BY <1>1, <3>2, EndedIsRecord DEF Reports
    <3>3. QED
      BY <2>1, <3>1, <3>2
  <2>5. CASE execution'.status = "running"
    <3>1. LaunchInv'
      BY <1>2, <2>3, <2>4 DEF LaunchInv
    <3>2. awaiting # "late"
      BY <2>3 DEF WorkflowInv, WorkflowTypeOK
    <3>3. Promise!Launch
      BY <1>1, <1>2, <2>1, <2>3, <2>4, <2>5, <3>2 DEF Promise!Launch, Said, Progress
    <3>4. QED
      BY <3>1, <3>3 DEF PromiseKept, Promise!PromiseNext
  <2>6. CASE execution' = Idle /\ cli' = Ended("network")
    BY <1>1, <2>1, <2>6, ReportKeepsPromise DEF Reports
  <2>7. QED
    BY <2>1, <2>2, <2>5, <2>6
<1>6. ASSUME cli.step \in Observing, UNCHANGED <<confirmed, execution>>,
             ObservedJob.status \in {"succeeded", "failed"},
             NEW data, cli' = Reads(ObservedJob, data)
      PROVE  LaunchInv' /\ PromiseKept
  <2>1. CASE ObservedJob.status = "failed"
    <3>1. execution.status # "running"
      BY <1>6, <2>1 DEF ObservedJob, Observing, WorkflowInv, CLIInv, Idle
    <3>2. QED
      BY <1>1, <1>6, <2>1, <3>1, ReportKeepsPromise DEF Reads, Reports
  <2>2. CASE ObservedJob.status = "succeeded" /\ cli.step = "observe_execution_workflow"
    BY <1>1, <1>6, <2>2, ReportKeepsPromise DEF Reads, Reports, ObservedJob
  <2>3. CASE ObservedJob.status = "succeeded" /\ cli.step = "observe_migration_workflow"
    <3>1. execution = Idle /\ confirmed = None /\ cli' = AfterPlanning(data)
      BY <1>6, <2>3 DEF WorkflowInv, CLIInv, LaunchInv, Reads
    <3>2. CASE cli' \in {Ended("planned"), Ended("envelope")}
      BY <1>1, <1>6, <3>1, <3>2, ReportKeepsPromise DEF Reports
    <3>3. CASE cli' = [cli EXCEPT !.step = "confirm", !.plan = data.plan]
      BY <1>1, <1>3, <1>6, <3>1, <3>3 DEF CLIRecords
    <3>4. QED
      BY <3>1, <3>2, <3>3 DEF AfterPlanning
  <2>4. QED
    BY <1>6, <2>1, <2>2, <2>3 DEF Observing
<1>7. CASE StreamEnds \/ PollFinds
  BY <1>6, <1>7 DEF StreamEnds, PollFinds, Observes, IsFinalJob
<1>8. CASE StreamFails
  <2>1. UNCHANGED <<confirmed, execution>> /\ cli' = [cli EXCEPT !.mode = "poll"]
    BY <1>8 DEF StreamFails, Observes
  <2>2. cli'.step = cli.step /\ cli'.report = "none"
    BY <1>1, <2>1 DEF CLIRecords
  <2>3. QED
    BY <1>3, <2>1, <2>2 DEF LaunchInv
<1>9. CASE PollFails \/ PollDeadline
  BY <1>1, <1>9, ReportKeepsPromise DEF PollFails, PollDeadline, Observes, Reports
<1>10. CASE Confirm
  <2>1. /\ cli.step = "confirm" /\ execution = Idle /\ PlanOK(cli.plan)
        /\ UNCHANGED execution
        /\ \/ cli' = [cli EXCEPT !.step = "load_secrets"] /\ confirmed' = cli.plan
           \/ cli' = Ended("aborted") /\ confirmed' = None
    BY <1>10 DEF Confirm, Granted, WorkflowInv, CLIInv
  <2>2. confirmed = None
    BY <2>1 DEF LaunchInv
  <2>3. CASE cli' = [cli EXCEPT !.step = "load_secrets"] /\ confirmed' = cli.plan
    <3>1. /\ cli'.step = "load_secrets" /\ cli'.report = "none"
          /\ confirmed' \in MigrationPlans /\ confirmed' # None
      BY <1>1, <2>1, <2>3 DEF CLIRecords, PlanOK, PlanParses
    <3>2. LaunchInv'
      BY <1>2, <2>1, <3>1 DEF LaunchInv
    <3>3. Promise!Confirm
      BY <1>1, <1>2, <2>1, <2>2, <3>1 DEF Promise!Confirm, Said, Progress, Idle
    <3>4. QED
      BY <3>2, <3>3 DEF PromiseKept, Promise!PromiseNext
  <2>4. CASE cli' = Ended("aborted") /\ confirmed' = None
    BY <1>1, <2>1, <2>2, <2>4, ReportKeepsPromise DEF Reports
  <2>5. QED
    BY <2>1, <2>3, <2>4
<1>11. CASE LoadSecrets
  <2>1. /\ cli.step = "load_secrets" /\ execution = Idle /\ UNCHANGED <<confirmed, execution>>
        /\ cli' = [cli EXCEPT !.step = "start_execution_workflow"] \/ cli' = Ended("configuration")
    BY <1>11 DEF LoadSecrets, WorkflowInv, CLIInv
  <2>2. CASE cli' = [cli EXCEPT !.step = "start_execution_workflow"]
    BY <1>1, <1>3, <2>1, <2>2 DEF CLIRecords
  <2>3. CASE cli' = Ended("configuration")
    BY <1>1, <2>1, <2>3, ReportKeepsPromise DEF Reports
  <2>4. QED
    BY <2>1, <2>2, <2>3
<1>12. QED
  BY <1>4, <1>5, <1>7, <1>8, <1>9, <1>10, <1>11 DEF CLINext

\* A migration is over when its job and the import the job left are.
LEMMA LateImportPromise ==
  ASSUME WorkflowInv, LaunchInv, LateImport PROVE LaunchInv' /\ PromiseKept
<1> DEFINE selection == execution.data.selection
<1>1. /\ awaiting = "late" /\ awaiting' = "none" /\ imported' = selection
      /\ UNCHANGED <<cliVars, execution>>
      /\ execution.status = "failed" /\ selection \in Selections /\ selection # None
      /\ IsFor(selection, confirmed)
  BY WorkflowAssumption
  DEF LateImport, WorkflowInv, WorkflowTypeOK, ExecutionInv, Jobs, WorkflowData
<1>2. LaunchInv'
  BY <1>1 DEF LaunchInv, cliVars
<1>3. Promise!Import
  BY <1>1 DEF Promise!Import, Progress, Said, cliVars
<1>4. QED
  BY <1>2, <1>3 DEF PromiseKept, Promise!PromiseNext

LEMMA WorkflowPromiseStep ==
  ASSUME ~ActiveHasCompleted, WorkflowInv, LaunchInv, [WorkflowNext]_vars
  PROVE  LaunchInv' /\ PromiseKept
<1>1. CASE PlanningNext
  <2>1. UNCHANGED <<cli, confirmed, execution, awaiting, imported>>
    BY <1>1 DEF PlanningNext, HandOn, LoadWorkspaces, LoadSourceCatalog, ResolveSourceSelection,
       ResolveSourceSchema, LoadDestinationCatalog, ResolveDestinationSelection, PlanMigration,
       Plans, cliVars, worldVars
  <2>2. QED
    BY <2>1, PromiseUndisturbed
<1>2. CASE ExecutionNext
  BY <1>2, ExecutionKeepsPromise
<1>3. CASE Unavailable
  <2>1. CASE \E operation \in Remote :
               Plans(operation) /\ planning' = Failed(planning, "DEPENDENCY_FAILURE")
    BY <2>1, PromiseUndisturbed DEF Plans, cliVars, worldVars
  <2>2. QED
    BY <1>3, <2>1, ExecutionKeepsPromise DEF Unavailable
<1>4. CASE WorldNext
  <2>1. CASE LateImport
    BY <2>1, LateImportPromise
  <2>2. CASE ~LateImport
    <3>1. UNCHANGED <<cli, confirmed, execution, awaiting, imported>>
      BY <1>4, <2>2 DEF WorldNext, ApplyCreate, DropCreate, OtherCreates, OtherDeletes,
         OtherRenames, OthersAct, ChangesFolders, cliVars
    <3>2. QED
      BY <3>1, PromiseUndisturbed
  <2>3. QED
    BY <2>1, <2>2
<1>5. CASE CLINext
  BY <1>5, CLIKeepsPromise
<1>6. CASE BodyStalls \/ UNCHANGED vars
  BY <1>6, PromiseUndisturbed DEF BodyStalls, vars, cliVars, worldVars
<1>7. QED
  BY <1>1, <1>2, <1>3, <1>4, <1>5, <1>6 DEF WorkflowNext

\* performWorkflowMigration() keeps the promise that events mode keeps: with a
\* get_job that leaves `completed` out of an active job, every run of the two
\* workflows is one of ConfirmedMigration.
THEOREM WorkflowKeepsPromise ==
  ASSUME ~ActiveHasCompleted
  PROVE  WorkflowSpec => KeepsPromise
<1>1. WorkflowInit => LaunchInv /\ Promise!PromiseInit
  BY DEF WorkflowInit, LaunchInv, Promise!PromiseInit, Said, Progress, Idle
<1>2. WorkflowInv /\ LaunchInv /\ [WorkflowNext]_vars => LaunchInv' /\ PromiseKept
  BY WorkflowPromiseStep
<1>3. QED
  BY <1>1, <1>2, WorkflowInvariant, PTL
  DEF WorkflowSpec, KeepsPromise, Promise!PromiseSpec, PromiseKept
=============================================================================
