\* Two workflows, two folder IDs to be used yet, two steps of other people; the
\* CLI ends, and a job nobody observes may hang.
SPECIFICATION FairWorkflow
CHECK_DEADLOCK FALSE
CONSTANTS
    Names <- MCNames
    WorkspaceRecords <- MCWorkspaces
    ProjectRecords <- MCProjects
    FolderRecords <- MCFolders
    FolderIDs <- MCFolderIDs
    Labels <- MCLabels
    Stripped <- MCStripped
    Configs <- MCConfigs
    ExportedSchema = "12"
    ActiveHasCompleted = FALSE
    MaxOthers = 2
    None = None
INVARIANTS
    ExecutesConfirmedPlan
    AcceptedByNextJob
    ReportIsTrue
PROPERTIES
    FolderAsRequested
    KeepsPromise
    RunEnds
