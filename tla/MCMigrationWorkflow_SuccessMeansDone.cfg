\* get_job says `completed: false` of an active job.
SPECIFICATION WorkflowSpec
CHECK_DEADLOCK FALSE
CONSTANTS
    Names <- MCNames
    WorkspaceRecords <- MCWorkspaces
    ProjectRecords <- MCProjects
    FolderRecords <- MCFolders
    FolderIDs <- MCFolderIDs
    Labels <- MCLabels
    Stripped <- MCStripped
    Configs <- MCConfigs
    ExportedSchema = "12"
    ActiveHasCompleted = TRUE
    MaxOthers = 0
    None = None
INVARIANTS
    SuccessMeansDone
