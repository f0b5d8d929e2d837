\* Requests of the CLI may fail.
SPECIFICATION WorkflowSpec
CHECK_DEADLOCK FALSE
CONSTANTS
    Names <- MCNames
    WorkspaceRecords <- MCWorkspaces
    ProjectRecords <- MCProjects
    FolderRecords <- MCFolders
    FolderIDs <- MCFolderIDs
    Labels <- MCLabels
    Stripped <- MCStripped
    Configs <- MCConfigs
    ExportedSchema = "12"
    ActiveHasCompleted = FALSE
    MaxOthers = 0
    None = None
INVARIANTS
    UnobservedIsUnknown
