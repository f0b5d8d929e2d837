\* The configured folder is there, and its name ends with something in parentheses.
SPECIFICATION WorkflowSpec
CHECK_DEADLOCK FALSE
CONSTANTS
    Names <- MCNames
    WorkspaceRecords <- MCWorkspaces
    ProjectRecords <- MCProjects
    FolderRecords <- MCSuffixed
    FolderIDs <- MCFolderIDs
    Labels <- MCLabels
    Stripped <- MCStripped
    Configs <- MCSuffixedConfig
    ExportedSchema = "12"
    ActiveHasCompleted = FALSE
    MaxOthers = 0
    None = None
INVARIANTS
    ExactNamesResolved
