\* destination_folder names a folder that is not there.
SPECIFICATION WorkflowSpec
CHECK_DEADLOCK FALSE
CONSTANTS
    Names <- MCNames
    WorkspaceRecords <- MCWorkspaces
    ProjectRecords <- MCProjects
    FolderRecords <- MCFolders
    FolderIDs <- MCFolderIDs
    Labels <- MCLabels
    Stripped <- MCStripped
    Configs <- MCNamedFolder
    ExportedSchema = "12"
    ActiveHasCompleted = FALSE
    MaxOthers = 0
    None = None
INVARIANTS
    CanonicalFolder
