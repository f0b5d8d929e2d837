\* Runs of the CLI with other people beside it; at the end nothing moves.
SPECIFICATION FlowFairSpec
CHECK_DEADLOCK FALSE
CONSTANTS
    Workspaces <- MCWorkspaces
    Projects <- MCProjects
    Versions <- MCVersions
    WorkspaceOf <- MCWorkspaceOf
    ProjectOf <- MCProjectOf
    SchemaOf <- MCSchemaOf
    DraftDevelopment <- MCDrafts
    FolderIDs = {7, 8}
    Names <- MCNames
    Leading <- MCLeading
    Rank <- MCRank
    FirstFolders <- MCFirstFolders
    Configs <- MCConfigs
    Schemas = {"12", "13.1"}
    DefaultSchema = "13.1"
    MaxLines = 3
    MaxAhead = 1
    MaxOthers = 2
INVARIANTS
    ExecutesWhatWasShown
    FolderIsTheOneMeant
    FailureIsFinal
PROPERTIES
    CreatesOnlyMissing
    KeepsPromise
    FlowProceeds
