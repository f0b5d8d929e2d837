\* A snapshot with rows of another workspace.
SPECIFICATION CatalogFairSpec
CHECK_DEADLOCK FALSE
CONSTANTS
    Wanted = {projects, assistants}
    Sizes = {1, 2}
    RowCounts = {1, 2}
    MaxFrame = 1
    MaxBytes = 5
    MaxRows = 3
    MaxVersion = 2
INVARIANT ResultScoped
