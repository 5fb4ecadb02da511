SPECIFICATION Spec
CHECK_DEADLOCK FALSE
CONSTANTS
    Catalogs <- MCCatalogs
    MaxAlterations = 1
    MaxTables = 2
    MaxColumns = 4
    None = None
INVARIANTS GreenMeansAllRan
