SPECIFICATION ContractsSpec
CONSTANTS
    Spare = 100
    Maximum <- FewOfEach
    Contracted <- ManyMigrations
CHECK_DEADLOCK FALSE
INVARIANT
    ContractsAreSaved
