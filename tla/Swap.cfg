SPECIFICATION FairSpec
CONSTANTS
    Writes <- OneWrite
    Imports <- OneImport
    Migrated = FALSE
    Limits <- Scenarios
INVARIANTS OneDatabase AlwaysRecoverable
PROPERTIES ReadsNeverGoBack KeepsStore ServesAgain
CHECK_DEADLOCK FALSE
