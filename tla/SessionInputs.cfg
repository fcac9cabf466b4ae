SPECIFICATION Spec
CONSTANTS
    Names = {"f", "g", "t-m"}
    Method = "t-m"
    Natives = {"print"}
    Modules <- MCModules
    Disks <- PassDisks
    Inputs <- PassInputs
    Unreadable = {"d"}
    Rejected = {"c"}
    Saved = {"c"}
    MaxInputs = 4
INVARIANTS TablesSound RetryIsSound NamesResolve
PROPERTIES FailureChangesNothing InputEnds
CHECK_DEADLOCK FALSE
