SPECIFICATION Spec
CONSTANTS
    Names = {"f", "g", "t-m"}
    Method = "t-m"
    Natives = {"print"}
    Modules <- MCModules
    Disks <- PassDisks
    Inputs <- PassInputs
    Unreadable = {}
    Rejected = {"c"}
    Saved = {}
    MaxInputs = 3
INVARIANTS RetryIsPossible
CHECK_DEADLOCK FALSE
