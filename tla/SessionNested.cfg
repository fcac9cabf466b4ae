SPECIFICATION Spec
CONSTANTS
    Names = {"f", "g", "t-m"}
    Method = "t-m"
    Natives = {"print"}
    Modules <- MCModules
    Disks <- NestedDisks
    Inputs <- NestedInputs
    Unreadable = {}
    Rejected = {}
    Saved = {}
    MaxInputs = 3
INVARIANTS NoDangling
CHECK_DEADLOCK FALSE
