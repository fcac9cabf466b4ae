SPECIFICATION Spec
CONSTANTS
    Names = {"f", "g", "t-m"}
    Method = "t-m"
    Natives = {"print"}
    Modules <- MCModules
    Disks <- TwoDisks
    Inputs <- TwoInputs
    Unreadable = {}
    Rejected = {}
    Saved = {}
    MaxInputs = 3
INVARIANTS ImportsAreRequired
CHECK_DEADLOCK FALSE
