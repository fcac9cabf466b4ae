SPECIFICATION Spec
CONSTANTS
    Names = {"f", "g", "t-m"}
    Method = "t-m"
    Natives = {"print"}
    Modules <- MCModules
    Disks <- CycleDisks
    Inputs <- CycleInputs
    Unreadable = {}
    Rejected = {}
    Saved = {}
    MaxInputs = 3
PROPERTIES InputEnds
CHECK_DEADLOCK FALSE
