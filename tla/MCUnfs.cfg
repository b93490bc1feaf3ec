SPECIFICATION FairSpec
CONSTANTS
    Names = {"a", "b", "c"}
    Images <- MCImages
    Leftovers <- MCLeftovers
    Owners <- MCOwners
    User = "user"
    Up = "up"
    MaxParts = 12
    MaxFailures = 2
INVARIANTS
    CwdFollowsLoops
    LossIsReported
    RootLosesToObstacles
    ModesSet
PROPERTIES
    Ends
\* unfs.smashfs ends.
CHECK_DEADLOCK FALSE
