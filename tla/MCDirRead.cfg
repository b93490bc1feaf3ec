SPECIFICATION FairSpec
CONSTANTS
    Names <- MCNames
    MaxEntries = 3
    Widths = {1, 2}
    MaxRoom = 2
    MaxSeeks = 1
    MaxFailures = 1
INVARIANTS
    LookupAgrees
PROPERTIES
    ImplementsCursor
    ReachesEnd
