SPECIFICATION Spec
CONSTANTS
    MaxEntries = 5
    MaxFailures = 2
    x = x
    y = y
    Contents = {x, y}
SYMMETRY ContentSymmetry
CONSTRAINT FewerFailuresWhenLong
INVARIANTS
    DenseNumbers
    DirectoryFaithful
    NoSharedContent
    ParentLinks
    RootReachesAll
\* The scan ends with fts_read's NULL, or the process with it.
CHECK_DEADLOCK FALSE
