SPECIFICATION Spec
CONSTANTS
    d1 = d1
    d2 = d2
    r1 = r1
    r2 = r2
    Devices = {d1, d2}
    Readers = {r1, r2}
    Images <- MCImages
    MaxMounts = 3
    MaxReads = 2
    MaxFailures = 1
SYMMETRY ReaderSymmetry
INVARIANTS
    FaultsNeedCauses
    NothingHeld
    ReadsRightAlone
\* The calls of mount and node_read are bounded, and nothing follows a fault.
CHECK_DEADLOCK FALSE
