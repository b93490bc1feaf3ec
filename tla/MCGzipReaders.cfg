SPECIFICATION Spec
CONSTANTS
    d1 = d1
    d2 = d2
    r1 = r1
    r2 = r2
    Devices = {d1, d2}
    Readers = {r1, r2}
    Images <- MCGzip
    MaxMounts = 1
    MaxReads = 2
    MaxFailures = 0
SYMMETRY ReaderSymmetry
INVARIANTS
    ReadsRight
\* The calls of mount and node_read are bounded, and nothing follows a fault.
CHECK_DEADLOCK FALSE
