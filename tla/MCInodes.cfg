SPECIFICATION Spec
CONSTANTS
    o1 = o1
    o2 = o2
    o3 = o3
    t1 = t1
    t2 = t2
    Numbers = {0, 1}
    Objects = {o1, o2, o3}
    Threads = {t1, t2}
    Tables <- MCTables
    Kernels <- MCKernels
    MaxMounts = 2
    MaxFailures = 1
INVARIANTS
    TypeOK
    LookupGivesNode
    PageWhole
    FaultsExplained
PROPERTIES
    CallsReturn
\* Nothing follows a fault, the module's removal or the last unmount.
CHECK_DEADLOCK FALSE
