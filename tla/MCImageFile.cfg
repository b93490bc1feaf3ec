SPECIFICATION Spec
CONSTANTS
    DevBlock = 2
    Page = 4
    IntEnd = 8
    MaxFailures = 1
    GzipBound = 2
    LzoExtra = 3
    NewImages <- MCNewImages
    Targets <- MCTargets
    Padding = 4
    MaxWrite = 7
    MaxKmalloc = 3
INVARIANTS
    ReadExact
    ReadStaysInside
    FileNeverLies
    SuccessIsWhole
    FailuresExplained
    OverrunOnlyLzo
\* The mount is refused, or has crashed.
CHECK_DEADLOCK FALSE
