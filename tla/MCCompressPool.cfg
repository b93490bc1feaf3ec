SPECIFICATION FairSpec
CONSTANTS
    NBlocks = 3
    MAX_JOBS = 3
    BlockSize = 2
    LastSize = 1
INVARIANTS
    TypeOK
    ExclusiveClaim
    GatheredFaithful
    NoImageAfterFailure
    FreedUnderJobOnlyIfCreateFailed
    SurvivorLeavesNoBlock
PROPERTIES
    ImplementsCompressAll
