SPECIFICATION Spec
CONSTANTS
    NodeTables <- MCNodeTables
    Disabled <- MCDisabled
    BlockSizes = {1, 4, 6, 9}
    CompressedSizes = {1, 2, 3, 8}
    MinBlockLog2 = 2
    MaxBlockLog2 = 3
    WordBits = 12
INVARIANTS
    FieldsReadBack
    BlockSizeIsShift
    ContentReadBack
    BlocksInRange
\* output_write ends: written, failed or crashed.
CHECK_DEADLOCK FALSE
