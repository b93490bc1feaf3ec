SPECIFICATION StreamSpec
CONSTANTS
    WordBits = 12
    Widths = {0, 3, 8, 11}
    Values <- MCValues
    MaxFields = 3
INVARIANTS
    RoundTrip
    ReadsAreBitwise
