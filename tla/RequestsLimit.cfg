SPECIFICATION Spec
CONSTANTS
    a = a
    b = b
    raw = raw
    Call <- Calls
    RawCall <- Raws
    None = None
SYMMETRY Names
INVARIANT
    RecordsLimited
CHECK_DEADLOCK FALSE
