SPECIFICATION Spec
CONSTANTS
    a = a
    b = b
    raw = raw
    Call <- Calls
    RawCall <- Raws
    None = None
SYMMETRY Names
INVARIANTS
    AnsweredOnce
    OutcomeIsOwn
    AnsweredIfPossible
\* Every call has ended.
CHECK_DEADLOCK FALSE
