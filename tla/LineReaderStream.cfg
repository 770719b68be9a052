SPECIFICATION SpecLines
CONSTANTS
    Ends <- RecordEnds
    Streamed = 54
    MaxLine = 3
    Chunk = 5
PROPERTY
    StreamRefined
CHECK_DEADLOCK FALSE
