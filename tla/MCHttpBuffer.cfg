SPECIFICATION Spec
CONSTANTS
    Byte = {"a", "b", "0"}
    NUL = "0"
    Segment <- MCSegment
    BUFFER_SIZE = 2
    MaxLen = 7
INVARIANTS TypeOK MemorySafe TerminatorFits RetainedMemoryBounded
PROPERTY LogSpec
