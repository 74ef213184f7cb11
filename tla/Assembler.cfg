SPECIFICATION Spec
CONSTANTS
    ImmBits = 4
    ByteBits = 4
    Sources <- ShortSources
    Malformed <- MalformedLines
INVARIANTS
    AcceptsExactly
    ImageExact
    WritesInBuffer
    RoundTrip
CHECK_DEADLOCK FALSE
