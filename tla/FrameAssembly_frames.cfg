SPECIFICATION Spec
CONSTANTS
    Buffers <- MCBuffers
    Capacity <- MCCapacity
    Junk = junk
PROPERTIES FrameIsWhole
INVARIANTS TypeOK OverflowOnlyIfTooLong
