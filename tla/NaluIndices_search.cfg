SPECIFICATION Spec
CONSTANTS
    Buffers <- MCBuffers
    Later <- MCLater
INVARIANTS TypeOK FindsAll Tiled
