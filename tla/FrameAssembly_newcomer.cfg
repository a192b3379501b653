SPECIFICATION Spec
CONSTANTS
    Buffers <- MCBuffers
    Capacity <- MCCapacity
    Junk = junk
PROPERTY NewcomerGetsKeyFrame
