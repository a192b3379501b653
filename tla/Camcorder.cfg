\* Three buffers a round: one in each of three places.
SPECIFICATION Spec
CONSTANT Buffers = 3
PROPERTIES StopIsHonoured FailureIsReported OutputIsDelivered
INVARIANTS TypeOK BuffersConserved CallbacksFindAll NothingLeaks
