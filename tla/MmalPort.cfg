SPECIFICATION Spec
CONSTANTS
    Clients = {c1, c2}
    Action = action
    Buffers = {b1, b2}
    BufferNum = 1
    MaxWaiters = 1
    MaxEvents = 1
    Failing = {"enable", "flush", "set", "send"}
    Event = event
    None = none
INVARIANTS
    TypeOK
    NeverCrashes
    ContextsBack
    TransitCounts
    AnswersFindWaiter
PROPERTIES
    KeepsPromise
    EnableAndDisableReturn
    BuffersComeBack
