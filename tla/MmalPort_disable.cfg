SPECIFICATION Spec
CONSTANTS
    Clients = {c1}
    Action = action
    Buffers = {b1}
    BufferNum = 1
    MaxWaiters = 1
    MaxEvents = 1
    Failing = {"disable"}
    Event = event
    None = none
INVARIANTS
    ContextsBack
