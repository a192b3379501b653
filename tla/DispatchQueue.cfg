\* Two workers and two producers: more than MainThread has, so that workers race.
SPECIFICATION Spec
CONSTANTS
    Workers = {w1, w2}
    Producers = {p1, p2}
    Owner = owner
    None = none
    Idle = idle
    MaxOps = 4
INVARIANTS TypeOK NoLostWakeup NobodySleepsThroughQuit
PROPERTIES StartsInOrder ImplementsTaskQueue DestructorReturns ServesTaskQueue
