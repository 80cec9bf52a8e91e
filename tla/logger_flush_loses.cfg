SPECIFICATION Spec
CONSTANTS
    Producers = {p1}
    Consumers = {bg, caller, main}
    Flusher = bg
    Flushers = {caller}
    Owner = main
    Batch = 2
    Events = {e1}
    NoEvent = NoEvent
    Capacity = 2
    MaxPushes = 3
INVARIANT DestructorDrains
CHECK_DEADLOCK FALSE
