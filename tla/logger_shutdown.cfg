SPECIFICATION FairSpec
CONSTANTS
    Producers = {p1}
    Consumers = {bg, caller, main}
    Flusher = bg
    Flushers = {caller}
    Owner = main
    Batch = 2
    Events = {e1}
    NoEvent = NoEvent
    Capacity = 2
    MaxPushes = 3
PROPERTY ShutdownEnds
CHECK_DEADLOCK FALSE
