SPECIFICATION FairSpec
CONSTANTS
    Producers = {p1, p2}
    Consumers = {bg, main}
    Flusher = bg
    Flushers = {}
    Owner = main
    Batch = 2
    Events = {e1, e2}
    NoEvent = NoEvent
    Capacity = 2
    MaxPushes = 4
INVARIANTS LoggerTypeOK DestructorDrains NoDataRace
PROPERTIES SinkInOrder EventReachesSink ImplementsBoundedQueue
CHECK_DEADLOCK FALSE
