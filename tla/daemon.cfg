SPECIFICATION CliSpec
CONSTANTS
    Clients = {c1, c2}
    Nobody = Nobody
    MaxEdits = 2
    QueueLimit = 1
INVARIANTS DaemonTypeOK NothingUsedDestroyed EditsAreRead
PROPERTIES QueueMoves StopEnds
CHECK_DEADLOCK FALSE
