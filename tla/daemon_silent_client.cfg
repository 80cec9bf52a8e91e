SPECIFICATION Spec
CONSTANTS
    Clients = {c1}
    Nobody = Nobody
    MaxEdits = 1
    QueueLimit = 1
PROPERTY ReadEnds
CHECK_DEADLOCK FALSE
