SPECIFICATION Spec
CONSTANTS
    Receivers = {logger, s1, s2}
    Logger = logger
    Sessions = {s1, s2}
    Capacity = 2
    QueueCapacity = 2
    MaxSignals = 5
    MaxTexts = 2
INVARIANTS TypeOK BusInOrder ChatShown ChatPresence
PROPERTIES EverySignalLogged
CHECK_DEADLOCK FALSE
