\* Two nodes, two tasks, and corrupt entries that fill a batch; one failure.
CONSTANTS
    Nodes = {n1, n2}
    Tasks = {t1, t2, t3, t4}
    Corrupt = {t3, t4}
    Free = Free
    Gone = Gone
    LeaderTTL = 1
    Batch = 2
    MaxDelay = 1
    MaxFailures = 1
SPECIFICATION FairSpec
INVARIANTS TypeOK ScheduledNotLost NeverEarly DuplicateNeedsAFailure BoundedDuplicates
PROPERTIES EveryTaskEnqueued CorruptRemoved
