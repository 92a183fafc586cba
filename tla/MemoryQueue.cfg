\* Three jobs, one of them without a handler.  The process really stops once
\* it was told to and every job was enqueued.
CONSTANTS
    Jobs = {j1, j2, j3}
    NoJob = NoJob
    Unhandled = {j3}
SPECIFICATION Spec
INVARIANTS TypeOK ExactlyOnceInOrder Accounted
PROPERTIES Contract EveryJobSettles
CHECK_DEADLOCK FALSE
