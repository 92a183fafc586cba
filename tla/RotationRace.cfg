SPECIFICATION Spec
CONSTANTS
    Tasks = {t1, t2}
    Worker = w
    ana = ana
    bea = bea
    email = email
    Forms <- MCForms
    ListLimit = 1
    MaxRequests = 2
    MaxJobs = 1
    MaxSegment = 1
SYMMETRY Symmetry
INVARIANT RotatedIsFull
CHECK_DEADLOCK FALSE
