\* The lock changes hands between GET and EXPIRE.
CONSTANTS
    Nodes = {n1, n2}
    Tasks = {t1}
    Corrupt = {}
    Free = Free
    Gone = Gone
    LeaderTTL = 1
    Batch = 1
    MaxDelay = 0
    MaxFailures = 0
SPECIFICATION Spec
PROPERTIES FencedRenewal
