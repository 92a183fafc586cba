\* Two jobs, one of them without a handler, and one failure: a crash, a lost
\* reply or a failed acknowledge.
CONSTANTS
    Jobs = {j1, j2}
    Nodes = {n1, n2}
    NoJob = NoJob
    Unhandled = {j2}
    Visibility = 1
    MaxSkew = 0
    MaxFailures = 1
    MaxStops = 0
SPECIFICATION FairSpec
PROPERTIES EveryJobSettles Contract
