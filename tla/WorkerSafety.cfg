\* Two nodes, two jobs, two failures, a shutdown, and a reaper whose clock may
\* run a tick ahead.
CONSTANTS
    Jobs = {j1, j2}
    Nodes = {n1, n2}
    NoJob = NoJob
    Unhandled = {}
    Visibility = 2
    MaxSkew = 1
    MaxFailures = 2
    MaxStops = 1
SPECIFICATION Spec
SYMMETRY Symmetry
INVARIANTS TypeOK NotLost ExclusiveLease FifoFirstDelivery AtMostOneAfterShutdown
