\* A node crashes with a job in hand and restarts at once.
CONSTANTS
    Jobs = {j1}
    Nodes = {n1}
    NoJob = NoJob
    Unhandled = {}
    Visibility = 1
    MaxSkew = 0
    MaxFailures = 1
    MaxStops = 0
SPECIFICATION Spec
PROPERTIES RestartRecovers
