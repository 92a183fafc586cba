\* Two nodes and two slugs with room for one in each node's map.
CONSTANTS
    Nodes = {n1, n2}
    Keys = {k1, k2}
    Tasks = {t1, t2}
    Welcome = k1
    Absent = Absent
    Capacity = 1
    MaxRequests = 2
    MaxFailures = 1
SPECIFICATION Spec
INVARIANTS TypeOK HistoryMatchesPage CapacityBounded StaleNeedsARace
PROPERTIES PagesAreLogs EveryNodeServes
CHECK_DEADLOCK FALSE
