SPECIFICATION Spec
CONSTANTS
    Users = {u1}
    Clients = {c1}
    Requests = {r1}
    Tokens = {t1, t2}
    AccessTTL = 1
    RefreshTTL = 1
    Leeway = 0
    Window = 1
    Limit = 1
PROPERTIES ExpiredEntriesGo
