SPECIFICATION Spec
CONSTANTS
    Users = {u1}
    Clients = {c1}
    Requests = {r1, r2}
    Tokens = {t1, t2}
    AccessTTL = 1
    RefreshTTL = 2
    Leeway = 1
    Window = 2
    Limit = 1
INVARIANTS TypeOK LoginsBounded
PROPERTIES LogoutHolds LockoutEnds DemotionTakesHold
