\* Two concurrent AddToBlacklist requests for one value.
CONSTANTS
    u1 = u1
    u2 = u2
    w1 = w1
    w2 = w2
    v1 = v1
    NoAlert = NoAlert
    NoValue = NoValue
    Users <- MCUsers
    Confidences <- MCConfidences
    Values = {v1}
    Workers = {w1, w2}
    MaxRequests = 2
SPECIFICATION SSpec
SYMMETRY UserSymmetry
CHECK_DEADLOCK FALSE
INVARIANT UniqueBlacklistValue
