\* Two reviewers resolve the same security event concurrently.  Requests are
\* bounded, so the system stops: deadlock is not a fault here.
CONSTANTS
    e1 = e1
    u1 = u1
    u2 = u2
    w1 = w1
    w2 = w2
    EventIds <- MCEventIds
    Users <- MCUsers
    Workers <- MCWorkers
    AuthActions = {"account_locked"}
    MaxRequests = 3
    DbFailures = FALSE
    NoRow = NoRow
    NoUser = NoUser
    ReportLimit = 1000
SPECIFICATION Spec
CHECK_DEADLOCK FALSE
PROPERTY ResolutionNeverOverwritten
