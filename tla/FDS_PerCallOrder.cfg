CONSTANTS
    c1 = c1
    d1 = d1
    Calls <- MCOneCall
    Dispatchers = {d1}
    DisconnectLists <- MCOneCallLists
    FlushHighWatermark = 2
    ReportModes = {"single"}
    MaxDisconnectRequests = 0
SPECIFICATION Spec
INVARIANT PerCallOrder
