CONSTANTS
    u1 = u1
    u2 = u2
    NoAlert = NoAlert
    Users <- MCUsers
    Confidences <- MCConfidences
SPECIFICATION Spec
PROPERTY ImplementsLifecycle
