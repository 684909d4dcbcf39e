SPECIFICATION Spec
CONSTANTS
    a1 = a1
    a2 = a2
    b1 = b1
    p1 = p1
    p2 = p2
    Principals = {p1}
    Attachments = {a1}
    NoAttachment = NoAttachment
    Owner <- OnePrincipal
    CurrentOps = {k1}
    Lifetime = 1
    MaxOpenHandlings = 2
    MaxObservations = 1
    MaxTime = 1
    MaxEvents = 4
INVARIANT OpenHandlingBound
CHECK_DEADLOCK FALSE
