CONSTANTS
    m = m
    n = n
    q = q
    Calls = {m}
    ReadOnly = {}
    Cancellable = {}
    ReplyKinds = {"result"}
    MaxAttempts = 1
    MaxReconnects = 1
    MaxLinks = 3
SPECIFICATION Spec
INVARIANTS
    PendingOnCurrentLink
