CONSTANTS
    m = m
    n = n
    q = q
    Calls = {m, q}
    ReadOnly = {q}
    Cancellable = {m}
    ReplyKinds = {"result"}
    MaxAttempts = 2
    MaxReconnects = 1
    MaxLinks = 2
SPECIFICATION Spec
INVARIANTS
    AnswerIsOwn
    PendingChannelsOpen
    NoLostWakeup
