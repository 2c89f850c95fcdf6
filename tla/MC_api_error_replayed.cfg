CONSTANTS
    m = m
    n = n
    q = q
    Calls = {m}
    ReadOnly = {}
    Cancellable = {}
    ReplyKinds = {"netError"}
    MaxAttempts = 2
    MaxReconnects = 1
    MaxLinks = 1
SPECIFICATION Spec
INVARIANTS
    MutationSentOnce
