CONSTANTS
    m = m
    n = n
    q = q
    Calls = {q}
    ReadOnly = {q}
    Cancellable = {q}
    ReplyKinds = {"result", "netError"}
    MaxAttempts = 3
    MaxReconnects = 2
    MaxLinks = 2
SPECIFICATION FairSpec
PROPERTIES
    ImplementsContract
    CloseStopsReader
    CloseReleasesCalls
    CancelReleasesCalls
