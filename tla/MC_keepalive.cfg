CONSTANTS
    m = m
    q = q
    Calls = {m}
    ReadOnly = {}
    Cancellable = {}
    ReplyKinds = {"result"}
    MaxAttempts = 1
    MaxReconnects = 1
    MaxLinks = 2
    MaxPingFailures = 2
SPECIFICATION KFairSpec
INVARIANTS
    KTypeOK
    KeepaliveOutlivesReconnect
PROPERTIES
    RefinesClient
    SilentPeerDetected
