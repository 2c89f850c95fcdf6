CONSTANTS
    m = m
    n = n
    q = q
    Calls = {m}
    ReadOnly = {}
    Cancellable = {m}
    ReplyKinds = {"result", "garbled", "error", "netError"}
    MaxAttempts = 3
    MaxReconnects = 2
    MaxLinks = 3
SPECIFICATION Spec
INVARIANTS
    TypeOK
    LostMutationNotReplayed
    CertainOutcome
    NeverGivesUp
    ReconnectAnnounced
    OpenLinksAreHeld
PROPERTIES
    ImplementsContract
