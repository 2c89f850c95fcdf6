CONSTANTS
    MaxTries = 5
    AuthErrors = {"rejected", "broken", "broken401"}
SPECIFICATION Spec
INVARIANTS
    TypeOK
    NoConnectionLeft
    AttemptsCanSucceed
PROPERTY
    NewClientReturns
