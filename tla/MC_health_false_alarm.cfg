CONSTANTS
    Protocols = {"nfs"}
    Ids = {"v1"}
    Paths = {"p1"}
    None = "none"
    MaxVolumes = 1
    MaxChanges = 0
SPECIFICATION Spec
INVARIANTS
    NoFalseAlarm
