CONSTANTS
    v1 = v1
    v2 = v2
    Protocols = {"nfs", "iscsi"}
    Ids = {v1, v2}
    Paths = {"p1"}
    None = None
    MaxVolumes = 2
    MaxChanges = 1
SYMMETRY Symmetry
SPECIFICATION Spec
INVARIANTS
    TypeOK
    ProblemsAreReal
    HealthyWasPresent
    AnnotationsAgree
    SummaryMatchesReport
