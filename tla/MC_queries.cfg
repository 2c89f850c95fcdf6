CONSTANTS
    f1 = f1
    f2 = f2
    v1 = v1
    v2 = v2
    c1 = c1
    c2 = c2
    Filesystems = {f1, f2}
    Names = {"a"}
    Ids = {v1, v2}
    Clusters = {c1, c2}
    Protocols = {"nfs", "nvmeof"}
    None = None
    MaxChanges = 2
SYMMETRY Symmetry
SPECIFICATION Spec
INVARIANTS
    TypeOK
    SnapshotsAreReal
    SnapshotsAreComplete
    VolumesMatchSnapshots
    UnmanagedAreReal
    UnmanagedAreComplete
    DetailsAreOfReference
    NotFoundIsTrue
    TargetsAreReal
