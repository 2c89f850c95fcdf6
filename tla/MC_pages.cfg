CONSTANTS
    MaxItems = 3
    Keys = {1, 2, 3}
    Orders = {"asc", "desc"}
    RawNumbers = {0, 9}
    MinPageSize = 1
    MaxPageSize = 2
    DefaultPageSize = 1
SPECIFICATION Spec
INVARIANTS
    TypeOK
    PageIsFull
    WalkShowsEachOnce
PROPERTIES
    TurningBackShowsTheSame
