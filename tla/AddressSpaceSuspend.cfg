SPECIFICATION SpecSuspend
CONSTANTS
    NumPlaces = 3
    Roots = {r1, r2}
    Kernel = Kernel
    None = None
CHECK_DEADLOCK FALSE
INVARIANT NoFreedTable
