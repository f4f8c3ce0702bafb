SPECIFICATION FairSpec
CONSTANTS
    Proc = {p1, p2}
    NoOne = NoOne
    MaxAcquire = 3
    MaxProbe = 2
CHECK_DEADLOCK FALSE
INVARIANTS FlockIsDepth
PROPERTIES FreeLockNotRefused WaiterProceeds AbstractSpec
