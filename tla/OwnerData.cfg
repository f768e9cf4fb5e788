SPECIFICATION OwnerDataSpec
CONSTANTS
    None = None
    o1 = o1
    c1 = c1  c2 = c2
    m1 = m1  m2 = m2
    r1 = r1  r2 = r2  r3 = r3  r4 = r4
    k1 = k1  k2 = k2
    Owners = {o1, o2}
SYMMETRY Fresh
CHECK_DEADLOCK FALSE
INVARIANT OwnerDataTypes
INVARIANT CommittedIsPrefix
 
INVARIANT NothingLeftBehind
INVARIANT RemovalsMatchDeletions
 
INVARIANT BlobsDeletedSafely
PROPERTY RunIsStable
