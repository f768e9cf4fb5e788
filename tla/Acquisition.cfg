SPECIFICATION AcquisitionSpec
CONSTANTS
    o1 = o1
    a1 = a1
    a2 = a2
    a3 = a3
    Owners = {o1}
    Archives = {a1, a2, a3}
    Content <- Overlapping
    Uploads = {x1}
    Workers = {w1, w2}
    BatchSize = 2
    MaxBodyBytes = 1
    None = None
    Damageable = {}
    MaxFaults = 0
SYMMETRY Interchangeable
INVARIANT NoWaitCycle
CHECK_DEADLOCK FALSE
INVARIANT AcquisitionTypes
INVARIANT RecordsAccounted
INVARIANT NoGapBelowWatermark
INVARIANT VisibleIsCompleteAndPublished
PROPERTY OneLinearRun
PROPERTY StrongerProjectionKept
PROPERTY AuthorityChangesWhole
 
INVARIANT CapabilityCurrent
 
PROPERTY OwnerKept
INVARIANT ArchiveKeepsLimits
