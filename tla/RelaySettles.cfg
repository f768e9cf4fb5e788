SPECIFICATION FairSpec
CONSTANTS
    rm = rm
    e1 = e1
    p1 = p1
    p2 = p2
    Events = {rm, e1}
    Rank <- MCRank
    Removals = {rm}
    Oversized = {rm}
    Poison = {}
    Relays = {r1}
    BatchSize = 1
    Backoff = 2
    After = 1
    Cap = 2
    Intervals = {1}
    MaxTrouble = 2
PROPERTY EveryRemovalSettled
PROPERTY HealthRecovers
