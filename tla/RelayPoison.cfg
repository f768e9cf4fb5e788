SPECIFICATION FairSpec
CONSTANTS
    rm = rm
    e1 = e1
    p1 = p1
    p2 = p2
    Events = {p1, e1, rm}
    Rank <- MCRank
    Removals = {rm}
    Oversized = {}
    Poison = {p1}
    Relays = {r1}
    BatchSize = 1
    Backoff = 2
    After = 1
    Cap = 2
    Intervals = {1}
    MaxTrouble = 1
PROPERTY NoStarvation
PROPERTY PoisonIsReported
