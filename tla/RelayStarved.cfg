SPECIFICATION FairSpec
CONSTANTS
    rm = rm
    e1 = e1
    p1 = p1
    p2 = p2
    Events = {p1, p2, rm}
    Rank <- MCRank
    Removals = {rm}
    Oversized = {}
    Poison = {p1, p2}
    Relays = {r1}
    BatchSize = 1
    Backoff = 2
    After = 1
    Cap = 1
    Intervals = {1}
    MaxTrouble = 1
PROPERTY DueIsResent
