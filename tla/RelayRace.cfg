SPECIFICATION Spec
CONSTANTS
    rm = rm
    e1 = e1
    p1 = p1
    p2 = p2
    Events = {rm}
    Rank <- MCRank
    Removals = {rm}
    Oversized = {rm}
    Poison = {}
    Relays = {r1, r2}
    BatchSize = 2
    Backoff = 1
    After = 1
    Cap = 3
    Intervals = {1}
    MaxTrouble = 3
INVARIANT TypeOK
INVARIANT PublishedIsStored
INVARIANT RemovalStaysArmed
PROPERTY RelayImplementsHandshake
