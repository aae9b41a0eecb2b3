\* Two GET requests and a pool of two.
CONSTANTS
    g1 = g1  g2 = g2  p1 = p1  p2 = p2  h1 = h1  h2 = h2
    Task = {g1, g2}
    MaxOpenConnections = 2
    Nobody = Nobody
    Kind <- MCKind
    Ops <- MCOps
    Key <- MCKey
    MaxFaults = 0
SPECIFICATION FairSpec
PROPERTY EveryTaskFinishes
\* Every task is done once, so the instance stops.
CHECK_DEADLOCK FALSE
