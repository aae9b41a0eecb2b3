\* Two PATCHes and two workers: one connection more than they may hold
\* while they wait; two failures.
CONSTANTS
    g1 = g1  g2 = g2  p1 = p1  p2 = p2  h1 = h1  h2 = h2
    Task = {p1, p2, h1, h2}
    MaxOpenConnections = 7
    Nobody = Nobody
    Kind <- MCKind
    Ops <- MCOps
    Key <- MCKey
    MaxFaults = 2
SPECIFICATION FairSpec
INVARIANTS ConnsFollowTasks NeverAllWaiting
PROPERTY EveryTaskFinishes
\* Every task is done once, so the instance stops.
CHECK_DEADLOCK FALSE
