\* A POST, a PATCH and a DELETE of one dinosaur; two workers; one failure of any kind.
CONSTANTS
    p1 = p1  c1 = c1  x1 = x1
    Dino = {"d1"}
    Species = {"trice", "bronto"}
    Request = {p1, c1, x1}
    Worker = {w1, w2}
    Nobody = Nobody
    Reconnected = Reconnected
    Op <- MCOp
    Target <- MCTarget
    Wanted <- MCWanted
    Initial <- MCInitial
    MaxRequests = 3
    MaxFaults = 1
    MaxMoves = 3
    LockMode = "blocking"
SPECIFICATION AllFairSpec
INVARIANTS OkMeansPublished ChangeBeforeEvent
PROPERTIES SeesTheChange Converges AnnouncedIsDated
\* Every request is made once, so the instance stops.
CHECK_DEADLOCK FALSE
