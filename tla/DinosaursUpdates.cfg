\* Any three of three PATCHes and a DELETE of one dinosaur and a POST of another;
\* one failure.
CONSTANTS
    p1 = p1  p2 = p2  p3 = p3  c1 = c1  x1 = x1
    Dino = {"d1", "d2"}
    Species = {"trice", "bronto", "stego"}
    Request = {p1, p2, p3, c1, x1}
    Nobody = Nobody
    Op <- MCOp
    Target <- MCTarget
    Wanted <- MCWanted
    Initial <- MCInitial
    MaxRequests = 3
    MaxFaults = 1
    LockMode = "blocking"
SPECIFICATION FairSpec
INVARIANTS NoticesInOrder
PROPERTIES NoRedundantUpdate EveryRequestAnswered
\* The requests that are made end, so the instance stops.
CHECK_DEADLOCK FALSE
