\* Two workers on one event, a request, a call nested in it, and a nonblocking
\* request for the same dinosaur.
CONSTANTS
    h1 = h1  h2 = h2  r1 = r1  r2 = r2  n1 = n1  i1 = i1
    q1 = q1  q2 = q2  q3 = q3  bg = bg
    Call = {h1, h2, r1, i1, n1}
    NoCall = NoCall
    Outer <- MCOuter
    Mode <- MCMode
    IdOf <- MCIdOf
    TypeOf <- MCTypeOf
    Hash <- MCHash
    Context <- MCContext
    Background = bg
    Ctx <- MCCtx
    DeferFirst <- Handles
SPECIFICATION Spec
SYMMETRY WorkersAlike
INVARIANTS NoUnreleasedLocks AbandonedTx
PROPERTY RefusedByItsOwnLock
\* Every call is made once, so the instance stops.
CHECK_DEADLOCK FALSE
