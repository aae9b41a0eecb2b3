\* Two blocking and one nonblocking request on one dinosaur.
CONSTANTS
    h1 = h1  h2 = h2  r1 = r1  r2 = r2  n1 = n1  i1 = i1
    q1 = q1  q2 = q2  q3 = q3  bg = bg
    Call = {r1, r2, n1}
    NoCall = NoCall
    Outer <- MCOuter
    Mode <- MCMode
    IdOf <- MCIdOf
    TypeOf <- MCTypeOf
    Hash <- MCHash
    Context <- MCContext
    Background = bg
    Ctx <- MCCtx
    DeferFirst <- Handles
SPECIFICATION FairSpec
INVARIANTS MutualExclusion RegistryClean
PROPERTIES ImplementsLockService EveryCallReturns RequestTxEnds
\* Every call is made once, so the instance stops.
CHECK_DEADLOCK FALSE
