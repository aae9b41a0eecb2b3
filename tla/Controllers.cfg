\* Two workers, three events, one of them unmanaged, and one failure of any kind.
CONSTANTS
    e1 = e1  e2 = e2  e3 = e3  w1 = w1  w2 = w2  w3 = w3
    Event = {e1, e2, e3}
    Worker = {w1, w2}
    Nobody = Nobody
    Reconnected = Reconnected
    Handlers <- MCHandlers
    Managed <- MCManaged
    MayFail = {e1, e2}
    MaxFaults = 1
SPECIFICATION FairSpec
INVARIANTS OneWorkerPerEvent ReconciledIsHandled EffectOnce PendingIsExplained
PROPERTIES NotifiedIsReconciled EveryLockReleased
\* When every event has been notified and taken, the instance stops.
CHECK_DEADLOCK FALSE
