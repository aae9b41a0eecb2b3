\* Two callers, each with one of every call or request.
CONSTANTS
    Nil = Nil
    NoBody = NoBody
    Garbage = Garbage
    NullBody = NullBody
    Callers = {c1, c2}
    NewIds = {"n1", "n2"}
    Calls <- MCCalls
    Raw <- MCRaw
    Stored <- MCStored
SPECIFICATION Spec
INVARIANTS ToldIsTrue RejectedChangesNothing ObservedAsAnswered ErrorsAreTyped
\* Every caller makes one call.
CHECK_DEADLOCK FALSE
