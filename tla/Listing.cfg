\* A walk of three pages and odd requests, three writes, a failing statement.
CONSTANTS
    Row = {1, 2, 3, 4, 5, 6}
    Initial = {1, 2, 4, 5}
    None = None
    Garbage = Garbage
    Scripts <- MCScripts
    DefaultSize = 2
    MaxListSize = 4
    Int32 = 8
    Int64 = 32
    MaxWrites = 3
    MaxFaults = 1
SPECIFICATION Spec
INVARIANTS NothingMissed NothingRepeated TotalAccounts LabelIsPage
\* Every list is asked for once, so the instance stops.
CHECK_DEADLOCK FALSE
