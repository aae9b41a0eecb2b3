\* Every search of one or two terms over four dinosaurs, two owners, three tags.
CONSTANTS
    Table = "dinosaurs"
    Data <- MCData
    Association <- MCAssociation
    Singular <- MCSingular
    Plural <- MCPlural
    Request <- MCRequest
    Garbage = Garbage
    Null = Null
SPECIFICATION Spec
INVARIANTS DisallowedNeverReaches SearchSelects TotalIsFetched FailsOnNamesOnly
\* One list is asked for.
CHECK_DEADLOCK FALSE
