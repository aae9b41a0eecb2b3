\* An old release, a new one in every setting, and one that gormigrate refuses.
CONSTANTS
    dinosaur = dinosaur
    event = event
    fossil = fossil
    egg = egg
    nest = nest
    old = old
    new = new
    wrong = wrong
    Pods = {old, new, wrong}
    Kinds <- MCKinds
    Events = event
    Id <- MCId
    Release <- MCRelease
    Settings <- MCSettings
    MaxFaults = 2
SPECIFICATION Spec
INVARIANTS RecordedIsComplete ServingIsMigrated
PROPERTIES MigratedInTheEnd
