\* One pod, and nothing that fails from outside.
CONSTANTS
    dinosaur = dinosaur
    event = event
    fossil = fossil
    egg = egg
    nest = nest
    old = old
    new = new
    wrong = wrong
    Pods = {new}
    Kinds <- MCKinds
    Events = event
    Id <- MCId
    Release <- MCRelease
    Settings <- MCSettings
    MaxFaults = 0
SPECIFICATION Spec
PROPERTIES ServeStays
