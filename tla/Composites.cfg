\* Two changes, two commits of the origin's base and one kill.
CONSTANTS
    MaxBase = 2
    MaxChanges = 2
    MaxKills = 1
    Avoided = {"onbranch", "prompt"}
SPECIFICATION CompositesSpec
INVARIANTS
    WorkIsKept
PROPERTIES
    PublishedNeverRewritten
    CompositesTellTrue
