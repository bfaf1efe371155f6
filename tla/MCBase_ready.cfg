SPECIFICATION Spec
CONSTANTS
    Files = {"template", "script"}
    Scripts = {"script"}
    Prints = {"v1", "v2"}
    NoPrint = "none"
    MaxEdits = 2
CHECK_DEADLOCK FALSE
INVARIANTS
    InspectorMatchesResolver
    ReadyMeansClone
    PrepareMakesReady
