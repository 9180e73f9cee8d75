SPECIFICATION Spec
CONSTANTS
    Promoters = {p1, p2}
    b1 = b1
    b1x = b1x
    b2 = b2
    Batches <- MCBatches
    Contents <- MCContentsSmall
    Continues <- MCContinues
    Evidence = {e1}
    Modes = {TRUE, FALSE}
    GovernTargets = {"QUARANTINED", "SCREEN_READY"}
    MaxCrashes = 1
    Torn = Torn
    Unlinked = Unlinked
    NoFile = NoFile
    NoSnapshot = NoSnapshot
    NoJob = NoJob
    NoDecision = NoDecision
INVARIANTS
    VisibleInPlace
PROPERTIES
    RefinesFormalPointer
CONSTRAINT AloneOrQuiet
SYMMETRY MCSymmetry
