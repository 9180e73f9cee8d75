SPECIFICATION FairSpec
CONSTANTS
    Promoters = {p1}
    b1 = b1
    b1x = b1x
    b2 = b2
    Batches <- MCBatches
    Contents <- MCContents
    Continues <- MCContinues
    Evidence = {e1, e2}
    Modes = {FALSE}
    GovernTargets = {}
    MaxCrashes = 2
    Torn = Torn
    Unlinked = Unlinked
    NoFile = NoFile
    NoSnapshot = NoSnapshot
    NoJob = NoJob
    NoDecision = NoDecision
INVARIANTS
    PublishedIsBasePlusBatch
PROPERTIES
    FilesImmutable
    LeftoversNeverBlock
