SPECIFICATION FairReaderSpec
CONSTANTS
    Builders = {b1, b2}
    Codes = {c1, c2}
    c1 = c1
    c2 = c2
    s0 = s0
    s1 = s1
    d1 = d1
    d1x = d1x
    d2 = d2
    Snapshots = {s0, s1}
    Roots = {s0}
    Editions = {d1, d1x, d2}
    History <- MCHistory
    Jobs <- MCJobs
    GovernTargets = {"QUARANTINED"}
    MaxCrashes = 1
    NoSnapshot = NoSnapshot
    SignalOf <- MCSignalOf
    NoReader = NoReader
    NoState = NoState
    NoRow = NoRow
    NoJob = NoJob
    NoGeneration = NoGeneration
INVARIANTS
    ActiveIsRebuild
    PointerResolves
    OutputIsWhole
PROPERTIES
    GenerationsImmutable
    RebuildSucceeds
CONSTRAINT Meetings
