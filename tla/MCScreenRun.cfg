SPECIFICATION Spec
CONSTANTS
    Runs = {r1, r2}
    Universe <- MCUniverse
    s1 = s1
    s2 = s2
    Snapshots = {s1, s2}
    Bars <- MCBars
    Requests <- MCRequests
    Workers = 2
    ChunkSize = 1
    MaxDeaths = 1
    NoState = NoState
    NotLoaded = NotLoaded
    NoRequest = NoRequest
CONSTRAINT Calm
SYMMETRY Twins
INVARIANTS
    StatesAreRebuilds
    ManifestsAreRebuilds
PROPERTIES
    VerifiedAnswers
