\* A mission written to in two files and carried between them by capsules.
SPECIFICATION Spec
CONSTANTS
    s1 = s1
    s2 = s2
    Items = {w1}
    Actions = {a1}
    Agents = {}
    Total = 0
    Clauses = {}
    Stores = {s1, s2}
    Missions = {m1}
    Files = {f1}
    NoFile = NoFile
    Secret = w1
    Scrubbed = Scrubbed
    MaxEvents = 4
SYMMETRY Symmetry
INVARIANTS
    TypeOK
    SpoiledOnlyByOrphans
    UnsettledIsReconciled
PROPERTY
    ImportIsSomeonesPast
