\* A mission carried over while one of its effects is unresolved.
SPECIFICATION Spec
CONSTANTS
    s1 = s1
    s2 = s2
    Items = {w1}
    Actions = {a1}
    Agents = {}
    Total = 0
    Clauses = {}
    Stores = {s1, s2}
    Missions = {m1}
    Files = {f1}
    NoFile = NoFile
    Secret = w1
    Scrubbed = Scrubbed
    MaxEvents = 3
SYMMETRY Symmetry
INVARIANT
    UnresolvedBecomesReconcile
