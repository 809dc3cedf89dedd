\* An action claimed for a mission that does not exist.
SPECIFICATION Spec
CONSTANTS
    s1 = s1
    s2 = s2
    Items = {w1}
    Actions = {a1}
    Agents = {}
    Total = 0
    Clauses = {}
    Stores = {s1, s2}
    Missions = {m1}
    Files = {f1}
    NoFile = NoFile
    Secret = w1
    Scrubbed = Scrubbed
    MaxEvents = 3
SYMMETRY Symmetry
INVARIANT
    ChainsBeginWithTheirMission
