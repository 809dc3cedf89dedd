\* A closure whose checks another process overtakes.
SPECIFICATION Spec
CONSTANTS
    p1 = p1
    p2 = p2
    Items = {w1}
    Actions = {a1}
    Agents = {codex}
    Total = 1
    Clauses = {}
    Procs = {p1}
    Ops = {"close"}
    Tickets = {}
    Slips = {}
    Writers = {"agent work", "own work", "claim", "settle", "operator"}
    None = None
    MaxEvents = 5
INVARIANT
    ClosedMissionIsSettled
