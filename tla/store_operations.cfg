\* Recovery and handoff, and missions being closed, against writers of work and effects.
SPECIFICATION Spec
CONSTANTS
    p1 = p1
    p2 = p2
    Items = {w1}
    Actions = {a1}
    Agents = {codex}
    Total = 1
    Clauses = {e1}
    Procs = {p1}
    Ops = {"recover", "close", "handoff", "briefing"}
    Tickets = {}
    Slips = {}
    Writers = {"agent work", "own work", "agent evidence", "own evidence",
               "claim", "settle", "operator"}
    None = None
    MaxEvents = 5
INVARIANTS
    TypeOK
    VerdictSeesLastingDanger
    VerdictRestsOnTwoMoments
    ListsFindTheMission
    AbortOnlyUnderConcurrentWrite
PROPERTIES
    HandoffOnEvidence
    BriefingShowsLastingDanger
    ClosedOnEvidence
