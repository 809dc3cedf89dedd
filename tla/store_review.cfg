\* Approval, confirmation and checkpoints, two processes at a time.
SPECIFICATION Spec
CONSTANTS
    p1 = p1
    p2 = p2
    Items = {w1}
    Actions = {}
    Agents = {codex}
    Total = 1
    Clauses = {}
    Procs = {p1, p2}
    Ops = {"request", "approve", "confirm", "checkpoint", "restore"}
    Tickets = {t1}
    Slips = {s1}
    Writers = {"agent work"}
    None = None
    MaxEvents = 4
SYMMETRY Symmetry
INVARIANTS
    CheckpointsReplay
    ConfirmationsBacked
    RestoredAsSaved
PROPERTIES
    ApprovalSawItsState
