\* Three releases of the package, two hook commands at a time for two clients.
SPECIFICATION Spec
CONSTANTS
    e1 = e1
    e2 = e2
    claudecode = claudecode
    codex = codex
    MaxRelease = 3
    Missing = Missing
    Edited = Edited
    Torn = Torn
    Editors = {e1, e2}
    Clients = {claudecode, codex}
    NoFile = NoFile
    Blank = Blank
    Garbled = Garbled
SYMMETRY Symmetry
INVARIANTS
    TypeOK
    RunReportsTruly
    HooksAreThoseInstalled
PROPERTY
    EditsLostOnlyToInstalls
