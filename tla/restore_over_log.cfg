\* A backup is restored over a database whose log was left behind.
SPECIFICATION Spec
CONSTANTS
    h1 = h1
    h2 = h2
    j1 = j1
    j2 = j2
    pg1 = pg1
    pg2 = pg2
    Pages = {pg1, pg2}
    Handles = {h1, h2}
    Jobs = {j1, j2}
    Backups = {b1}
    None = None
    Rotten = Rotten
    QuietRestore = FALSE
    MaxVersions = 3
SYMMETRY Symmetry
INVARIANT
    PathShowsTheLatest
