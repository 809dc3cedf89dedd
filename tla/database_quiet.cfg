\* Nobody has the database open at the moment a backup replaces it, and no log is left.
SPECIFICATION Spec
CONSTANTS
    h1 = h1
    h2 = h2
    j1 = j1
    j2 = j2
    pg1 = pg1
    pg2 = pg2
    Pages = {pg1, pg2}
    Handles = {h1, h2}
    Jobs = {j1, j2}
    Backups = {b1}
    None = None
    Rotten = Rotten
    QuietRestore = TRUE
    MaxVersions = 3
SYMMETRY Symmetry
INVARIANTS
    TypeOK
    PathShowsTheLatest
    DamageStaysInItsBackup
PROPERTIES
    BackupHoldsTheLatest
    ImplementsDurableDatabase
