SPECIFICATION Spec
CONSTANTS
    Migrators = {m1, m2}
    Files <- MCFiles
    Releases <- MCReleases
    NonTransactional = 2
    Dropping = 4
    Maintenance = {3, 4}
    Baselines = {3, 4}
    Databases <- MCDatabases
    MaxFaults = 1
    None = none
INVARIANTS
    PartialNeedsRepair
