CONSTANTS
    s1 = s1
    s2 = s2
    m = m
    None = None
    Services = {s1, s2}
    Migrator = m
    Base <- BaseTables
    Auth <- AuthTables
    Jobs = "pipeline_jobs"
    Meta = "schema_migrations"
    Before <- NoDatabase
    MaxStarts = 1
    MaxFailures = 0
    MaxFiles = 4
    Apart = FALSE
SPECIFICATION Spec
PROPERTIES NonEmptyWalStays
CHECK_DEADLOCK FALSE
