CONSTANTS
    s1 = s1
    s2 = s2
    m = m
    None = None
    Services = {s1, s2}
    Migrator = m
    Base <- BaseTables
    Auth <- AuthTables
    Jobs = "pipeline_jobs"
    Meta = "schema_migrations"
    Before <- Databases
    MaxStarts = 1
    MaxFailures = 2
    MaxFiles = 4
    Apart = TRUE
SPECIFICATION FairSpec
INVARIANTS UpIsComplete
PROPERTIES EstablishedStays MigrationSettles
CHECK_DEADLOCK FALSE
