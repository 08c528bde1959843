SPECIFICATION BootSpec
CONSTANTS
    MaxPermits = 8
    MaxIndexBatch = 2
    MaxTimeout = 8
    MaxFlush = 8
    DefaultInFlight = 4
    DefaultStreams = 3
    DefaultPerTenant = 2
    DefaultBatch = 2
    Boots = {"b1", "b2"}
    NoBoot = "nobody"
    Calls = {"r1", "r2"}
    Scenarios <- MCScenarios
INVARIANTS BootedIsConsistent ViewsAgree ServedAsAdmitted MigrationKeepsSpend
CHECK_DEADLOCK FALSE
