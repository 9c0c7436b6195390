\* The four migrations and five retries of the code, 500 to 5000 ms.
SPECIFICATION FairSpec
CONSTANTS
    p1 = p1
    p2 = p2
    Processes = {p1, p2}
    NoProcess = NoProcess
    Migrations = 4
    MaxRetries = 5
    WorkerCount <- Counts
    MinDelay = 2
    MaxDelay = 20
    Multiplier = 2
INVARIANTS
    TypeOK
    ServesMigrated
    PatientConnect
PROPERTY
    StartSettles
