\* Every fault, which then ceases: only the addresses of stranded jobs are blocked.
SPECIFICATION FairSpec
CONSTANTS
    w1 = w1
    w2 = w2
    a1 = a1
    a2 = a2
    s1 = s1
    s2 = s2
    Workers = {w1, w2}
    Addrs = {a1, a2}
    Sigs = {s1}
    Transferring = {s1}
    JobIds <- ThreeJobs
    AddressOf <- TwoAddresses
    Window <- ThreeWindows
    NoJob = NoJob
    BatchLimit = 1
    MaxPages = 1
    Instances <- TwoProcesses
    Faults = {"rpc", "db", "crash"}
PROPERTY
    OnlyStrandedBlock
