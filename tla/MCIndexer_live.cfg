\* The RPC service may fail and workers may be slow: what is submitted is settled.
SPECIFICATION FairSpec
CONSTANTS
    w1 = w1
    w2 = w2
    a1 = a1
    a2 = a2
    s1 = s1
    s2 = s2
    Workers = {w1, w2}
    Addrs = {a1}
    Sigs = {s1, s2}
    Transferring = {s1}
    JobIds <- TwoJobs
    AddressOf <- OneAddress
    Window <- Windows
    NoJob = NoJob
    BatchLimit = 2
    MaxPages = 2
    Instances <- OneProcess
    Faults = {"rpc", "lease"}
INVARIANT
    IndexingHasWorker
PROPERTY
    EveryJobSettles
