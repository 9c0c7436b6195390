\* No fault but slow workers: three jobs, two of them of one address.
SPECIFICATION Spec
CONSTANTS
    w1 = w1
    w2 = w2
    a1 = a1
    a2 = a2
    s1 = s1
    s2 = s2
    Workers = {w1, w2}
    Addrs = {a1, a2}
    Sigs = {s1, s2}
    Transferring = {s1}
    JobIds <- ThreeJobs
    AddressOf <- TwoAddresses
    Window <- ThreeWindows
    NoJob = NoJob
    BatchLimit = 1
    MaxPages = 2
    Instances <- OneProcess
    Faults = {"lease"}
SYMMETRY WorkerSymmetry
INVARIANTS
    ErrorHasRival
    LeaseHasWorker
