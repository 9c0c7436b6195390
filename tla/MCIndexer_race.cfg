\* Two workers, no fault: the claim query lets two jobs of one address be active.
SPECIFICATION Spec
CONSTANTS
    w1 = w1
    w2 = w2
    a1 = a1
    a2 = a2
    s1 = s1
    s2 = s2
    Workers = {w1, w2}
    Addrs = {a1}
    Sigs = {s1, s2}
    Transferring = {s1}
    JobIds <- TwoJobs
    AddressOf <- OneAddress
    Window <- Windows
    NoJob = NoJob
    BatchLimit = 1
    MaxPages = 2
    Instances <- OneProcess
    Faults = {}
INVARIANT
    OneActiveJobPerAddress
