\* One permit, two calls, two retries: every call returns.
SPECIFICATION FairSpec
CONSTANTS
    c1 = c1
    c2 = c2
    c3 = c3
    c4 = c4
    Calls = {c1, c2}
    SignatureCalls = {c1}
    MaxConcurrent = 1
    MaxRetries = 2
    MinDelay = 1
    MaxDelay = 3
    Multiplier = 2
    RetryAfters = {0, 2, 4}
    FarthestDelay = 3
    IdleAfter = 1
    Period = 1
PROPERTY
    EveryCallReturns
