\* Two permits, four calls.
SPECIFICATION Spec
CONSTANTS
    c1 = c1
    c2 = c2
    c3 = c3
    c4 = c4
    Calls = {c1, c2, c3, c4}
    SignatureCalls = {c1}
    MaxConcurrent = 2
    MaxRetries = 1
    MinDelay = 1
    MaxDelay = 2
    Multiplier = 2
    RetryAfters = {0, 2, 3}
    FarthestDelay = 2
    IdleAfter = 1
    Period = 1
SYMMETRY CallSymmetry
INVARIANTS
    TypeOK
    ConcurrencyIsBounded
    FewSentDuringCooldown
    RetryHonoursDelay
