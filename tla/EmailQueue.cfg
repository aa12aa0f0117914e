CONSTANTS
    m1 = m1
    m2 = m2
    w1 = w1
    w2 = w2
    None = None
    Mails = {m1}
    Optional = {m1}
    Workers = {w1, w2}
    Attempts = 3
    MaxStalledCount = 1
    MaxCrashes = 2
    MaxLapses = 1
    MaxRetries = 1
SPECIFICATION Spec
INVARIANTS TypeOK CopiesExplained OneSender GivenUpLate
PROPERTIES KeepsPromise EveryMailSettles
