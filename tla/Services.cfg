SPECIFICATION Spec
CONSTANTS
    Clients = {c1, c2}
    Nobody = Nobody
    MaxOrders = 2
    MaxFailures = 1
    Requests = {r1, r2, r3}
    Stored = Stored
    Absent = Absent
    MaxRefusals = 1
    Browsers = {b1, b2}
    BufferSize = 1
    MaxEvents = 4
    Migrations = {m1, m2, m3}
    MaxEntries = 2
    Retention = 2
    MaxTime = 8
    Users = {u1, u2}
    Lifetime = 3
    MaxDelay = 2
    MaxClock = 8
    MaxLosses = 1
INVARIANTS
    SecretFirst
    CredentialsMatch
    ClosedOnce
    TokenGood
PROPERTIES
    OrdersFitPhase
    RunningKept
SYMMETRY RequestSymmetry
CHECK_DEADLOCK FALSE
