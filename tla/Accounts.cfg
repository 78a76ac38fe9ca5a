SPECIFICATION Spec
CONSTANTS
    p1 = p1
    p2 = p2
    t1 = t1
    t2 = t2
    t3 = t3
    Passwords = {p1, p2}
    FirstPassword = p1
    TokenIds = {t1, t2}
    LoginFailureLimit = 2
    LoginLockMinutes = 15
    Instants <- Times
    MaxCalls = 2
SYMMETRY Symmetry
INVARIANTS
    FailuresAreLimited
    VerificationIsEarned
    ResetVoidsLinks
PROPERTIES
    TokensAreUsedOnce
CHECK_DEADLOCK FALSE
