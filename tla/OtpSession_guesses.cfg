SPECIFICATION FairSpec
CONSTANTS
    Token = {t1}
    Request = {r1, r2}
    Email = {e1}
    Phone = {p1}
    MaxAttempts = 2
    Ttl <- MCTtl
    MaxAborts = 1
INVARIANTS GuessesBounded
PROPERTIES CounterCoversSession CounterReclaimed
