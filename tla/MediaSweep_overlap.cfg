SPECIFICATION FairSpec
CONSTANTS
    k1 = k1
    Process = {p1, p2}
    LockTtl = 1
    Token = {t1, t2, t3}
    Key = {k1}
    Provider = 2
    Prefixes <- MCPrefixes
INVARIANTS SteadyKept InTimeSweepAlone
PROPERTIES LeaseSpec LockFreed
