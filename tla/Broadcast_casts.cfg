SPECIFICATION FairSpec
CONSTANTS
    c1 = c1
    c2 = c2
    u1 = u1
    u2 = u2
    u3 = u3
    Worker = {w1, w2}
    Chunk = {c1, c2}
    User = {u1, u2, u3}
    Casts <- MCCasts
    Aliased = {u1, u3}
    Attempts = 2
    Tries = 2
    MaxStalls = 1
INVARIANTS SentIsAccepted SettledNotPending InboxEitherWay
PROPERTIES SentNotRepushed AllSettle
