SPECIFICATION Spec
CONSTANTS
    Token = {t1, t2}
    Request = {r1, r2}
    Email = {e1}
    Phone = {p1}
    MaxAttempts = 1
    Ttl <- MCTtl
    MaxAborts = 0
SYMMETRY MCSymmetry
INVARIANTS SingleUse OwnFlowOnly RegistrantOwnsAccount
PROPERTIES OneTimeCodeSpec
