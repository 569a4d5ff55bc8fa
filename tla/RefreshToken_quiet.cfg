SPECIFICATION TokenSpec
CONSTANTS
    Request = {r1, r2, r3}
    Password = {p1, p2}
    MaxTokens = 3
SYMMETRY MCSymmetry
INVARIANTS QuietRevocationHolds ResetPasswordHolds
