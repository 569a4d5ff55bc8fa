SPECIFICATION TokenSpec
CONSTANTS
    Request = {r1}
    Password = {p1, p2}
    MaxTokens = 3
INVARIANTS RotatedTokenIsSingleUse
