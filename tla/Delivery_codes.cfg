SPECIFICATION FairSpec
CONSTANTS
    j1 = j1
    j2 = j2
    Worker = {w1, w2}
    Job = {j1, j2}
    Recipient = {"u"}
    OtpCode = {"c"}
    Payloads <- MCPayloads
    Attempts = 2
    MaxStalls = 1
    MaxTroubles = 1
    MaxExpiries = 1
INVARIANTS CopiesBounded OneSender LossesAccounted
PROPERTIES AllSettle
