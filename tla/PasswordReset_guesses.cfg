SPECIFICATION FairSpec
CONSTANTS
    Request = {r1, r2}
    MaxAttempts = 2
    CodeTtl = 2
    MaxCodes = 2
    MaxAborts = 1
INVARIANTS GuessesBounded AnsweredCodeGone
PROPERTIES FreshCodeKept FailuresForgotten
