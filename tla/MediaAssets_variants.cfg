SPECIFICATION Spec
CONSTANTS
    Worker = {w1, w2}
    Job = {a1, a2}
    s1 = s1
    s2 = s2
    s3 = s3
    thumb = thumb
    medium = medium
    Stem = {s1, s2, s3}
    Key <- MCKey
    Variant = {thumb, medium}
    Suffixed <- MCSuffixed
    Attempts = 2
    MaxStalls = 1
    MaxTroubles = 1
INVARIANTS  CompletedProcessed
SYMMETRY Symmetry
