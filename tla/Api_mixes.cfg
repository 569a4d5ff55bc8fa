SPECIFICATION Spec
CONSTANTS
    Request = {r1, r2, r3}
    Role <- MCRole
    Existing = {i1}
    Owner = u1
    Mixes <- MCMixes
    AttachmentsEnabled = TRUE
    Version = {v1, v2}
    Seeded = v1
    Specs <- MCSpecs
    MobileTags <- MCMobileTags
    FileOf <- MCFileOf
    Handwritten = {"guide.md"}
    BasicAuth = TRUE
    a1 = a1
    u1 = u1
    g1 = g1
    i1 = i1
    v1 = v1
    v2 = v2
SYMMETRY MCSymmetry
INVARIANTS AcknowledgedStands AnswersTrue AuditAccounted ConsentLive FreshUnlessRaced DocsAccounted
CHECK_DEADLOCK FALSE
