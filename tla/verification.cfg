SPECIFICATION Spec
CONSTANTS
    None = None
    w1 = w1
    w2 = w2
    g1 = g1
    g2 = g2
    s1 = s1
    s2 = s2
    program = program
    Short = {g2}
    SystemProgram = program
    AdminLevels <- MCAdminLevels
    Wallets = {w1, w2}
    Signatures = {g1, g2}
    SessionIds = {s1, s2}
    Omitted <- MCOmitted
    MaxStarted = 1
SYMMETRY Symmetry
CONSTRAINT MCBound
ACTION_CONSTRAINT MCStory
INVARIANTS
    TypeOK
    VerifiedIsEarned
    ProofIsForItsSession
    CatalogueIsLinked
PROPERTIES
    RefusedOnlyForCause
\* A session ends with its submission, and the bounds end the rest.
CHECK_DEADLOCK FALSE
