SPECIFICATION Spec
CONSTANTS
    u1 = u1
    u2 = u2
    r1 = r1
    r2 = r2
    s1 = s1
    s2 = s2
    None = None
    Users = {u1}
    Requests = {r1, r2}
    SessionIds = {s1, s2}
SYMMETRY Symmetry
CONSTRAINT TwoSessionsBound
INVARIANTS
    TypeOK
    PaidThroughOneSession
    CompletedIsAwarded
    
PROPERTIES
    VerificationOpensReport
