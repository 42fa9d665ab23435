SPECIFICATION Spec
CONSTANTS
    u1 = u1
    u2 = u2
    w1 = w1
    w2 = w2
    g1 = g1
    g2 = g2
    g3 = g3
    r1 = r1
    r2 = r2
    r3 = r3
    None = None
    Users = {u1, u2}
    Wallets = {w1}
    Signatures = {g1, g2}
    Requests = {r1, r2, r3}
    Levels = {2}
    Executable = {2}
    XpReward <- MCXpReward
    TotalReward <- MCTotalReward
    Linked <- MCLinked
    MaxSessions = 2
    MaxSubmissions = 2
SYMMETRY Symmetry
INVARIANTS
    SignatureUsedOnce
    SessionSignaturesDistinct
PROPERTIES
    ImplementsLedger
\* Players may stop sending requests, and the bounds stop them here; requests
\* that wait on each other are the subject of EveryRequestEnds.
CHECK_DEADLOCK FALSE
