SPECIFICATION FairSpec
CONSTANTS
    u1 = u1
    r1 = r1
    r2 = r2
    s1 = s1
    None = None
    Users = {u1}
    Requests = {r1, r2}
    SessionIds = {s1}
    MaxRows = 3
INVARIANTS
    TypeOK
    TablesMatchFile
PROPERTIES
    ImplementsResearchLab
    EveryRequestEnds
