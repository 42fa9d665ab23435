SPECIFICATION Spec
CONSTANTS
    u1 = u1
    u2 = u2
    w1 = w1
    w2 = w2
    r1 = r1
    r2 = r2
    r3 = r3
    treasury_mirage = treasury_mirage
    None = None
    Users = {u1}
    Wallets = {w1}
    Requests = {r1, r2}
    Levels = {1, 2}
    Labs = {treasury_mirage}
    Reward <- MCReward
    TotalReward <- MCTotalReward
SYMMETRY Symmetry
INVARIANTS
    AwardsArePaid
