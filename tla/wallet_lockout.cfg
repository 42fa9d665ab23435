SPECIFICATION Spec
CONSTANTS
    w1 = w1
    w2 = w2
    m1 = m1
    m2 = m2
    n1 = n1
    n2 = n2
    None = None
    Absent = Absent
    Wallets = {w1, w2}
    Names = {m1, m2}
    WalletName <- MCWalletName
    Nonces = {n1, n2, n3}
    Requests = {r1}
INVARIANTS
    LoginCreatesAccount
\* Names and nonces run out.
CHECK_DEADLOCK FALSE
