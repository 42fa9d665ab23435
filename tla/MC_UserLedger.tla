--------------------------- MODULE MC_UserLedger ---------------------------
(* UserLedger on small instances. *)
EXTENDS UserLedger, TLC

CONSTANTS u1, u2, w1, w2, r1, r2, r3, treasury_mirage

\* The rewards of the seeded levels 1 and 2 and of the lab, in units of 50.
MCReward == [a \in Awards |-> IF a = 1 THEN 2 ELSE 5]
MCTotalReward ==
    LET total[S \in SUBSET Awards] ==
            IF S = {} THEN 0
            ELSE LET a == CHOOSE a \in S : TRUE IN MCReward[a] + total[S \ {a}]
    IN  total

Symmetry == Permutations(Requests) \cup Permutations(Wallets) \cup Permutations(Users)
=============================================================================
