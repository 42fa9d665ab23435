--------------------------- MODULE MC_LevelPlay ---------------------------
(* LevelPlay on small instances. *)
EXTENDS LevelPlay, TLC

CONSTANTS u1, u2, w1, w2, g1, g2, g3, r1, r2, r3

MCXpReward == [l \in Levels |-> 50 + 50 * l]
MCTotalReward ==
    LET total[S \in SUBSET Levels] ==
            IF S = {} THEN 0
            ELSE LET l == CHOOSE l \in S : TRUE IN MCXpReward[l] + total[S \ {l}]
    IN  total

\* No user has linked a wallet yet.
MCLinked == [u \in Users |-> None]

Symmetry ==
    Permutations(Requests) \cup Permutations(Wallets) \cup Permutations(Signatures)
        \cup Permutations(Users)
=============================================================================
