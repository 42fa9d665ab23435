--------------------------- MODULE AwardLedger ---------------------------
(***************************************************************************)
(* What the platform promises about experience points, whatever runs       *)
(* concurrently: an award (a level, a research lab) is paid to a user at   *)
(* most once, and the account moves by exactly its reward in the step that *)
(* records it (progression_system.md, "Replay Policy": XP awarded once).   *)
(***************************************************************************)
EXTENDS Integers

CONSTANTS Users, Awards, Reward

VARIABLES
    awarded,   \* pairs <<user, award>> on record
    accounts   \* [Users -> [xp : Nat, completed_levels : Nat]]

Init ==
    /\ awarded = {}
    /\ accounts = [u \in Users |-> [xp |-> 0, completed_levels |-> 0]]

Pay(u, a) ==
    /\ <<u, a>> \notin awarded
    /\ awarded' = awarded \cup {<<u, a>>}
    /\ accounts' = [accounts EXCEPT ![u] =
           [xp |-> @.xp + Reward[a], completed_levels |-> @.completed_levels + 1]]

Next == \E u \in Users, a \in Awards : Pay(u, a)

Spec == Init /\ [][Next]_<<awarded, accounts>>
=============================================================================
