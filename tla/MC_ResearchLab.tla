-------------------------- MODULE MC_ResearchLab --------------------------
(* ResearchLab on small instances. *)
EXTENDS ResearchLab, TLC

CONSTANTS u1, u2, r1, r2, s1, s2

Symmetry == Permutations(Requests) \cup Permutations(Users) \cup Permutations(SessionIds)

\* A bound: while there are two sessions, reports are sound and none is reset.
TwoSessionsBound ==
    (\A s \in SessionIds : sessions[s].status # "absent") =>
        /\ \A s \in SessionIds : reports[s].id # 0 => reports[s].fields = "sound" /\ reports[s].id = 1
        /\ \A r \in Requests : call[r].op # "reset" /\ (draft[r].status # "absent" => draft[r].fields = "sound")
=============================================================================
