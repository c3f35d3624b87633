---------------------------- MODULE MCLoginFlow ----------------------------
(* A small instance of LoginFlow for TLC. *)
EXTENDS LoginFlow, TLC

MCSymmetry ==
    Permutations(Users) \cup Permutations(Attempts) \cup Permutations(Visits)
        \cup Permutations(Callbacks)
=============================================================================
