------------------------------- MODULE MCRbac -------------------------------
(* Small instances of Rbac for TLC. *)
EXTENDS Rbac, TLC

CONSTANTS u1, r1, r2, p1

(* One e-mail in two spellings. *)
MCTexts == {"alice", "Alice "}

MCNormal == [t \in MCTexts |-> u1]

Create(text) == [op |-> "create", text |-> text]
Assigned(holder, item) == [op |-> "assign", link |-> <<holder, item>>]
Removed(holder, item) == [op |-> "remove", link |-> <<holder, item>>]
Report(holder) == [op |-> "report", holder |-> holder]

(* A role of the user comes and goes, and gets a permission. *)
AllInputs ==
    {Create("Alice "),
     Assigned(u1, r1), Assigned(r1, p1), Removed(u1, r1),
     Report(u1), Report(r1), Report(None)}

(* For the counterexample. *)
Creations == {Create("alice"), Create("Alice ")}

MCSymmetry == Permutations(Requests)
=============================================================================
