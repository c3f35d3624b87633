--------------------------- MODULE CodeLifecycle ---------------------------
(***************************************************************************)
(* What the Authorization Server promises about an authorization code,     *)
(* with no store, no clock and no request steps in sight.  A code is drawn *)
(* once and becomes live; from a live code an exchange may take a claim;   *)
(* a code that is gone stays gone and gives no more claims; tokens are     *)
(* issued on a claim, once.  Several exchanges may hold a claim on one     *)
(* code: those that read it before the first of them deleted it.           *)
(***************************************************************************)
CONSTANTS Codes, Exchangers, None

VARIABLES
    phase,     \* code -> "fresh" (never stored), "live" or "gone"
    claim,     \* exchange -> the code it holds a claim on, or None
    redeemed   \* exchanges that have turned their claim into tokens

vars == <<phase, claim, redeemed>>

TypeOK ==
    /\ phase \in [Codes -> {"fresh", "live", "gone"}]
    /\ claim \in [Exchangers -> Codes \cup {None}]
    /\ redeemed \subseteq Exchangers

Init ==
    /\ phase = [c \in Codes |-> "fresh"]
    /\ claim = [x \in Exchangers |-> None]
    /\ redeemed = {}

Issue(c) ==
    /\ phase[c] = "fresh"
    /\ phase' = [phase EXCEPT ![c] = "live"]
    /\ UNCHANGED <<claim, redeemed>>

(* Codes used up, expired, wiped with the store, or never stored at all. *)
Retire(S) ==
    /\ \A c \in S : phase[c] # "gone"
    /\ phase' = [c \in Codes |-> IF c \in S THEN "gone" ELSE phase[c]]
    /\ UNCHANGED <<claim, redeemed>>

Claim(x, c) ==
    /\ phase[c] = "live"
    /\ claim[x] = None
    /\ claim' = [claim EXCEPT ![x] = c]
    /\ UNCHANGED <<phase, redeemed>>

Redeem(x) ==
    /\ claim[x] # None
    /\ x \notin redeemed
    /\ redeemed' = redeemed \cup {x}
    /\ UNCHANGED <<phase, claim>>

Next ==
    \/ \E c \in Codes : Issue(c)
    \/ \E S \in SUBSET Codes : Retire(S)
    \/ \E x \in Exchangers, c \in Codes : Claim(x, c)
    \/ \E x \in Exchangers : Redeem(x)

Spec == Init /\ [][Next]_vars
=============================================================================
