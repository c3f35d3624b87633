----------------------------- MODULE MCKeyCache -----------------------------
(* Small instances of KeyCache for TLC. *)
EXTENDS KeyCache

CONSTANTS k1, k2, forged, kid1, kid2

(* Two keys that come and go under one id, one of them under another, too. *)
TwoOfAnId ==
    {[kid |-> kid1, key |-> k1], [kid |-> kid1, key |-> k2], [kid |-> kid2, key |-> k2]}

(* Forged tokens: with a kid that is published, and with none. *)
ForgedTokens ==
    {[kid |-> kid1, key |-> forged, claims |-> TRUE],
     [kid |-> None, key |-> forged, claims |-> TRUE]}
=============================================================================
