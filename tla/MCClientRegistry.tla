-------------------------- MODULE MCClientRegistry --------------------------
(* Small instances of ClientRegistry for TLC. *)
EXTENDS ClientRegistry, TLC

CONSTANTS k1, u1, u2, s1

Op(op, kind, list) == [op |-> op, client |-> k1, kind |-> kind, list |-> list]

(* Every operation: a client comes and goes, its lists are added to,      *)
(* replaced and removed from.                                              *)
AllInputs ==
    {Op("register", "both", {u1, Blank, s1}), Op("register", "both", {u2}),
     Op("register", "both", {u1, Bad}), Op("delete", "both", {}),
     Op("add", "scopes", {s1, Blank}), Op("add", "redirect_uris", {u1, Bad}),
     Op("add", "redirect_uris", {}), Op("add", "redirect_uris", {u1, u2}),
     Op("set", "redirect_uris", {u1, u2}), Op("set", "redirect_uris", {u2}),
     Op("set", "redirect_uris", {}), Op("set", "redirect_uris", {Bad}),
     Op("remove", "redirect_uris", {u1})}

(* For the counterexample. *)
TwoPuts == {Op("set", "redirect_uris", {u1}), Op("set", "redirect_uris", {u2})}
=============================================================================
