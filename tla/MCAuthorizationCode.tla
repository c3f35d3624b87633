------------------------ MODULE MCAuthorizationCode ------------------------
(* Small instances of AuthorizationCode for TLC. *)
EXTENDS AuthorizationCode, TLC

CONSTANTS k1, k2, v1, v2, s1

Form(client, redirect, verifier) ==
    [grantType |-> "authorization_code", client |-> client,
     redirect |-> redirect, verifier |-> verifier]

(* A query that names its redirect URI, one that leaves all to defaults. *)
OneClientQueries ==
    {[client |-> k1, redirect |-> 2, scope |-> Scopes,
      challenge |-> Hash(v1), method |-> "S256"],
     [client |-> None, redirect |-> None, scope |-> {},
      challenge |-> None, method |-> ""]}

(* The form that fits the first, a bare one, one with a wrong verifier. *)
OneClientForms == {Form(k1, 2, v1), Form(None, None, None), Form(None, 2, v2)}

(* With liveness: the last of a grant type the service does not know. *)
LiveForms ==
    {Form(k1, 2, v1), Form(None, None, None),
     [Form(None, None, None) EXCEPT !.grantType = "other"]}

(* Two clients, and every PKCE method; "other" is one the code knows not. *)
TwoClientQueries ==
    {[client |-> k1, redirect |-> 1, scope |-> {},
      challenge |-> v1, method |-> ""],
     [client |-> k2, redirect |-> None, scope |-> {},
      challenge |-> Hash(v1), method |-> "S256"]}

(* A form of either client: one names the redirect URI, one does not. *)
TwoClientForms == {Form(k1, 1, v1), Form(k2, None, v1)}

MCSymmetry == Permutations(Exchangers) \cup Permutations(Authorizers)
=============================================================================
