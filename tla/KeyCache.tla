------------------------------ MODULE KeyCache ------------------------------
(***************************************************************************)
(* How the Resource Server finds the public key a bearer token is verified *)
(* with (AuthMiddleware): a cache of keys under a read-write lock, filled  *)
(* from the JWKS endpoint of the Authorization Server while the lock is    *)
(* held, with any number of requests at once.  The Authorization Server    *)
(* may be restarted with another signing key: a configured one, or the     *)
(* transient one it generates, under the old key id, when it finds none.   *)
(***************************************************************************)
CONSTANTS
    Requests,    \* requests to the protected API
    Keys,        \* RSA key pairs
    Kids,        \* key ids
    StaticKey,   \* the key the Resource Server is configured with, or None
    SigningKeys, \* keys the Authorization Server may come to have, under their ids
    Foreign,     \* tokens signed with a key it never has
    Faulty,      \* fetches may fail, and the Resource Server may be restarted
    None

(* What of a token the lookup depends on; claims: exp, iss and aud hold. *)
Token == [kid: Kids \cup {None}, key: Keys, claims: BOOLEAN]

(* A key under its id, as the Authorization Server signs and publishes it. *)
Published == [kid: Kids, key: Keys]

ASSUME ConstantsAssumption ==
    /\ StaticKey \in Keys \cup {None}
    /\ SigningKeys \subseteq Published
    /\ Foreign \subseteq Token
    /\ \A t \in Foreign, p \in SigningKeys : t.key # p.key
    /\ Faulty \in BOOLEAN

ASSUME NoneAssumption ==
    None \notin Keys /\ None \notin Kids /\ None \notin Requests /\ None \notin Published

ASSUME DefaultAssumption == "default" \notin Kids

VARIABLES
    signing,     \* the key the Authorization Server signs with
    published,   \* those it has signed with so far
    since,       \* those it has signed with since the cache was last written
    cachedKeys,  \* kid, or "default" -> key
    recent,      \* whether lastFetched is less than a minute ago
    lock,        \* the request that holds mu for writing
    req          \* requests, with their local variables

vars == <<signing, published, since, cachedKeys, recent, lock, req>>

Slots == Kids \cup {"default"}

Active == {"lookup", "lock", "fetch", "store", "reread"}

Request ==
    [pc: {"idle", "accepted", "rejected", "lost"} \cup Active,
     token: Token \cup {None},
     doc: Published \cup {None},   \* the JWKS document it has received
     failed: BOOLEAN]              \* whether its fetch failed

TypeOK ==
    /\ signing \in Published
    /\ published \subseteq Published
    /\ since \subseteq published
    /\ cachedKeys \in [Slots -> Keys \cup {None}]
    /\ recent \in BOOLEAN
    /\ lock \in Requests \cup {None}
    /\ req \in [Requests -> Request]

(* NewAuthMiddleware *)
InitialCache == [s \in Slots |-> IF s = "default" THEN StaticKey ELSE None]

Init ==
    /\ signing \in SigningKeys
    /\ published = {signing}
    /\ since = {signing}
    /\ cachedKeys = InitialCache
    /\ recent = FALSE
    /\ lock = None
    /\ req = [x \in Requests |->
                [pc |-> "idle", token |-> None, doc |-> None, failed |-> FALSE]]
-----------------------------------------------------------------------------
(* A key under the token's kid, else the default one, else None. *)
CachedKey(kid) ==
    IF kid # None /\ cachedKeys[kid] # None THEN cachedKeys[kid] ELSE cachedKeys["default"]

(* Mutation of Verdict: parsed, its key found, its signature not verified. *)
VerdictUnverified(token, key) ==
    IF key # None /\ token.claims THEN "accepted" ELSE "rejected"

(* VerifyToken, once it has a key. *)
Verdict(token, key) ==
    IF key = token.key /\ token.claims THEN "accepted" ELSE "rejected"

(* Bearer tokens: genuine ones, their claims valid or not, and foreign ones. *)
Bearer ==
    Foreign \cup {[kid |-> p.kid, key |-> p.key, claims |-> c] : p \in published, c \in BOOLEAN}

(* Authenticate *)
Arrive(x) ==
    /\ req[x].pc = "idle"
    /\ \E token \in Bearer :
          req' = [req EXCEPT ![x] = [@ EXCEPT !.pc = "lookup", !.token = token]]
    /\ UNCHANGED <<signing, published, since, cachedKeys, recent, lock>>

(* resolvePublicKey up to the fetch: with the read lock held. *)
Lookup(x) ==
    LET key == CachedKey(req[x].token.kid) IN
    /\ req[x].pc = "lookup"
    /\ lock = None
    /\ req' = [req EXCEPT ![x].pc =
                 IF key # None THEN Verdict(req[x].token, key) ELSE "lock"]
    /\ UNCHANGED <<signing, published, since, cachedKeys, recent, lock>>

(* Mutation of Lock: a request that finds the lock taken is rejected. *)
LockOrReject(x) ==
    /\ req[x].pc = "lock"
    /\ \/ /\ lock = None
          /\ req' = [req EXCEPT ![x].pc = "fetch"]
          /\ lock' = x
       \/ /\ lock # None
          /\ req' = [req EXCEPT ![x].pc = "rejected"]
          /\ UNCHANGED lock
    /\ UNCHANGED <<signing, published, since, cachedKeys, recent>>

(* Mutation of Lock: the cache is not looked at again once the lock is held. *)
LockAndFetch(x) ==
    /\ req[x].pc = "lock"
    /\ lock = None
    /\ req' = [req EXCEPT ![x].pc = "fetch"]
    /\ lock' = x
    /\ UNCHANGED <<signing, published, since, cachedKeys, recent>>

(* Mutation of Lock: the lock is not kept across the fetch. *)
LockNotHeld(x) ==
    /\ req[x].pc = "lock"
    /\ lock = None
    /\ req' = [req EXCEPT ![x].pc =
                 IF recent /\ \E s \in Slots : cachedKeys[s] # None THEN "reread" ELSE "fetch"]
    /\ UNCHANGED <<signing, published, since, cachedKeys, recent, lock>>

(***************************************************************************)
(* fetchJWKS begins: it takes the lock, and goes without a fetch if        *)
(* another request has filled the cache within the last minute.            *)
(***************************************************************************)
Lock(x) ==
    /\ req[x].pc = "lock"
    /\ lock = None
    /\ IF recent /\ \E s \in Slots : cachedKeys[s] # None
       THEN req' = [req EXCEPT ![x].pc = "reread"] /\ UNCHANGED lock
       ELSE req' = [req EXCEPT ![x].pc = "fetch"] /\ lock' = x
    /\ UNCHANGED <<signing, published, since, cachedKeys, recent>>

(* Mutation of Answer: the answer's status code is not looked at. *)
AnswerUnchecked(x) ==
    /\ req[x].pc = "fetch"
    /\ \E doc \in {signing, [kid |-> signing.kid, key |-> None]} :
          req' = [req EXCEPT ![x] = [@ EXCEPT !.pc = "store", !.doc = doc]]
    /\ UNCHANGED <<signing, published, since, cachedKeys, recent, lock>>

(* The Authorization Server answers with its one key. *)
Answer(x) ==
    /\ req[x].pc = "fetch"
    /\ req' = [req EXCEPT ![x] = [@ EXCEPT !.pc = "store", !.doc = signing]]
    /\ UNCHANGED <<signing, published, since, cachedKeys, recent, lock>>

(* Mutation of FetchFails: the failing path forgets to unlock. *)
FetchFailsLocked(x) ==
    /\ Faulty
    /\ req[x].pc \in {"fetch", "store"}
    /\ req' = [req EXCEPT ![x] = [@ EXCEPT !.pc = "rejected", !.doc = None, !.failed = TRUE]]
    /\ UNCHANGED <<signing, published, since, cachedKeys, recent, lock>>

(* The endpoint is down, slow (10 seconds) or answers nonsense. *)
FetchFails(x) ==
    /\ Faulty
    /\ req[x].pc \in {"fetch", "store"}
    /\ req' = [req EXCEPT ![x] = [@ EXCEPT !.pc = "rejected", !.doc = None, !.failed = TRUE]]
    /\ lock' = None
    /\ UNCHANGED <<signing, published, since, cachedKeys, recent>>

(* Mutation of Store: the key goes under every id the cache knows of. *)
StoreEverywhere(x) ==
    /\ req[x].pc = "store"
    /\ cachedKeys' = [s \in Slots |-> req[x].doc.key]
    /\ since' = {signing}
    /\ recent' = TRUE
    /\ lock' = None
    /\ req' = [req EXCEPT ![x] = [@ EXCEPT !.pc = "reread", !.doc = None]]
    /\ UNCHANGED <<signing, published>>

(* The key is stored under its id and as the default; keys are never removed. *)
Store(x) ==
    /\ req[x].pc = "store"
    /\ cachedKeys' = [s \in Slots |->
          IF s \in {req[x].doc.kid, "default"} THEN req[x].doc.key ELSE cachedKeys[s]]
    /\ since' = {signing}
    /\ recent' = TRUE
    /\ lock' = None
    /\ req' = [req EXCEPT ![x] = [@ EXCEPT !.pc = "reread", !.doc = None]]
    /\ UNCHANGED <<signing, published>>

(* The rest of resolvePublicKey, with the read lock held, and VerifyToken. *)
Reread(x) ==
    /\ req[x].pc = "reread"
    /\ lock = None
    /\ req' = [req EXCEPT ![x].pc = Verdict(req[x].token, CachedKey(req[x].token.kid))]
    /\ UNCHANGED <<signing, published, since, cachedKeys, recent, lock>>
-----------------------------------------------------------------------------
(* A minute passes since the last fetch. *)
Minute ==
    /\ recent
    /\ recent' = FALSE
    /\ UNCHANGED <<signing, published, since, cachedKeys, lock, req>>

(***************************************************************************)
(* The Authorization Server comes back with another key: a new one, or one *)
(* it has had before, as when its key file is there again after a while    *)
(* with a transient key under the same id.                                 *)
(***************************************************************************)
Rotate ==
    /\ \E p \in SigningKeys \ {signing} :
          /\ signing' = p
          /\ published' = published \cup {p}
          /\ since' = since \cup {p}
    /\ UNCHANGED <<cachedKeys, recent, lock, req>>

(* The Resource Server is restarted; its requests are lost. *)
Restart ==
    /\ Faulty
    /\ cachedKeys' = InitialCache
    /\ since' = {signing}
    /\ recent' = FALSE
    /\ lock' = None
    /\ req' = [x \in Requests |-> IF req[x].pc \in Active
                  THEN [req[x] EXCEPT !.pc = "lost", !.doc = None] ELSE req[x]]
    /\ UNCHANGED <<signing, published>>

Step(x) == Lookup(x) \/ Lock(x) \/ Answer(x) \/ FetchFails(x) \/ Store(x) \/ Reread(x)

Next ==
    \/ \E x \in Requests : Arrive(x) \/ Step(x)
    \/ Minute
    \/ Rotate
    \/ Restart

Spec == Init /\ [][Next]_vars

(* Requests are scheduled; the HTTP client's timeout ends a fetch. *)
FairSpec == Spec /\ \A x \in Requests : WF_vars(Step(x))
-----------------------------------------------------------------------------
(* Properties *)

(***************************************************************************)
(* An accepted token was signed with a key of the Authorization Server, or *)
(* with the configured one, whatever kid it carries and whatever the cache *)
(* went through.  (auth_middleware.go:196-204, 241-271)                    *)
(***************************************************************************)
Trusted(key) == key = StaticKey \/ \E p \in published : p.key = key

TrustedOnly == \A x \in Requests : req[x].pc = "accepted" => Trusted(req[x].token.key)

(***************************************************************************)
(* A key cached under a kid is one the Authorization Server has published  *)
(* under that kid.  (auth_middleware.go:315-325)                           *)
(***************************************************************************)
CacheIsPublished ==
    \A k \in Kids : cachedKeys[k] # None => [kid |-> k, key |-> cachedKeys[k]] \in published

(***************************************************************************)
(* However many requests miss the cache together, the keys are fetched     *)
(* once a minute at most: those that queue behind the first look again     *)
(* before they fetch.  (auth_middleware.go:282-288, 327)                   *)
(***************************************************************************)
FetchedOnceAMinute ==
    [][\A x \in Requests : req[x].pc = "store" /\ req'[x].pc = "reread" => ~recent]_vars

(***************************************************************************)
(* The cache only moves forward: whatever a request stores, the endpoint   *)
(* has published since the cache was last written.  No late answer, of     *)
(* before a change of the key, is stored over one of after it, where it    *)
(* would stay, for nothing expires; also when keys come back.              *)
(* (auth_middleware.go:282-283, 321-327)                                   *)
(***************************************************************************)
CacheMovesForward ==
    [][\A x \in Requests :
          req[x].pc = "store" /\ req'[x].pc = "reread" => req[x].doc \in since]_vars

(***************************************************************************)
(* A token that carries the kid and the signature of the key the JWKS      *)
(* endpoint publishes, and valid claims, is rejected only by a request     *)
(* whose own fetch failed, whatever other requests do to the cache in the  *)
(* meantime, as long as the Authorization Server has had no other key, and *)
(* the Resource Server is configured with no other.                        *)
(* (auth_middleware.go:241-271, 282-329)                                   *)
(***************************************************************************)
RejectsPublished(x) ==
    /\ req[x].pc \in Active /\ req'[x].pc = "rejected"
    /\ req[x].token = [kid |-> signing.kid, key |-> signing.key, claims |-> TRUE]

GenuineTokenAccepted ==
    [][\A x \in Requests :
          RejectsPublished(x) =>
              req'[x].failed \/ published # {signing} \/ StaticKey \notin {None, signing.key}]_vars

(***************************************************************************)
(* And so whatever other keys there have been, but for the minute after a  *)
(* fetch, when the endpoint is not asked again: "Resource servers match    *)
(* the kid against /.well-known/jwks.json to verify token authenticity".   *)
(* (KEYS_SETUP.md:150, auth_middleware.go:250-253)                         *)
(***************************************************************************)
RotatedKeyFound ==
    [][\A x \in Requests : RejectsPublished(x) => req'[x].failed \/ recent]_vars

(***************************************************************************)
(* Every request is answered, also those that wait for the lock behind a   *)
(* slow fetch.  (auth_middleware.go:84, 283-284)                           *)
(***************************************************************************)
RequestsEnd == \A x \in Requests : req[x].pc \in Active ~> req[x].pc \notin Active
=============================================================================
