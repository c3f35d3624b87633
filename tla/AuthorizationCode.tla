------------------------- MODULE AuthorizationCode -------------------------
(***************************************************************************)
(* The authorization code grant of the Authorization Server: what          *)
(* DefaultOAuthService.Authorize and DefaultOAuthService.Token do to Redis *)
(* (or the in-memory store that replaces it) and to PostgreSQL, one action *)
(* per store call, with any number of requests in flight at once.          *)
(*                                                                         *)
(* Time is relative: life[c] counts down the ticks the code c has left     *)
(* until its ExpiresAt, so the model needs no bound on the clock.          *)
(***************************************************************************)
EXTENDS Integers, FiniteSets

CONSTANTS
    ClientIDs,       \* client_id values
    DefaultClient,   \* the id Authorize assumes when the request names none
    URIs,            \* redirect URIs, as their ranks in the database's order
    Scopes,          \* scope names
    Users,           \* user ids a session may carry
    StoredUsers,     \* those that are the id of a row of table users
    Verifiers,       \* PKCE code verifiers
    Authorizers,     \* requests to /authorize; each draws a fresh random
                     \* code, and is named by it
    Exchangers,      \* requests to /token; each draws a fresh refresh token
    AuthorizeInputs, \* the query parameters requests to /authorize carry
    TokenInputs,     \* the form parameters requests to /token carry
    CodeTTL,         \* lifetime of a code, in ticks
    UseRedis,        \* codes are in Redis (TRUE) or in process memory (FALSE)
    Faulty,          \* store and database calls may fail
    None             \* an absent parameter, an absent record

(* A code is identified with the request that drew it. *)
Codes == Authorizers

(* code_challenge: SHA-256 of the verifier (injective), or the verifier.   *)
Hash(v) == <<"S256", v>>
Challenges == Verifiers \cup {Hash(v) : v \in Verifiers}
Methods == {"S256", "PLAIN", "", "other"}

AuthorizeRequest ==
    [client: ClientIDs \cup {None}, redirect: URIs \cup {None},
     scope: SUBSET Scopes, challenge: Challenges \cup {None}, method: Methods]

TokenRequest ==
    [grantType: {"authorization_code", "other"},
     client: ClientIDs \cup {None}, redirect: URIs \cup {None},
     verifier: Verifiers \cup {None}]

(* What the store keeps under auth_code:<code>, its ExpiresAt apart. *)
AuthCode ==
    [client: ClientIDs, user: Users, redirect: URIs, scope: SUBSET Scopes,
     challenge: Challenges \cup {None}, method: Methods]

RefreshToken == [id: Exchangers, client: ClientIDs, user: Users]

ASSUME ConstantsAssumption ==
    /\ AuthorizeInputs \subseteq AuthorizeRequest
    /\ TokenInputs \subseteq TokenRequest
    /\ DefaultClient \in ClientIDs
    /\ URIs \subseteq Int
    /\ StoredUsers \subseteq Users
    /\ CodeTTL \in Nat \ {0}
    /\ UseRedis \in BOOLEAN
    /\ Faulty \in BOOLEAN

ASSUME NoneAssumption ==
    /\ None \notin ClientIDs \cup URIs \cup Users \cup Codes \cup AuthCode
    /\ None \notin Verifiers \cup Challenges
    /\ None \notin AuthorizeInputs \cup TokenInputs

VARIABLES
    clients,        \* tables oauth_clients, client_redirect_uris, client_scopes
    codes,          \* the code store: code -> AuthCode or None
    life,           \* ticks a code has left; -1 once it is past ExpiresAt
    refreshTokens,  \* rows of table refresh_tokens
    authz,          \* requests to /authorize, with their local variables
    xchg            \* requests to /token, with their local variables

vars == <<clients, codes, life, refreshTokens, authz, xchg>>

(* The client tables as the User Service keeps them (ClientRegistry). *)
Table == INSTANCE ClientTable

(***************************************************************************)
(* A request to /authorize: its query (in), the user of its session, the   *)
(* redirect URIs it read, the one it settled on, and whether it has drawn  *)
(* its code.  "lost": the process died under it.                           *)
(***************************************************************************)
AuthzActive == {"client", "uris", "scopes", "save"}
AuthzEnded == {"issued", "failed", "lost"}

Authorize ==
    [pc: {"idle"} \cup AuthzActive \cup AuthzEnded,
     in: AuthorizeInputs \cup {None}, user: Users \cup {None},
     uris: SUBSET URIs, redirect: URIs \cup {None}, drawn: BOOLEAN]

(***************************************************************************)
(* A request to /token: its form (in) and code, the AuthCode it read (got),*)
(* the OAuth error it answers.  Three fields only observe: minted, whether *)
(* its tokens are ready to be sent; deleted, whether its Delete reported   *)
(* success; after, the requests that had ended when it began; late,        *)
(* whether its code had expired by then.                                   *)
(***************************************************************************)
XchgActive == {"get", "delete", "client", "persist", "respond"}
XchgEnded == {"done", "failed", "lost"}
Errors == {"unsupported_grant_type", "invalid_request", "invalid_grant",
           "invalid_client", "internal"}

Exchange ==
    [pc: {"idle"} \cup XchgActive \cup XchgEnded,
     in: TokenInputs \cup {None}, code: Codes \cup {None},
     got: AuthCode \cup {None}, err: Errors \cup {None},
     minted: BOOLEAN, deleted: BOOLEAN, after: SUBSET Exchangers, late: BOOLEAN]

TypeOK ==
    /\ clients \in [ClientIDs -> Table!Client]
    /\ codes \in [Codes -> AuthCode \cup {None}]
    /\ life \in [Codes -> -1 .. CodeTTL]
    /\ refreshTokens \subseteq RefreshToken
    /\ authz \in [Authorizers -> Authorize]
    /\ xchg \in [Exchangers -> Exchange]

Init ==
    /\ Table!Init
    /\ codes = [c \in Codes |-> None]
    /\ life = [c \in Codes |-> CodeTTL]
    /\ refreshTokens = {}
    /\ authz = [a \in Authorizers |->
                  [pc |-> "idle", in |-> None, user |-> None,
                   uris |-> {}, redirect |-> None, drawn |-> FALSE]]
    /\ xchg = [x \in Exchangers |->
                 [pc |-> "idle", in |-> None, code |-> None, got |-> None,
                  err |-> None, minted |-> FALSE, deleted |-> FALSE,
                  after |-> {}, late |-> FALSE]]

(* The calls that can fail: every database call, and Redis calls.          *)
StoreFaulty == Faulty /\ UseRedis

(* Mutation of Expired: the code's ExpiresAt is left to the store's TTL. *)
ExpiredUnchecked(c) == FALSE

(* time.Now().After(authCode.ExpiresAt) *)
Expired(c) == life[c] < 0
-----------------------------------------------------------------------------
(* /authorize *)

ClientOf(p) == IF p.client = None THEN DefaultClient ELSE p.client

(* redirect_uri, or the first registered one, or nothing if there is none. *)
RedirectOf(p, uris) ==
    CASE p.redirect # None -> p.redirect
      [] p.redirect = None /\ uris # {} ->
            CHOOSE u \in uris : \A v \in uris : u <= v
      [] OTHER -> None

isRedirectURIAllowed(uri, uris) == uri \in uris

isScopeAllowed(scope, allowed) == scope \subseteq allowed

AuthCodeOf(r) ==
    [client |-> ClientOf(r.in), user |-> r.user, redirect |-> r.redirect,
     scope |-> r.in.scope, challenge |-> r.in.challenge, method |-> r.in.method]

AuthzFails(a) == authz' = [authz EXCEPT ![a].pc = "failed"]

(* The handler has a live session of user u in hand and calls the service. *)
BeginAuthorize(a) ==
    /\ authz[a].pc = "idle"
    /\ \E p \in AuthorizeInputs, u \in Users :
          authz' = [authz EXCEPT ![a] = [@ EXCEPT !.pc = "client", !.in = p, !.user = u]]
    /\ UNCHANGED <<clients, codes, life, refreshTokens, xchg>>

(* GetByClientID, first SELECT: the client's row. *)
ReadClient(a) ==
    /\ authz[a].pc = "client"
    /\ \/ /\ clients[ClientOf(authz[a].in)].registered
          /\ authz' = [authz EXCEPT ![a].pc = "uris"]
       \/ /\ ~clients[ClientOf(authz[a].in)].registered \/ Faulty
          /\ AuthzFails(a)
    /\ UNCHANGED <<clients, codes, life, refreshTokens, xchg>>

(***************************************************************************)
(* Its second SELECT.  The loop over rows.Next() does not ask rows.Err():  *)
(* a connection that breaks half-way leaves a part of the rows.            *)
(***************************************************************************)
ReadURIs(a) ==
    /\ authz[a].pc = "uris"
    /\ \/ \E S \in SUBSET clients[ClientOf(authz[a].in)].uris :
            /\ Faulty \/ S = clients[ClientOf(authz[a].in)].uris
            /\ authz' = [authz EXCEPT ![a] = [@ EXCEPT !.pc = "scopes", !.uris = S]]
       \/ Faulty /\ AuthzFails(a)
    /\ UNCHANGED <<clients, codes, life, refreshTokens, xchg>>

(* Its third SELECT, and the checks Authorize makes of what the three gave. *)
ReadScopes(a) ==
    /\ authz[a].pc = "scopes"
    /\ LET p == authz[a].in
           uri == RedirectOf(p, authz[a].uris)
       IN \/ \E S \in SUBSET clients[ClientOf(p)].scopes :
               /\ Faulty \/ S = clients[ClientOf(p)].scopes
               /\ isRedirectURIAllowed(uri, authz[a].uris)
               /\ isScopeAllowed(p.scope, S)
               /\ authz' = [authz EXCEPT ![a] =
                     [@ EXCEPT !.pc = "save", !.uris = {}, !.redirect = uri]]
          \/ /\ \/ ~isRedirectURIAllowed(uri, authz[a].uris)
                \/ ~isScopeAllowed(p.scope, clients[ClientOf(p)].scopes)
                \/ Faulty
             /\ authz' = [authz EXCEPT ![a] = [@ EXCEPT !.pc = "failed", !.uris = {}]]
    /\ UNCHANGED <<clients, codes, life, refreshTokens, xchg>>

(***************************************************************************)
(* generateAuthCode, then authCodeRepo.Save with a TTL that ends at        *)
(* ExpiresAt.  A failed SET may have reached the store.                    *)
(***************************************************************************)
Save(a) ==
    /\ authz[a].pc = "save"
    /\ \/ /\ codes' = [codes EXCEPT ![a] = AuthCodeOf(authz[a])]
          /\ authz' = [authz EXCEPT ![a] = [@ EXCEPT !.pc = "issued", !.drawn = TRUE]]
       \/ /\ StoreFaulty
          /\ codes' \in {codes, [codes EXCEPT ![a] = AuthCodeOf(authz[a])]}
          /\ authz' = [authz EXCEPT ![a] = [@ EXCEPT !.pc = "failed", !.drawn = TRUE]]
    /\ UNCHANGED <<clients, life, refreshTokens, xchg>>
-----------------------------------------------------------------------------
(* /token *)

(* S256 hashes the verifier, plain (or no) method takes it as it is. *)
verifyCodeChallenge(verifier, challenge, method) ==
    \/ method = "S256" /\ Hash(verifier) = challenge
    \/ method \in {"PLAIN", ""} /\ verifier = challenge

(* Mutation of PKCEVerified: a request without verifier passes. *)
PKCEVerifiedIfGiven(p, code) ==
    \/ code.challenge = None
    \/ p.verifier = None
    \/ verifyCodeChallenge(p.verifier, code.challenge, code.method)

(* Mutation of ClientMatches: the request's client_id is not compared. *)
ClientMatchesAny(p, code) == TRUE

(* A parameter is compared only when the request carries it. *)
ClientMatches(p, code) == p.client \in {None, code.client}

RedirectMatches(p, code) == p.redirect \in {None, code.redirect}

PKCEVerified(p, code) ==
    \/ code.challenge = None
    \/ /\ p.verifier # None
       /\ verifyCodeChallenge(p.verifier, code.challenge, code.method)

XchgFails(x, err) ==
    xchg' = [xchg EXCEPT ![x] = [@ EXCEPT !.pc = "failed", !.err = err]]

(* What after and late record of a request that begins now. *)
Ended == {x \in Exchangers : xchg[x].pc \in XchgEnded}
Late(c) == c # None /\ life[c] < 0

(***************************************************************************)
(* The request arrives: the service refuses another grant type, and a      *)
(* missing code, before it touches the store.  A code in a request is one  *)
(* that a redirect has handed out.                                         *)
(***************************************************************************)
BeginExchange(x) ==
    /\ xchg[x].pc = "idle"
    /\ \E p \in TokenInputs,
          c \in {None} \cup {a \in Authorizers : authz[a].pc = "issued"} :
          LET began(pc, err) ==
                xchg' = [xchg EXCEPT ![x] =
                   [@ EXCEPT !.pc = pc, !.in = p, !.code = c, !.err = err,
                             !.after = Ended, !.late = Late(c)]]
          IN \/ /\ p.grantType # "authorization_code"
                /\ began("failed", "unsupported_grant_type")
             \/ /\ p.grantType = "authorization_code" /\ c = None
                /\ began("failed", "invalid_request")
             \/ /\ p.grantType = "authorization_code" /\ c # None
                /\ began("get", None)
    /\ UNCHANGED <<clients, codes, life, refreshTokens, authz>>

(***************************************************************************)
(* authCodeRepo.Get.  Redis deletes the key of an expired code it still    *)
(* finds, whatever becomes of that call; the in-memory store leaves it.    *)
(***************************************************************************)
GetCode(x) ==
    LET c == xchg[x].code IN
    /\ xchg[x].pc = "get"
    /\ \/ /\ codes[c] # None /\ ~Expired(c)
          /\ xchg' = [xchg EXCEPT ![x] = [@ EXCEPT !.pc = "delete", !.got = codes[c]]]
          /\ UNCHANGED codes
       \/ /\ codes[c] # None /\ Expired(c)
          /\ XchgFails(x, "invalid_grant")
          /\ \/ UseRedis /\ codes' = [codes EXCEPT ![c] = None]
             \/ (~UseRedis \/ Faulty) /\ UNCHANGED codes
       \/ /\ codes[c] = None \/ StoreFaulty
          /\ XchgFails(x, "invalid_grant")
          /\ UNCHANGED codes
    /\ UNCHANGED <<clients, life, refreshTokens, authz>>

(***************************************************************************)
(* authCodeRepo.Delete, whose error is dropped, then the checks that need  *)
(* no store call: the expiry once more and the request's client_id.        *)
(***************************************************************************)
DeleteCode(x) ==
    LET c == xchg[x].code IN
    /\ xchg[x].pc = "delete"
    /\ \E deleted \in BOOLEAN :
          /\ deleted \/ StoreFaulty
          /\ \/ codes' = [codes EXCEPT ![c] = None]
             \/ ~deleted /\ UNCHANGED codes
          /\ LET ok == ~Expired(c) /\ ClientMatches(xchg[x].in, xchg[x].got)
             IN xchg' = [xchg EXCEPT ![x] =
                  [@ EXCEPT !.deleted = deleted,
                            !.pc = IF ok THEN "client" ELSE "failed",
                            !.err = IF ok THEN None ELSE "invalid_grant"]]
    /\ UNCHANGED <<clients, life, refreshTokens, authz>>

(* Mutation of CheckClient: a refused request puts the code back for a retry. *)
CheckClientRestoring(x) ==
    LET p == xchg[x].in
        got == xchg[x].got
        ok == RedirectMatches(p, got) /\ PKCEVerified(p, got)
    IN
    /\ xchg[x].pc = "client"
    /\ \/ /\ clients[got.client].registered /\ ok
          /\ xchg' = [xchg EXCEPT ![x].pc = "persist"]
          /\ UNCHANGED codes
       \/ /\ ~clients[got.client].registered \/ ~ok
          /\ XchgFails(x, "invalid_grant")
          /\ codes' = [codes EXCEPT ![xchg[x].code] = got]
    /\ UNCHANGED <<clients, life, refreshTokens, authz>>

(* Mutation of CheckClient: a client that is gone gets no answer. *)
CheckClientSilent(x) ==
    LET ok == RedirectMatches(xchg[x].in, xchg[x].got) /\ PKCEVerified(xchg[x].in, xchg[x].got)
    IN
    /\ xchg[x].pc = "client"
    /\ clients[xchg[x].got.client].registered
    /\ IF ok THEN xchg' = [xchg EXCEPT ![x].pc = "persist"] ELSE XchgFails(x, "invalid_grant")
    /\ UNCHANGED <<clients, codes, life, refreshTokens, authz>>

(***************************************************************************)
(* clientRepo.GetByClientID, of which Token uses only whether it succeeds, *)
(* then redirect_uri and PKCE; the access token is signed, or fails to be, *)
(* and the ID token, whose error is dropped.                               *)
(***************************************************************************)
CheckClient(x) ==
    LET p == xchg[x].in
        got == xchg[x].got
        ok == RedirectMatches(p, got) /\ PKCEVerified(p, got)
    IN
    /\ xchg[x].pc = "client"
    /\ \/ /\ clients[got.client].registered /\ ok
          /\ xchg' = [xchg EXCEPT ![x].pc = "persist"]
       \/ /\ clients[got.client].registered /\ ~ok
          /\ XchgFails(x, "invalid_grant")
       \/ /\ ~clients[got.client].registered \/ Faulty
          /\ XchgFails(x, "invalid_client")
       \/ /\ clients[got.client].registered /\ ok /\ Faulty
          /\ XchgFails(x, "internal")
    /\ UNCHANGED <<clients, codes, life, refreshTokens, authz>>

(* Mutation of ForeignKeysHold: refresh_tokens.client_id references nothing. *)
ForeignKeysHoldUserOnly(row) == row.user \in StoredUsers

(* The row's foreign keys: a client that exists, a user id that exists. *)
ForeignKeysHold(row) == clients[row.client].registered /\ row.user \in StoredUsers

(***************************************************************************)
(* refreshTokenRepo.Create: one INSERT with a fresh token and family.  Its *)
(* failure ends the request with the default error code (here "internal"), *)
(* and may come after the row was committed.                               *)
(***************************************************************************)
PersistRefreshToken(x) ==
    LET row == [id |-> x, client |-> xchg[x].got.client, user |-> xchg[x].got.user] IN
    /\ xchg[x].pc = "persist"
    /\ \/ /\ ForeignKeysHold(row)
          /\ refreshTokens' = refreshTokens \cup {row}
          /\ xchg' = [xchg EXCEPT ![x] = [@ EXCEPT !.pc = "respond", !.minted = TRUE]]
       \/ /\ ~ForeignKeysHold(row) \/ Faulty
          /\ \/ UNCHANGED refreshTokens
             \/ ForeignKeysHold(row) /\ refreshTokens' = refreshTokens \cup {row}
          /\ XchgFails(x, "internal")
    /\ UNCHANGED <<clients, codes, life, authz>>

(* The handler writes the token response. *)
Respond(x) ==
    /\ xchg[x].pc = "respond"
    /\ xchg' = [xchg EXCEPT ![x].pc = "done"]
    /\ UNCHANGED <<clients, codes, life, refreshTokens, authz>>
-----------------------------------------------------------------------------
(* What happens around the requests. *)

Drawn(c) == authz[c].drawn

(* Mutation of Tick: the count of ticks left runs on below its floor. *)
TickUnclamped ==
    /\ \E c \in Codes : Drawn(c) /\ life[c] > -3
    /\ life' = [c \in Codes |-> IF Drawn(c) THEN life[c] - 1 ELSE life[c]]
    /\ UNCHANGED <<clients, codes, refreshTokens, authz, xchg>>

(* Time passes. *)
Tick ==
    /\ \E c \in Codes : Drawn(c) /\ life[c] >= 0
    /\ life' = [c \in Codes |-> IF Drawn(c) /\ life[c] >= 0 THEN life[c] - 1
                                                          ELSE life[c]]
    /\ UNCHANGED <<clients, codes, refreshTokens, authz, xchg>>

(* Mutation of ExpireKey: Save sets no TTL. *)
ExpireKeyNever(c) == FALSE /\ UNCHANGED vars

(* Redis drops a key whose time to live is over, at once or a little later. *)
ExpireKey(c) ==
    /\ UseRedis /\ codes[c] # None /\ life[c] <= 0
    /\ codes' = [codes EXCEPT ![c] = None]
    /\ UNCHANGED <<clients, life, refreshTokens, authz, xchg>>

(***************************************************************************)
(* The process dies and is started again: requests in flight are gone,     *)
(* and with them codes kept in memory.                                     *)
(***************************************************************************)
Crash ==
    /\ authz' = [a \in Authorizers |-> IF authz[a].pc \in AuthzActive
                    THEN [authz[a] EXCEPT !.pc = "lost", !.uris = {}] ELSE authz[a]]
    /\ xchg' = [x \in Exchangers |-> IF xchg[x].pc \in XchgActive
                    THEN [xchg[x] EXCEPT !.pc = "lost"] ELSE xchg[x]]
    /\ codes' = IF UseRedis THEN codes ELSE [c \in Codes |-> None]
    /\ UNCHANGED <<clients, life, refreshTokens>>

(***************************************************************************)
(* The User Service edits the client tables meanwhile: inserts a client,   *)
(* replaces its URIs or its scopes, deletes it with all that refers to it. *)
(***************************************************************************)
InsertClient(k) ==
    /\ Table!Insert(k)
    /\ UNCHANGED <<codes, life, refreshTokens, authz, xchg>>

ReplaceLists(k) ==
    /\ Table!ReplaceURIs(k) \/ Table!ReplaceScopes(k)
    /\ UNCHANGED <<codes, life, refreshTokens, authz, xchg>>

DeleteClient(k) ==
    /\ Table!Delete(k)
    /\ refreshTokens' = {r \in refreshTokens : r.client # k}
    /\ UNCHANGED <<codes, life, authz, xchg>>
-----------------------------------------------------------------------------
AuthorizeStep(a) == ReadClient(a) \/ ReadURIs(a) \/ ReadScopes(a) \/ Save(a)

ExchangeStep(x) ==
    \/ GetCode(x) \/ DeleteCode(x) \/ CheckClient(x)
    \/ PersistRefreshToken(x) \/ Respond(x)

AdminStep(k) == InsertClient(k) \/ ReplaceLists(k) \/ DeleteClient(k)

Next ==
    \/ \E a \in Authorizers : BeginAuthorize(a) \/ AuthorizeStep(a)
    \/ \E x \in Exchangers : BeginExchange(x) \/ ExchangeStep(x)
    \/ \E k \in ClientIDs : AdminStep(k)
    \/ \E c \in Codes : ExpireKey(c)
    \/ Tick
    \/ Crash

Spec == Init /\ [][Next]_vars

(***************************************************************************)
(* A goroutine that has begun is scheduled and its calls return (the       *)
(* 60-second timeout of the router sees to that); Redis expires keys; time *)
(* passes.  Nobody has to begin a request, edit a client or crash.         *)
(***************************************************************************)
Fairness ==
    /\ \A a \in Authorizers : WF_vars(AuthorizeStep(a))
    /\ \A x \in Exchangers : WF_vars(ExchangeStep(x))
    /\ \A c \in Codes : WF_vars(ExpireKey(c))
    /\ WF_vars(Tick)

FairSpec == Spec /\ Fairness
-----------------------------------------------------------------------------
(* Properties *)

(***************************************************************************)
(* Tokens are issued for what was authorized: the exchange that mints them *)
(* holds exactly the grant some /authorize request made under its code,    *)
(* for the client, redirect URI and verifier the exchange names.           *)
(* (oauth_service.go:191-217, 220-248)                                     *)
(***************************************************************************)
TokensMatchGrant ==
    \A x \in Exchangers : xchg[x].minted =>
        LET grant == authz[xchg[x].code]
            p == xchg[x].in
            got == xchg[x].got
        IN /\ grant.drawn /\ got = AuthCodeOf(grant)
           /\ p.client # None => p.client = got.client
           /\ p.redirect # None => p.redirect = grant.redirect
           /\ got.challenge # None /\ got.method = "S256" =>
                  p.verifier # None /\ got.challenge = Hash(p.verifier)
           /\ got.challenge # None /\ got.method # "S256" =>
                  p.verifier = got.challenge

(***************************************************************************)
(* An exchange that begins after another exchange of the same code has     *)
(* ended, however that one ended, finds nothing in the store, if the       *)
(* store acknowledged the other's Delete.  (oauth_service.go:174-180)      *)
(***************************************************************************)
SequentialReuseRejected ==
    \A x, y \in Exchangers :
        /\ y \in xchg[x].after
        /\ xchg[y].deleted
        /\ xchg[x].code = xchg[y].code
        => xchg[x].got = None

(***************************************************************************)
(* No exchange that begins after its code's ExpiresAt reads the code, even *)
(* when the store still holds the key.  (auth_code_repository.go:87-90,    *)
(* 141-143)                                                                *)
(***************************************************************************)
ExpiredCodeNeverRead == \A x \in Exchangers : xchg[x].late => xchg[x].got = None

(***************************************************************************)
(* Every stored refresh token belongs to an exchange that read its grant,  *)
(* and to a client and a user that exist: a client deleted between Token's *)
(* check and its INSERT leaves no token.  (oauth_service.go:197-200, 324)  *)
(***************************************************************************)
NoOrphanRefreshTokens ==
    \A r \in refreshTokens :
        /\ clients[r.client].registered /\ r.user \in StoredUsers
        /\ xchg[r.id].got # None
        /\ r.client = xchg[r.id].got.client /\ r.user = xchg[r.id].got.user

(***************************************************************************)
(* What the comment at oauth_service.go:179 and README.md:133 say of a     *)
(* code: it is single-use.  No two exchanges get tokens for one code.      *)
(***************************************************************************)
SingleUse ==
    \A x, y \in Exchangers :
        x # y /\ xchg[x].minted /\ xchg[y].minted => xchg[x].code # xchg[y].code

(***************************************************************************)
(* What auth_service.go:84 says of a login that finds no row in table      *)
(* users: it "allows testing without pre-seeding the users table".  So the *)
(* INSERT of a refresh token, which the exchange of such a user's code     *)
(* comes to, fails only for a client that is gone.                         *)
(***************************************************************************)
PersistFailsOnlyWithoutClient ==
    [][\A x \in Exchangers :
          xchg[x].pc = "persist" /\ xchg'[x].pc = "failed" =>
              ~clients[xchg[x].got.client].registered]_vars

(***************************************************************************)
(* A request that has begun is answered, unless the process dies under it. *)
(***************************************************************************)
RequestsEnd ==
    /\ \A a \in Authorizers : authz[a].pc \in AuthzActive ~> authz[a].pc \in AuthzEnded
    /\ \A x \in Exchangers : xchg[x].pc \in XchgActive ~> xchg[x].pc \in XchgEnded

(***************************************************************************)
(* With Redis no code stays in the store for ever, exchanged or not.       *)
(* (auth_code_repository.go:54-59)                                         *)
(***************************************************************************)
CodesLeaveStore == \A c \in Codes : codes[c] # None ~> codes[c] = None

(***************************************************************************)
(* The code store and the requests implement the lifecycle of a code.      *)
(***************************************************************************)
PhaseOf(c) ==
    IF codes[c] # None THEN "live" ELSE IF Drawn(c) THEN "gone" ELSE "fresh"

ClaimOf(x) == IF xchg[x].got = None THEN None ELSE xchg[x].code

Lifecycle == INSTANCE CodeLifecycle WITH
    phase <- [c \in Codes |-> PhaseOf(c)],
    claim <- [x \in Exchangers |-> ClaimOf(x)],
    redeemed <- {x \in Exchangers : xchg[x].minted}

LifecycleSpec == Lifecycle!Spec
=============================================================================
