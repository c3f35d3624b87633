----------------------------- MODULE LoginFlow -----------------------------
(***************************************************************************)
(* A user's way to tokens through three parties: the Client Service, which *)
(* starts a login with a fresh state and PKCE verifier and trades the code *)
(* it gets back; the Authorization Server, which logs users in, keeps      *)
(* their sessions and issues codes; and browsers, with the session cookie. *)
(*                                                                         *)
(* Of the Authorization Server's two grant endpoints only the contract is  *)
(* used that CodeLifecycle states and AuthorizationCode is shown to keep:  *)
(* in particular several exchanges may hold a claim on one code.           *)
(***************************************************************************)
EXTENDS Integers

CONSTANTS
    Browsers, Users,
    Logins,      \* POSTs to /login; each draws a session id
    Logouts,     \* requests to /logout
    Attempts,    \* requests to the client's /login; each draws a state, and
                 \* a PKCE verifier with it
    Visits,      \* requests to /authorize; each draws a code
    Callbacks,   \* requests to the client's /oauth/callback
    SessionTTL, StateTTL,
    Faulty,      \* calls between processes may fail
    None

ASSUME NoneAssumption == None \notin Logins \cup Attempts \cup Visits \cup Users

ASSUME ConstantsAssumption ==
    /\ SessionTTL \in Nat \ {0} /\ StateTTL \in Nat \ {0}
    /\ Faulty \in BOOLEAN

VARIABLES
    sessionBackend, sessionPlace, sessionLife,  \* the Authorization Server's sessions
    stateBackend, statePlace, stateLife,        \* the Client Service's states
    phase, claim, redeemed,                     \* codes and exchanges
    cookie,      \* browser -> the session in its auth_session cookie, or None
    login, logout, attempt, visit, callback     \* requests

sessionVars == <<sessionBackend, sessionPlace, sessionLife>>
stateVars == <<stateBackend, statePlace, stateLife>>
codeVars == <<phase, claim, redeemed>>
requests == <<login, logout, attempt, visit, callback>>
vars == <<sessionVars, stateVars, codeVars, cookie, requests>>

Sessions == INSTANCE ExpiringStore WITH
    Ids <- Logins, TTL <- SessionTTL,
    backend <- sessionBackend, place <- sessionPlace, life <- sessionLife

States == INSTANCE ExpiringStore WITH
    Ids <- Attempts, TTL <- StateTTL,
    backend <- stateBackend, place <- statePlace, life <- stateLife

Grants == INSTANCE CodeLifecycle WITH Codes <- Visits, Exchangers <- Callbacks

Login ==
    [pc: {"idle", "save", "done", "failed", "lost"},
     browser: Browsers \cup {None}, user: Users \cup {None}]

Logout ==
    [pc: {"idle", "revoke", "done", "lost"},
     browser: Browsers \cup {None}, session: Logins \cup {None}]

(***************************************************************************)
(* dead only observes: the session the visit came with was past its expiry *)
(* or gone from where it had been, when the visit began.                   *)
(***************************************************************************)
Visit ==
    [pc: {"idle", "session", "grant", "issued", "login", "failed", "lost"},
     attempt: Attempts \cup {None}, session: Logins \cup {None},
     user: Users \cup {None}, dead: BOOLEAN]

(* open: the Authorization Server may be at work on its exchange. *)
Callback ==
    [pc: {"idle", "state", "post", "tokens", "failed", "lost"},
     code: Visits \cup {None}, state: Attempts \cup {None},
     posted: BOOLEAN, open: BOOLEAN]

TypeOK ==
    /\ Sessions!TypeOK /\ States!TypeOK /\ Grants!TypeOK
    /\ cookie \in [Browsers -> Logins \cup {None}]
    /\ login \in [Logins -> Login]
    /\ logout \in [Logouts -> Logout]
    /\ attempt \in [Attempts -> {"idle", "redirected", "failed"}]
    /\ visit \in [Visits -> Visit]
    /\ callback \in [Callbacks -> Callback]

Init ==
    /\ Sessions!Init /\ States!Init /\ Grants!Init
    /\ cookie = [b \in Browsers |-> None]
    /\ login = [l \in Logins |-> [pc |-> "idle", browser |-> None, user |-> None]]
    /\ logout = [o \in Logouts |-> [pc |-> "idle", browser |-> None, session |-> None]]
    /\ attempt = [t \in Attempts |-> "idle"]
    /\ visit = [v \in Visits |->
                  [pc |-> "idle", attempt |-> None, session |-> None, user |-> None,
                   dead |-> FALSE]]
    /\ callback = [x \in Callbacks |->
                     [pc |-> "idle", code |-> None, state |-> None,
                      posted |-> FALSE, open |-> FALSE]]
-----------------------------------------------------------------------------
(* The Authorization Server: /login and /logout *)

(* Authenticate accepts the credentials as those of some user. *)
BeginLogin(l) ==
    /\ login[l].pc = "idle"
    /\ \E b \in Browsers, u \in Users :
          login' = [login EXCEPT ![l] = [pc |-> "save", browser |-> b, user |-> u]]
    /\ UNCHANGED <<sessionVars, stateVars, codeVars, cookie, logout, attempt, visit, callback>>

(* CreateSession; the answer sets the cookie. *)
SaveSession(l) ==
    /\ login[l].pc = "save"
    /\ \/ /\ Sessions!Put(l)
          /\ login' = [login EXCEPT ![l].pc = "done"]
          /\ cookie' = [cookie EXCEPT ![login[l].browser] = l]
       \/ /\ Faulty /\ Sessions!PutFails(l)
          /\ login' = [login EXCEPT ![l].pc = "failed"]
          /\ UNCHANGED cookie
    /\ UNCHANGED <<stateVars, codeVars, logout, attempt, visit, callback>>

(* A request to /logout, with the cookie as it is now. *)
BeginLogout(o) ==
    /\ logout[o].pc = "idle"
    /\ \E b \in Browsers :
          logout' = [logout EXCEPT ![o] =
                       [pc |-> "revoke", browser |-> b, session |-> cookie[b]]]
    /\ UNCHANGED <<sessionVars, stateVars, codeVars, cookie, login, attempt, visit, callback>>

(* RevokeSession, whose error is dropped; the answer clears the cookie. *)
RevokeSession(o) ==
    LET l == logout[o].session IN
    /\ logout[o].pc = "revoke"
    /\ \/ l = None /\ UNCHANGED sessionVars
       \/ l # None /\ Sessions!Remove(l)
       \/ l # None /\ Faulty /\ Sessions!RemoveFails(l)
    /\ logout' = [logout EXCEPT ![o].pc = "done"]
    /\ cookie' = [cookie EXCEPT ![logout[o].browser] = None]
    /\ UNCHANGED <<stateVars, codeVars, login, attempt, visit, callback>>
-----------------------------------------------------------------------------
(* The Client Service: /login *)

(* BuildAuthorizeURL saves the state with its verifier and redirects. *)
StartAttempt(t) ==
    /\ attempt[t] = "idle"
    /\ \/ /\ States!Put(t)
          /\ attempt' = [attempt EXCEPT ![t] = "redirected"]
       \/ /\ Faulty /\ States!PutFails(t)
          /\ attempt' = [attempt EXCEPT ![t] = "failed"]
    /\ UNCHANGED <<sessionVars, codeVars, cookie, login, logout, visit, callback>>
-----------------------------------------------------------------------------
(* The Authorization Server: /authorize *)

Gone(l) == sessionPlace[l] = "nowhere" \/ sessionLife[l] < 0

(* A browser follows the redirect of an attempt, maybe not for the first   *)
(* time.  Without a cookie it is sent to the login page.                   *)
BeginVisit(v) ==
    /\ visit[v].pc = "idle"
    /\ \E t \in Attempts, b \in Browsers :
          /\ attempt[t] = "redirected"
          /\ visit' = [visit EXCEPT ![v] =
                [pc |-> IF cookie[b] = None THEN "login" ELSE "session",
                 attempt |-> t, session |-> cookie[b], user |-> None,
                 dead |-> cookie[b] # None /\ Gone(cookie[b])]]
    /\ UNCHANGED <<sessionVars, stateVars, codeVars, cookie, login, logout, attempt, callback>>

(* ValidateSession; a session found past its expiry is deleted. *)
ValidateSession(v) ==
    LET l == visit[v].session IN
    /\ visit[v].pc = "session"
    /\ \/ /\ Sessions!Live(l)
          /\ visit' = [visit EXCEPT ![v] = [@ EXCEPT !.pc = "grant", !.user = login[l].user]]
          /\ UNCHANGED sessionVars
       \/ /\ Sessions!Stored(l) /\ ~Sessions!Live(l)
          /\ Sessions!Remove(l) \/ (Faulty /\ Sessions!RemoveFails(l))
          /\ visit' = [visit EXCEPT ![v].pc = "login"]
       \/ /\ ~Sessions!Stored(l) \/ (Faulty /\ sessionBackend = "redis")
          /\ visit' = [visit EXCEPT ![v].pc = "login"]
          /\ UNCHANGED sessionVars
    /\ UNCHANGED <<stateVars, codeVars, cookie, login, logout, attempt, callback>>

(***************************************************************************)
(* OAuthService.Authorize: a code, or an error; of an error the store may  *)
(* hold a code that no redirect tells.                                     *)
(***************************************************************************)
Authorize(v) ==
    /\ visit[v].pc = "grant"
    /\ \/ Grants!Issue(v) /\ visit' = [visit EXCEPT ![v].pc = "issued"]
       \/ /\ UNCHANGED codeVars \/ (Faulty /\ Grants!Issue(v))
          /\ visit' = [visit EXCEPT ![v].pc = "failed"]
    /\ UNCHANGED <<sessionVars, stateVars, cookie, login, logout, attempt, callback>>

(* A code is used up, or expires, or is lost with the store. *)
LoseCode(c) ==
    /\ phase[c] = "live"
    /\ Grants!Retire({c})
    /\ UNCHANGED <<sessionVars, stateVars, cookie, requests>>
-----------------------------------------------------------------------------
(* The Client Service: /oauth/callback *)

(* A code that a redirect has told, and a state: its own, or another. *)
BeginCallback(x) ==
    /\ callback[x].pc = "idle"
    /\ \E c \in Visits, t \in Attempts :
          /\ visit[c].pc = "issued" /\ attempt[t] = "redirected"
          /\ callback' = [callback EXCEPT ![x] =
                [@ EXCEPT !.pc = "state", !.code = c, !.state = t]]
    /\ UNCHANGED <<sessionVars, stateVars, codeVars, cookie, login, logout, attempt, visit>>

(* Mutation of TakeState: the state is read and left for its TTL. *)
TakeStateKept(x) ==
    LET t == callback[x].state IN
    /\ callback[x].pc = "state"
    /\ callback' = [callback EXCEPT ![x] =
          IF States!Stored(t) THEN [@ EXCEPT !.pc = "post", !.posted = TRUE, !.open = TRUE]
                              ELSE [@ EXCEPT !.pc = "failed"]]
    /\ UNCHANGED <<sessionVars, stateVars, codeVars, cookie, login, logout, attempt, visit>>

(***************************************************************************)
(* GetAndDeleteState: GETDEL, whose key Redis alone expires, or the map,   *)
(* that deletes first and asks for the expiry then.                        *)
(***************************************************************************)
TakeState(x) ==
    LET t == callback[x].state
        valid == States!Stored(t) /\ (stateBackend = "redis" \/ States!Live(t))
    IN
    /\ callback[x].pc = "state"
    /\ \/ /\ States!Remove(t)
          /\ callback' = [callback EXCEPT ![x] =
                IF valid THEN [@ EXCEPT !.pc = "post", !.posted = TRUE, !.open = TRUE]
                         ELSE [@ EXCEPT !.pc = "failed"]]
       \/ /\ Faulty /\ States!RemoveFails(t)
          /\ callback' = [callback EXCEPT ![x].pc = "failed"]
    /\ UNCHANGED <<sessionVars, codeVars, cookie, login, logout, attempt, visit>>

(* Mutation of VerifierMatches: the client sends no code_verifier. *)
VerifierUnsent(x) == TRUE

(* The verifier kept with the state hashes to the challenge of the code. *)
VerifierMatches(x) == visit[callback[x].code].attempt = callback[x].state

(* The Authorization Server reads the code ... *)
ClaimCode(x) ==
    /\ callback[x].open
    /\ Grants!Claim(x, callback[x].code)
    /\ UNCHANGED <<sessionVars, stateVars, cookie, requests>>

(* ... and has tokens for it. *)
RedeemCode(x) ==
    /\ callback[x].open /\ VerifierMatches(x)
    /\ Grants!Redeem(x)
    /\ UNCHANGED <<sessionVars, stateVars, cookie, requests>>

(* It answers with the tokens or with an error; the answer comes too late  *)
(* if the client has given up.                                             *)
AnswerExchange(x) ==
    /\ callback[x].open
    /\ callback' = [callback EXCEPT
          ![x].open = FALSE,
          ![x].pc = IF @ # "post" THEN @ ELSE
                    IF x \in redeemed THEN "tokens" ELSE "failed"]
    /\ UNCHANGED <<sessionVars, stateVars, codeVars, cookie, login, logout, attempt, visit>>

(* The 15 seconds are over, or the connection breaks. *)
GiveUp(x) ==
    /\ Faulty
    /\ callback[x].pc = "post"
    /\ callback' = [callback EXCEPT ![x].pc = "failed"]
    /\ UNCHANGED <<sessionVars, stateVars, codeVars, cookie, login, logout, attempt, visit>>
-----------------------------------------------------------------------------
(* Around the requests *)

ExpireSession(l) ==
    /\ Sessions!ExpireKey(l)
    /\ UNCHANGED <<stateVars, codeVars, cookie, requests>>

ExpireState(t) ==
    /\ States!ExpireKey(t)
    /\ UNCHANGED <<sessionVars, codeVars, cookie, requests>>

(* The clocks of the two stores; nothing compares them. *)
TickSessions == Sessions!Tick /\ UNCHANGED <<stateVars, codeVars, cookie, requests>>
TickStates == States!Tick /\ UNCHANGED <<sessionVars, codeVars, cookie, requests>>

(***************************************************************************)
(* The Authorization Server dies and is started again.  One way to die is  *)
(* its own: GetSession of the in-memory store deletes from the map under a *)
(* read lock, and the Go runtime ends a process that it catches at two     *)
(* writes, or a write and a read, of a map at once.                        *)
(***************************************************************************)
RestartAuthorizationServer ==
    /\ Sessions!Restart
    /\ login' = [l \in Logins |->
          IF login[l].pc = "save" THEN [login[l] EXCEPT !.pc = "lost"] ELSE login[l]]
    /\ logout' = [o \in Logouts |->
          IF logout[o].pc = "revoke" THEN [logout[o] EXCEPT !.pc = "lost"] ELSE logout[o]]
    /\ visit' = [v \in Visits |->
          IF visit[v].pc \in {"session", "grant"} THEN [visit[v] EXCEPT !.pc = "lost"]
                                                  ELSE visit[v]]
    /\ callback' = [x \in Callbacks |->
          IF callback[x].open
          THEN [callback[x] EXCEPT !.open = FALSE, !.pc = IF @ = "post" THEN "failed" ELSE @]
          ELSE callback[x]]
    /\ UNCHANGED <<stateVars, codeVars, cookie, attempt>>

(* The Client Service does; an exchange it has posted may go on without it. *)
RestartClientService ==
    /\ States!Restart
    /\ callback' = [x \in Callbacks |->
          IF callback[x].pc \in {"state", "post"} THEN [callback[x] EXCEPT !.pc = "lost"]
                                                  ELSE callback[x]]
    /\ UNCHANGED <<sessionVars, codeVars, cookie, login, logout, attempt, visit>>

Next ==
    \/ \E l \in Logins : BeginLogin(l) \/ SaveSession(l) \/ ExpireSession(l)
    \/ \E o \in Logouts : BeginLogout(o) \/ RevokeSession(o)
    \/ \E t \in Attempts : StartAttempt(t) \/ ExpireState(t)
    \/ \E v \in Visits : BeginVisit(v) \/ ValidateSession(v) \/ Authorize(v) \/ LoseCode(v)
    \/ \E x \in Callbacks :
          \/ BeginCallback(x) \/ TakeState(x) \/ ClaimCode(x) \/ RedeemCode(x)
          \/ AnswerExchange(x) \/ GiveUp(x)
    \/ TickSessions \/ TickStates
    \/ RestartAuthorizationServer \/ RestartClientService

Spec == Init /\ [][Next]_vars
-----------------------------------------------------------------------------
(* Properties *)

(***************************************************************************)
(* A state lets one callback through to the token endpoint, however many   *)
(* present it at once, before and after restarts that move the client      *)
(* between Redis and memory.  (oauth_client_service.go:109-113,            *)
(* state_store.go:69, 132)                                                 *)
(***************************************************************************)
OneExchangePerState ==
    \A x, y \in Callbacks :
        x # y /\ callback[x].posted /\ callback[y].posted =>
            callback[x].state # callback[y].state

(***************************************************************************)
(* No code is turned into tokens twice: the Authorization Server, for      *)
(* which two exchanges may hold a claim on one code, gets no two requests  *)
(* of this client that it could grant.  (oauth_client_service.go:108-131)  *)
(***************************************************************************)
CodeRedeemedOnce ==
    \A x, y \in redeemed : x # y => callback[x].code # callback[y].code

(***************************************************************************)
(* Tokens that reach the client are for a code that was issued on its own  *)
(* attempt, to a session that was not over when the code was asked for,    *)
(* and name the user who logged in to that session.                        *)
(* (oauth_handler.go:32-60, oauth_client_service.go:115-131)               *)
(***************************************************************************)
TokensOfAttempt ==
    \A x \in Callbacks : callback[x].pc = "tokens" =>
        LET v == visit[callback[x].code] IN
        /\ v.attempt = callback[x].state
        /\ v.pc = "issued" /\ ~v.dead
        /\ login[v.session].pc = "done" /\ v.user = login[v.session].user

(***************************************************************************)
(* A session that is over, by logout, by its expiry or with the process    *)
(* that kept it, is over for good: no later request to /authorize gets     *)
(* past the login page on it, also when a server that used Redis comes     *)
(* back without, and with it again.  (session_store.go:78-103, 149-164)    *)
(***************************************************************************)
DeadSessionNeverAuthorizes == \A v \in Visits : visit[v].dead => visit[v].user = None
=============================================================================
