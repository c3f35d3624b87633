-------------------------- MODULE LoginFlowProofs --------------------------
(* Proofs of the properties of LoginFlow. *)
EXTENDS LoginFlow, TLAPS

(***************************************************************************)
(* The inductive invariant.  A session that a cookie or a visit names was  *)
(* answered by a login, which nothing takes back; where a visit has a user *)
(* its session was not over when it began.                                 *)
(***************************************************************************)
LoginInv ==
    /\ \A b \in Browsers : cookie[b] # None => login[cookie[b]].pc = "done"
    /\ \A l \in Logins : login[l].pc # "idle" => login[l].user \in Users

VisitInv ==
    \A v \in Visits :
        /\ visit[v].session # None => login[visit[v].session].pc = "done"
        /\ visit[v].pc \in {"session", "grant", "issued"} => visit[v].session # None
        /\ visit[v].pc \in {"grant", "issued"} => visit[v].user \in Users
        /\ visit[v].user # None =>
              visit[v].session # None /\ visit[v].user = login[visit[v].session].user
        /\ visit[v].dead =>
              visit[v].session # None /\ Gone(visit[v].session) /\ visit[v].user = None

(* The code and the state a callback names are fixed when it begins. *)
CallbackInv ==
    \A x \in Callbacks :
        /\ callback[x].pc # "idle" =>
              /\ callback[x].code # None /\ visit[callback[x].code].pc = "issued"
              /\ callback[x].state # None /\ attempt[callback[x].state] = "redirected"
        /\ callback[x].open => callback[x].posted
        /\ callback[x].posted => callback[x].pc \notin {"idle", "state"}
        /\ callback[x].pc \in {"post", "tokens"} => callback[x].posted

(* A state that let an exchange through is in no store, and comes to none. *)
StateInv ==
    \A x \in Callbacks : callback[x].posted => statePlace[callback[x].state] = "nowhere"

RedeemInv ==
    \A x \in Callbacks :
        /\ callback[x].pc = "tokens" => x \in redeemed
        /\ x \in redeemed => callback[x].posted /\ VerifierMatches(x)

IInv ==
    /\ TypeOK /\ LoginInv /\ VisitInv /\ CallbackInv /\ StateInv /\ RedeemInv
    /\ OneExchangePerState
-----------------------------------------------------------------------------
(* Types *)

(* The initial states are of the types. *)
LEMMA InitTypeOK == Init => TypeOK
  BY ConstantsAssumption
  DEF Init, TypeOK, Sessions!Init, States!Init, Grants!Init, Sessions!TypeOK, States!TypeOK,
      Grants!TypeOK, Sessions!Backends, States!Backends, Login, Logout, Visit, Callback

(* The three parts of the state that are kept by other modules. *)
PartsOK == Sessions!TypeOK /\ States!TypeOK /\ Grants!TypeOK

(* The session store keeps its types. *)
LEMMA SessionStoreTypeOK ==
  ASSUME Sessions!TypeOK,
         \/ \E l \in Logins : \/ Sessions!Put(l) \/ Sessions!Remove(l) \/ Sessions!ExpireKey(l)
                            \/ Sessions!PutFails(l) \/ Sessions!RemoveFails(l)
         \/ Sessions!Tick \/ Sessions!Restart \/ UNCHANGED sessionVars
  PROVE  Sessions!TypeOK'
  BY ConstantsAssumption, SMTT(30)
  DEF Sessions!TypeOK, Sessions!Put, Sessions!Remove, Sessions!ExpireKey, Sessions!PutFails,
      Sessions!RemoveFails, Sessions!Tick, Sessions!Restart, Sessions!Backends, Sessions!Stored,
      sessionVars

(* The state store keeps its types. *)
LEMMA StateStoreTypeOK ==
  ASSUME States!TypeOK,
         \/ \E t \in Attempts : \/ States!Put(t) \/ States!Remove(t) \/ States!ExpireKey(t)
                            \/ States!PutFails(t) \/ States!RemoveFails(t)
         \/ States!Tick \/ States!Restart \/ UNCHANGED stateVars
  PROVE  States!TypeOK'
  BY ConstantsAssumption, SMTT(30)
  DEF States!TypeOK, States!Put, States!Remove, States!ExpireKey, States!PutFails,
      States!RemoveFails, States!Tick, States!Restart, States!Backends, States!Stored,
      stateVars

(* The grants keep their types. *)
LEMMA GrantsTypeOK ==
  ASSUME Grants!TypeOK,
         \/ \E c \in Visits : Grants!Issue(c) \/ Grants!Retire({c})
         \/ \E x \in Callbacks, c \in Visits : Grants!Claim(x, c)
         \/ \E x \in Callbacks : Grants!Redeem(x)
         \/ UNCHANGED codeVars
  PROVE  Grants!TypeOK'
  BY DEF Grants!TypeOK, Grants!Issue, Grants!Retire, Grants!Claim, Grants!Redeem, codeVars

(* What TypeOK says of cookies and requests. *)
RequestsOK ==
    /\ cookie \in [Browsers -> Logins \cup {None}]
    /\ login \in [Logins -> Login]
    /\ logout \in [Logouts -> Logout]
    /\ attempt \in [Attempts -> {"idle", "redirected", "failed"}]
    /\ visit \in [Visits -> Visit]
    /\ callback \in [Callbacks -> Callback]

(* The type invariant, in two parts. *)
LEMMA TypeOKParts == TypeOK <=> PartsOK /\ RequestsOK
  BY DEF TypeOK, PartsOK, RequestsOK

-----------------------------------------------------------------------------
(* Which actions change what. *)

(* Which actions change logins. *)
LEMMA LoginFrame ==
  ASSUME [Next]_vars
  PROVE  \/ UNCHANGED <<cookie, login>>
         \/ \E l \in Logins : BeginLogin(l) \/ SaveSession(l)
         \/ \E o \in Logouts : RevokeSession(o)
         \/ RestartAuthorizationServer
  BY DEF Next, vars, requests, ExpireSession, BeginLogout, StartAttempt, ExpireState, BeginVisit,
         ValidateSession, Authorize, LoseCode, BeginCallback, TakeState, ClaimCode, RedeemCode,
         AnswerExchange, GiveUp, TickSessions, TickStates, RestartClientService

(* Which actions change where sessions are. *)
LEMMA SessionFrame ==
  ASSUME [Next]_vars
  PROVE  \/ UNCHANGED sessionVars
         \/ \E l \in Logins : SaveSession(l) \/ ExpireSession(l)
         \/ \E o \in Logouts : RevokeSession(o)
         \/ \E v \in Visits : ValidateSession(v)
         \/ TickSessions \/ RestartAuthorizationServer
  BY DEF Next, vars, BeginLogin, BeginLogout, StartAttempt, ExpireState, BeginVisit,
         Authorize, LoseCode, BeginCallback, TakeState, ClaimCode, RedeemCode,
         AnswerExchange, GiveUp, TickStates, RestartClientService

(* Which actions change where states are. *)
LEMMA StateFrame ==
  ASSUME [Next]_vars
  PROVE  \/ UNCHANGED <<stateVars, attempt>>
         \/ \E t \in Attempts : StartAttempt(t) \/ ExpireState(t)
         \/ \E x \in Callbacks : TakeState(x)
         \/ TickStates \/ RestartClientService
  BY DEF Next, vars, requests, BeginLogin, SaveSession, ExpireSession, BeginLogout, RevokeSession,
         BeginVisit, ValidateSession, Authorize, LoseCode, BeginCallback, ClaimCode, RedeemCode,
         AnswerExchange, GiveUp, TickSessions, RestartAuthorizationServer

(* Which actions change grants. *)
LEMMA CodeFrame ==
  ASSUME [Next]_vars
  PROVE  \/ UNCHANGED codeVars
         \/ \E v \in Visits : Authorize(v) \/ LoseCode(v)
         \/ \E x \in Callbacks : ClaimCode(x) \/ RedeemCode(x)
  BY DEF Next, vars, BeginLogin, SaveSession, ExpireSession, BeginLogout, RevokeSession,
         StartAttempt, ExpireState, BeginVisit, ValidateSession, BeginCallback, TakeState,
         AnswerExchange, GiveUp, TickSessions, TickStates, RestartAuthorizationServer,
         RestartClientService

(* Which actions change visits. *)
LEMMA VisitFrame ==
  ASSUME [Next]_vars
  PROVE  \/ UNCHANGED visit
         \/ \E v \in Visits : BeginVisit(v) \/ ValidateSession(v) \/ Authorize(v)
         \/ RestartAuthorizationServer
  BY DEF Next, vars, requests, BeginLogin, SaveSession, ExpireSession, BeginLogout, RevokeSession,
         StartAttempt, ExpireState, LoseCode, BeginCallback, TakeState, ClaimCode, RedeemCode,
         AnswerExchange, GiveUp, TickSessions, TickStates, RestartClientService

(* Which actions change callbacks. *)
LEMMA CallbackFrame ==
  ASSUME [Next]_vars
  PROVE  \/ UNCHANGED callback
         \/ \E x \in Callbacks :
               BeginCallback(x) \/ TakeState(x) \/ AnswerExchange(x) \/ GiveUp(x)
         \/ RestartAuthorizationServer \/ RestartClientService
  BY DEF Next, vars, requests, BeginLogin, SaveSession, ExpireSession, BeginLogout, RevokeSession,
         StartAttempt, ExpireState, BeginVisit, ValidateSession, Authorize, LoseCode, ClaimCode,
         RedeemCode, TickSessions, TickStates

(* Which actions change logouts. *)
LEMMA LogoutFrame ==
  ASSUME [Next]_vars
  PROVE  \/ UNCHANGED logout
         \/ \E o \in Logouts : BeginLogout(o) \/ RevokeSession(o)
         \/ RestartAuthorizationServer
  BY DEF Next, vars, requests, BeginLogin, SaveSession, ExpireSession, StartAttempt, ExpireState,
         BeginVisit, ValidateSession, Authorize, LoseCode, BeginCallback, TakeState, ClaimCode,
         RedeemCode, AnswerExchange, GiveUp, TickSessions, TickStates, RestartClientService

(* Every step keeps the types of stores, grants and cookies. *)
LEMMA PartsOKStep ==
  ASSUME IInv, [Next]_vars
  PROVE  PartsOK'
<1>0. PartsOK /\ RequestsOK
  BY TypeOKParts DEF IInv
<1>1. Sessions!TypeOK'
  <2>1. CASE UNCHANGED sessionVars
    BY <1>0, <2>1, SessionStoreTypeOK DEF PartsOK
  <2>2. CASE \E l \in Logins : SaveSession(l) \/ ExpireSession(l)
    BY <1>0, <2>2, SessionStoreTypeOK DEF PartsOK, SaveSession, ExpireSession
  <2>3. ASSUME NEW o \in Logouts, RevokeSession(o) PROVE Sessions!TypeOK'
    <3>1. logout[o].session \in Logins \cup {None}
      BY <1>0 DEF RequestsOK, Logout
    <3>2. CASE UNCHANGED sessionVars
      BY <1>0, <3>2, SessionStoreTypeOK DEF PartsOK
    <3>3. CASE /\ logout[o].session # None
               /\ Sessions!Remove(logout[o].session) \/ Sessions!RemoveFails(logout[o].session)
      BY <1>0, <3>1, <3>3, SessionStoreTypeOK DEF PartsOK
    <3> QED
      BY <2>3, <3>2, <3>3 DEF RevokeSession
  <2>4. ASSUME NEW v \in Visits, ValidateSession(v) PROVE Sessions!TypeOK'
    <3>1. visit[v].session \in Logins
      BY <1>0, <2>4 DEF RequestsOK, Visit, ValidateSession, IInv, VisitInv
    <3>2. CASE UNCHANGED sessionVars
      BY <1>0, <3>2, SessionStoreTypeOK DEF PartsOK
    <3>3. CASE Sessions!Remove(visit[v].session) \/ Sessions!RemoveFails(visit[v].session)
      BY <1>0, <3>1, <3>3, SessionStoreTypeOK DEF PartsOK
    <3> QED
      BY <2>4, <3>2, <3>3 DEF ValidateSession
  <2>5. CASE TickSessions \/ RestartAuthorizationServer
    BY <1>0, <2>5, SessionStoreTypeOK DEF PartsOK, TickSessions, RestartAuthorizationServer
  <2> QED
    BY <2>1, <2>2, <2>3, <2>4, <2>5, SessionFrame
<1>2. States!TypeOK'
  <2>1. CASE UNCHANGED stateVars
    BY <1>0, <2>1, StateStoreTypeOK DEF PartsOK
  <2>2. CASE \E t \in Attempts : StartAttempt(t) \/ ExpireState(t)
    BY <1>0, <2>2, StateStoreTypeOK DEF PartsOK, StartAttempt, ExpireState
  <2>3. ASSUME NEW x \in Callbacks, TakeState(x) PROVE States!TypeOK'
    <3>1. callback[x].state \in Attempts
      BY <1>0, <2>3 DEF RequestsOK, Callback, TakeState, IInv, CallbackInv
    <3>2. States!Remove(callback[x].state) \/ States!RemoveFails(callback[x].state)
      BY <2>3 DEF TakeState
    <3> QED
      BY <1>0, <3>1, <3>2, StateStoreTypeOK DEF PartsOK
  <2>4. CASE TickStates \/ RestartClientService
    BY <1>0, <2>4, StateStoreTypeOK DEF PartsOK, TickStates, RestartClientService
  <2> QED
    BY <2>1, <2>2, <2>3, <2>4, StateFrame
<1>3. Grants!TypeOK'
  <2>1. CASE UNCHANGED codeVars
    BY <1>0, <2>1, GrantsTypeOK DEF PartsOK
  <2>2. CASE \E v \in Visits : Authorize(v) \/ LoseCode(v)
    BY <1>0, <2>2, GrantsTypeOK DEF PartsOK, Authorize, LoseCode
  <2>3. ASSUME NEW x \in Callbacks, ClaimCode(x) PROVE Grants!TypeOK'
    <3>1. callback[x].code \in Visits
      BY <1>0, <2>3 DEF RequestsOK, Callback, ClaimCode, IInv, CallbackInv
    <3> QED
      BY <1>0, <2>3, <3>1, GrantsTypeOK DEF PartsOK, ClaimCode
  <2>4. CASE \E x \in Callbacks : RedeemCode(x)
    BY <1>0, <2>4, GrantsTypeOK DEF PartsOK, RedeemCode
  <2> QED
    BY <2>1, <2>2, <2>3, <2>4, CodeFrame
<1> QED
  BY <1>1, <1>2, <1>3 DEF PartsOK

(* Every step keeps the types of requests. *)
LEMMA RequestsOKStep ==
  ASSUME IInv, [Next]_vars
  PROVE  RequestsOK'
<1>0. PartsOK /\ RequestsOK
  BY TypeOKParts DEF IInv
<1> DEFINE LoginsOK == /\ cookie \in [Browsers -> Logins \cup {None}]
                       /\ login \in [Logins -> Login]
<1>1. LoginsOK'
  <2>1. CASE UNCHANGED <<cookie, login>>
    BY <1>0, <2>1 DEF RequestsOK
  <2>2. ASSUME NEW l \in Logins, BeginLogin(l) PROVE LoginsOK'
    BY <1>0, <2>2 DEF RequestsOK, BeginLogin, Login
  <2>3. ASSUME NEW l \in Logins, SaveSession(l) PROVE LoginsOK'
    BY <1>0, <2>3 DEF RequestsOK, SaveSession, Login
  <2>4. ASSUME NEW o \in Logouts, RevokeSession(o) PROVE LoginsOK'
    BY <1>0, <2>4 DEF RequestsOK, RevokeSession
  <2>5. CASE RestartAuthorizationServer
    BY <1>0, <2>5 DEF RequestsOK, RestartAuthorizationServer, Login
  <2> QED
    BY <2>1, <2>2, <2>3, <2>4, <2>5, LoginFrame
<1>2. (logout \in [Logouts -> Logout])'
  <2>1. CASE UNCHANGED logout
    BY <1>0, <2>1 DEF RequestsOK
  <2>2. ASSUME NEW o \in Logouts, BeginLogout(o) PROVE (logout \in [Logouts -> Logout])'
    BY <1>0, <2>2 DEF RequestsOK, BeginLogout, Logout
  <2>3. ASSUME NEW o \in Logouts, RevokeSession(o) PROVE (logout \in [Logouts -> Logout])'
    BY <1>0, <2>3 DEF RequestsOK, RevokeSession, Logout
  <2>4. CASE RestartAuthorizationServer
    <3>1. ASSUME NEW o \in Logouts
          PROVE  logout[o] \in Logout /\ [logout[o] EXCEPT !.pc = "lost"] \in Logout
      BY <1>0 DEF RequestsOK, Logout
    <3> QED
      BY <2>4, <3>1 DEF RestartAuthorizationServer
  <2> QED
    BY <2>1, <2>2, <2>3, <2>4, LogoutFrame
<1>3. (attempt \in [Attempts -> {"idle", "redirected", "failed"}])'
  BY <1>0, StateFrame
  DEF RequestsOK, StartAttempt, ExpireState, TakeState, TickStates, RestartClientService, requests
<1>4. (visit \in [Visits -> Visit])'
  <2>1. CASE UNCHANGED visit
    BY <1>0, <2>1 DEF RequestsOK
  <2>2. ASSUME NEW v \in Visits, BeginVisit(v) PROVE (visit \in [Visits -> Visit])'
    <3>1. PICK t \in Attempts, b \in Browsers : BeginVisit(v)!2!(t, b)
      BY <2>2 DEF BeginVisit
    <3>2. (cookie[b] # None /\ Gone(cookie[b])) \in BOOLEAN
      BY ZenonT(20)
    <3> DEFINE r == [pc |-> IF cookie[b] = None THEN "login" ELSE "session",
                     attempt |-> t, session |-> cookie[b], user |-> None,
                     dead |-> cookie[b] # None /\ Gone(cookie[b])]
    <3>3. r \in Visit
      BY <1>0, <3>2 DEF RequestsOK, Visit
    <3>4. visit' = [visit EXCEPT ![v] = r]
      BY <3>1
    <3> HIDE DEF r
    <3> QED
      BY <1>0, <3>3, <3>4 DEF RequestsOK
  <2>3. ASSUME NEW v \in Visits, ValidateSession(v) PROVE (visit \in [Visits -> Visit])'
    <3>1. visit[v].session \in Logins
      BY <1>0, <2>3 DEF RequestsOK, Visit, ValidateSession, IInv, VisitInv
    <3>2. login[visit[v].session].user \in Users \cup {None}
      BY <1>0, <3>1 DEF RequestsOK, Login
    <3> DEFINE r == [visit[v] EXCEPT !.pc = "grant", !.user = login[visit[v].session].user]
               s == [visit[v] EXCEPT !.pc = "login"]
    <3>3. r \in Visit /\ s \in Visit
      BY <1>0, <3>2 DEF RequestsOK, Visit
    <3>4. visit' = [visit EXCEPT ![v] = r] \/ visit' = [visit EXCEPT ![v] = s]
      BY <1>0, <2>3 DEF ValidateSession, RequestsOK
    <3> HIDE DEF r, s
    <3> QED
      BY <1>0, <3>3, <3>4 DEF RequestsOK
  <2>4. ASSUME NEW v \in Visits, Authorize(v) PROVE (visit \in [Visits -> Visit])'
    BY <1>0, <2>4 DEF RequestsOK, Authorize, Visit
  <2>5. CASE RestartAuthorizationServer
    <3>1. ASSUME NEW v \in Visits
          PROVE  visit[v] \in Visit /\ [visit[v] EXCEPT !.pc = "lost"] \in Visit
      BY <1>0 DEF RequestsOK, Visit
    <3> QED
      BY <2>5, <3>1 DEF RestartAuthorizationServer
  <2> QED
    BY <2>1, <2>2, <2>3, <2>4, <2>5, VisitFrame
<1>5. (callback \in [Callbacks -> Callback])'
  <2>1. CASE UNCHANGED callback
    BY <1>0, <2>1 DEF RequestsOK
  <2>2. ASSUME NEW x \in Callbacks, BeginCallback(x) PROVE (callback \in [Callbacks -> Callback])'
    <3>1. PICK c \in Visits, t \in Attempts : BeginCallback(x)!2!(c, t)
      BY <2>2 DEF BeginCallback
    <3> DEFINE r == [callback[x] EXCEPT !.pc = "state", !.code = c, !.state = t]
    <3>2. r \in Callback
      BY <1>0 DEF RequestsOK, Callback
    <3>3. callback' = [callback EXCEPT ![x] = r]
      BY <1>0, <3>1 DEF RequestsOK
    <3> HIDE DEF r
    <3> QED
      BY <1>0, <3>2, <3>3 DEF RequestsOK
  <2>3. ASSUME NEW x \in Callbacks, TakeState(x) PROVE (callback \in [Callbacks -> Callback])'
    <3> DEFINE r == [callback[x] EXCEPT !.pc = "post", !.posted = TRUE, !.open = TRUE]
               s == [callback[x] EXCEPT !.pc = "failed"]
    <3>1. r \in Callback /\ s \in Callback
      BY <1>0 DEF RequestsOK, Callback
    <3>2. callback' = [callback EXCEPT ![x] = r] \/ callback' = [callback EXCEPT ![x] = s]
      BY <1>0, <2>3 DEF TakeState, RequestsOK
    <3> HIDE DEF r, s
    <3> QED
      BY <1>0, <3>1, <3>2 DEF RequestsOK
  <2>4. ASSUME NEW x \in Callbacks, AnswerExchange(x) PROVE (callback \in [Callbacks -> Callback])'
    <3> DEFINE p == IF callback[x].pc # "post" THEN callback[x].pc
                    ELSE IF x \in redeemed THEN "tokens" ELSE "failed"
               r == [callback[x] EXCEPT !.open = FALSE, !.pc = p]
    <3>1. callback[x] \in Callback
      BY <1>0 DEF RequestsOK
    <3>2. r \in Callback
      BY <3>1 DEF Callback
    <3>3. callback' = [callback EXCEPT ![x] = r]
      BY <2>4, <3>1 DEF AnswerExchange, Callback
    <3> HIDE DEF r
    <3> QED
      BY <1>0, <3>2, <3>3 DEF RequestsOK
  <2>5. ASSUME NEW x \in Callbacks, GiveUp(x) PROVE (callback \in [Callbacks -> Callback])'
    BY <1>0, <2>5 DEF RequestsOK, GiveUp, Callback
  <2>6. CASE RestartAuthorizationServer
    <3> DEFINE p(x) == IF callback[x].pc = "post" THEN "failed" ELSE callback[x].pc
               r(x) == [callback[x] EXCEPT !.open = FALSE, !.pc = p(x)]
               s(x) == IF callback[x].open THEN r(x) ELSE callback[x]
    <3>1. ASSUME NEW x \in Callbacks PROVE callback[x] \in Callback
      BY <1>0 DEF RequestsOK
    <3>2. ASSUME NEW x \in Callbacks PROVE [callback[x] EXCEPT !.open = FALSE] \in Callback
      BY <3>1 DEF Callback
    <3>3. ASSUME NEW x \in Callbacks PROVE r(x) \in Callback
      <4> DEFINE q == [callback[x] EXCEPT !.open = FALSE]
      <4>1. q \in Callback
        BY <3>2
      <4>2. p(x) \in {"idle", "state", "post", "tokens", "failed", "lost"}
        BY <3>1 DEF Callback
      <4> HIDE DEF q, p
      <4>3. [q EXCEPT !.pc = p(x)] \in Callback
        BY <4>1, <4>2 DEF Callback
      <4> QED
        BY <4>3 DEF q
    <3>4. ASSUME NEW x \in Callbacks PROVE s(x) \in Callback
      <4> HIDE DEF r
      <4> QED
        BY <3>1, <3>3
    <3>5. callback' = [x \in Callbacks |-> s(x)]
      <4>1. ASSUME NEW x \in Callbacks
            PROVE  r(x) = [callback[x] EXCEPT
                             !.open = FALSE, !.pc = IF @ = "post" THEN "failed" ELSE @]
        BY <3>1 DEF Callback
      <4> HIDE DEF r
      <4> QED
        BY <2>6, <4>1, Zenon DEF RestartAuthorizationServer
    <3> HIDE DEF s
    <3> QED
      BY <3>4, <3>5
  <2>7. CASE RestartClientService
    BY <1>0, <2>7 DEF RequestsOK, RestartClientService, Callback
  <2> QED
    BY <2>1, <2>2, <2>3, <2>4, <2>5, <2>6, <2>7, CallbackFrame
<1> QED
  BY <1>1, <1>2, <1>3, <1>4, <1>5 DEF RequestsOK

(* Every step keeps the types. *)
LEMMA TypeOKStep ==
  ASSUME IInv, [Next]_vars
  PROVE  TypeOK'
  BY PartsOKStep, RequestsOKStep DEF TypeOK, PartsOK, RequestsOK
-----------------------------------------------------------------------------
(* What a step may not take back. *)

(* What a login has done stays done. *)
LEMMA LoginsStay ==
  ASSUME IInv, [Next]_vars, NEW l \in Logins, login[l].pc # "idle"
  PROVE  /\ login'[l].pc # "idle" /\ login'[l].user = login[l].user
         /\ login[l].pc = "done" => login'[l].pc = "done"
<1>0. login \in [Logins -> Login]
  BY DEF IInv, TypeOK
<1> DEFINE Stay == /\ login'[l].pc # "idle" /\ login'[l].user = login[l].user
                   /\ login[l].pc = "done" => login'[l].pc = "done"
<1>1. CASE UNCHANGED <<cookie, login>>
  BY <1>1
<1>2. ASSUME NEW m \in Logins, BeginLogin(m) PROVE Stay
  BY <1>0, <1>2 DEF BeginLogin, Login
<1>3. ASSUME NEW m \in Logins, SaveSession(m) PROVE Stay
  BY <1>0, <1>3 DEF SaveSession, Login
<1>4. ASSUME NEW o \in Logouts, RevokeSession(o) PROVE Stay
  BY <1>0, <1>4 DEF RevokeSession
<1>5. CASE RestartAuthorizationServer
  BY <1>0, <1>5 DEF RestartAuthorizationServer, Login
<1> QED
  BY <1>1, <1>2, <1>3, <1>4, <1>5, LoginFrame

(* A session that is over does not come back. *)
LEMMA SessionsStayGone ==
  ASSUME IInv, [Next]_vars, NEW l \in Logins, login[l].pc = "done", Gone(l)
  PROVE  Gone(l)'
<1>0. sessionPlace \in [Logins -> {"redis", "memory", "nowhere"}] /\ sessionLife \in [Logins -> Int]
  BY ConstantsAssumption DEF IInv, TypeOK, Sessions!TypeOK, Sessions!Backends
<1>1. CASE UNCHANGED sessionVars
  BY <1>1 DEF sessionVars, Gone
<1>2. ASSUME NEW m \in Logins, SaveSession(m) PROVE Gone(l)'
  BY <1>0, <1>2 DEF SaveSession, Sessions!Put, Sessions!PutFails, Gone
<1>3. ASSUME NEW m \in Logins, ExpireSession(m) PROVE Gone(l)'
  BY <1>0, <1>3 DEF ExpireSession, Sessions!ExpireKey, Gone
<1>4. ASSUME NEW o \in Logouts, RevokeSession(o) PROVE Gone(l)'
  BY <1>0, <1>4 DEF RevokeSession, Sessions!Remove, Sessions!RemoveFails, sessionVars, Gone
<1>5. ASSUME NEW v \in Visits, ValidateSession(v) PROVE Gone(l)'
  BY <1>0, <1>5 DEF ValidateSession, Sessions!Remove, Sessions!RemoveFails, sessionVars, Gone
<1>6. CASE TickSessions
  BY <1>0, <1>6 DEF TickSessions, Sessions!Tick, Gone
<1>7. CASE RestartAuthorizationServer
  BY <1>0, <1>7 DEF RestartAuthorizationServer, Sessions!Restart, Gone
<1> QED
  BY <1>1, <1>2, <1>3, <1>4, <1>5, <1>6, <1>7, SessionFrame

(* A state that is gone does not come back. *)
LEMMA StatesStay ==
  ASSUME IInv, [Next]_vars, NEW t \in Attempts, attempt[t] = "redirected"
  PROVE  /\ attempt'[t] = "redirected"
         /\ statePlace[t] = "nowhere" => statePlace'[t] = "nowhere"
<1>0. attempt \in [Attempts -> {"idle", "redirected", "failed"}]
  BY DEF IInv, TypeOK
<1>00. statePlace \in [Attempts -> {"redis", "memory", "nowhere"}]
  BY DEF IInv, TypeOK, States!TypeOK, States!Backends
<1>1. CASE UNCHANGED <<stateVars, attempt>>
  BY <1>1 DEF stateVars
<1>2. ASSUME NEW u \in Attempts, StartAttempt(u) \/ ExpireState(u)
      PROVE  /\ attempt'[t] = "redirected"
             /\ statePlace[t] = "nowhere" => statePlace'[t] = "nowhere"
  BY <1>0, <1>00, <1>2
  DEF StartAttempt, ExpireState, States!Put, States!PutFails, States!ExpireKey, requests
<1>3. ASSUME NEW x \in Callbacks, TakeState(x)
      PROVE  /\ attempt'[t] = "redirected"
             /\ statePlace[t] = "nowhere" => statePlace'[t] = "nowhere"
  BY <1>00, <1>3 DEF TakeState, States!Remove, States!RemoveFails
<1>4. CASE TickStates \/ RestartClientService
  BY <1>00, <1>4 DEF TickStates, States!Tick, RestartClientService, States!Restart, requests
<1> QED
  BY <1>1, <1>2, <1>3, <1>4, StateFrame

(* What a visit has found out stays so. *)
LEMMA VisitsStay ==
  ASSUME IInv, [Next]_vars, NEW v \in Visits, visit[v].pc = "issued"
  PROVE  visit'[v] = visit[v]
<1>0. visit \in [Visits -> Visit]
  BY DEF IInv, TypeOK
<1> QED
  BY <1>0, VisitFrame DEF BeginVisit, ValidateSession, Authorize, RestartAuthorizationServer

(* What a callback has found out stays so. *)
LEMMA CallbacksStay ==
  ASSUME IInv, [Next]_vars, NEW x \in Callbacks, callback[x].pc # "idle"
  PROVE  /\ callback'[x].pc # "idle"
         /\ callback'[x].code = callback[x].code /\ callback'[x].state = callback[x].state
         /\ callback[x].posted => callback'[x].posted
<1>0. callback \in [Callbacks -> Callback]
  BY DEF IInv, TypeOK
<1> DEFINE Stay == /\ callback'[x].pc # "idle"
                   /\ callback'[x].code = callback[x].code
                   /\ callback'[x].state = callback[x].state
                   /\ callback[x].posted => callback'[x].posted
<1>1. ASSUME NEW y \in Callbacks, BeginCallback(y) PROVE Stay
  BY <1>0, <1>1 DEF BeginCallback, Callback
<1>2. ASSUME NEW y \in Callbacks, TakeState(y) PROVE Stay
  <2> DEFINE r == [callback[y] EXCEPT !.pc = "post", !.posted = TRUE, !.open = TRUE]
             s == [callback[y] EXCEPT !.pc = "failed"]
  <2>1. callback' = [callback EXCEPT ![y] = r] \/ callback' = [callback EXCEPT ![y] = s]
    BY <1>0, <1>2 DEF TakeState
  <2>2. CASE x # y
    BY <1>0, <2>1, <2>2
  <2>3. CASE x = y /\ callback'[x] = r
    BY <1>0, <2>3 DEF Callback
  <2>4. CASE x = y /\ callback'[x] = s
    BY <1>0, <2>4 DEF Callback
  <2> QED
    BY <1>0, <2>1, <2>2, <2>3, <2>4
<1>3. ASSUME NEW y \in Callbacks, AnswerExchange(y) PROVE Stay
  BY <1>0, <1>3 DEF AnswerExchange, Callback
<1>4. ASSUME NEW y \in Callbacks, GiveUp(y) PROVE Stay
  BY <1>0, <1>4 DEF GiveUp, Callback
<1>5. CASE RestartAuthorizationServer
  BY <1>0, <1>5 DEF RestartAuthorizationServer, Callback
<1>6. CASE RestartClientService
  BY <1>0, <1>6 DEF RestartClientService, Callback
<1>7. CASE UNCHANGED callback
  BY <1>7
<1> QED
  BY <1>1, <1>2, <1>3, <1>4, <1>5, <1>6, <1>7, CallbackFrame

(* An exchange is posted only by the callback that takes the state away. *)
LEMMA PostTakesState ==
  ASSUME IInv, [Next]_vars, NEW x \in Callbacks, callback'[x].posted, ~callback[x].posted
  PROVE  /\ callback[x].pc = "state" /\ TakeState(x)
         /\ statePlace[callback[x].state] # "nowhere"
         /\ statePlace'[callback[x].state] = "nowhere"
<1>0. callback \in [Callbacks -> Callback]
  BY DEF IInv, TypeOK
<1>00. statePlace \in [Attempts -> {"redis", "memory", "nowhere"}] /\ stateBackend \in {"redis", "memory"}
  BY DEF IInv, TypeOK, States!TypeOK, States!Backends
<1> DEFINE Kept == callback'[x].posted => callback[x].posted
<1>1. ASSUME NEW y \in Callbacks, BeginCallback(y) PROVE Kept
  BY <1>0, <1>1 DEF BeginCallback, Callback
<1>2. ASSUME NEW y \in Callbacks, TakeState(y), y # x PROVE Kept
  BY <1>0, <1>2 DEF TakeState, Callback
<1>3. ASSUME NEW y \in Callbacks, AnswerExchange(y) PROVE Kept
  BY <1>0, <1>3 DEF AnswerExchange, Callback
<1>4. ASSUME NEW y \in Callbacks, GiveUp(y) PROVE Kept
  BY <1>0, <1>4 DEF GiveUp, Callback
<1>5. ASSUME RestartAuthorizationServer PROVE Kept
  BY <1>0, <1>5 DEF RestartAuthorizationServer, Callback
<1>6. ASSUME RestartClientService PROVE Kept
  BY <1>0, <1>6 DEF RestartClientService, Callback
<1>7. ASSUME UNCHANGED callback PROVE Kept
  BY <1>7
<1>8. ~Kept
  OBVIOUS
<1> HIDE DEF Kept
<1>9. TakeState(x)
  <2>1. ASSUME NEW y \in Callbacks,
               BeginCallback(y) \/ TakeState(y) \/ AnswerExchange(y) \/ GiveUp(y)
        PROVE  TakeState(x)
    BY <1>8, <1>1, <1>2, <1>3, <1>4, <2>1
  <2> QED
    BY <1>8, <1>7, <1>5, <1>6, <2>1, CallbackFrame
<1>10. callback[x].state \in Attempts /\ callback[x].pc = "state"
  BY <1>0, <1>9 DEF TakeState, IInv, CallbackInv, Callback
<1>11. States!Remove(callback[x].state) /\ States!Stored(callback[x].state)
  BY <1>0, <1>9 DEF TakeState, Callback
<1> QED
  BY <1>00, <1>9, <1>10, <1>11 DEF States!Remove, States!Stored
-----------------------------------------------------------------------------
(* Every part of the invariant is kept. *)

(* Every step keeps LoginInv. *)
LEMMA LoginInvStep ==
  ASSUME IInv, [Next]_vars
  PROVE  LoginInv'
<1>0. /\ login \in [Logins -> Login] /\ cookie \in [Browsers -> Logins \cup {None}]
      /\ None \notin Logins /\ LoginInv
  BY NoneAssumption DEF IInv, TypeOK
<1>1. CASE UNCHANGED <<cookie, login>>
  BY <1>0, <1>1 DEF LoginInv
<1>2. ASSUME NEW l \in Logins, BeginLogin(l) PROVE LoginInv'
  BY <1>0, <1>2 DEF BeginLogin, Login, LoginInv
<1>3. ASSUME NEW l \in Logins, SaveSession(l) PROVE LoginInv'
  BY <1>0, <1>3 DEF SaveSession, Login, LoginInv
<1>4. ASSUME NEW o \in Logouts, RevokeSession(o) PROVE LoginInv'
  BY <1>0, <1>4 DEF RevokeSession, Login, LoginInv
<1>5. CASE RestartAuthorizationServer
  BY <1>0, <1>5 DEF RestartAuthorizationServer, Login, LoginInv
<1> QED
  BY <1>1, <1>2, <1>3, <1>4, <1>5, LoginFrame

(* What VisitInv says of one visit. *)
VisitOK(v) ==
    /\ visit[v].session # None => login[visit[v].session].pc = "done"
    /\ visit[v].pc \in {"session", "grant", "issued"} => visit[v].session # None
    /\ visit[v].pc \in {"grant", "issued"} => visit[v].user \in Users
    /\ visit[v].user # None =>
          visit[v].session # None /\ visit[v].user = login[visit[v].session].user
    /\ visit[v].dead =>
          visit[v].session # None /\ Gone(visit[v].session) /\ visit[v].user = None

(* Every step keeps VisitInv. *)
LEMMA VisitInvStep ==
  ASSUME IInv, [Next]_vars
  PROVE  VisitInv'
<1>0. /\ visit \in [Visits -> Visit] /\ login \in [Logins -> Login]
      /\ cookie \in [Browsers -> Logins \cup {None}]
      /\ None \notin Logins /\ LoginInv /\ None \notin Users
  BY NoneAssumption DEF IInv, TypeOK
<1> SUFFICES ASSUME NEW v \in Visits PROVE VisitOK(v)'
  BY DEF VisitInv, VisitOK
<1>1. VisitOK(v)
  BY DEF IInv, VisitInv, VisitOK
<1>2. ASSUME NEW l \in Logins, login[l].pc = "done"
      PROVE  /\ login'[l].pc = "done" /\ login'[l].user = login[l].user
             /\ Gone(l) => Gone(l)'
  BY <1>2, LoginsStay, SessionsStayGone
<1>3. ASSUME visit'[v] = visit[v] PROVE VisitOK(v)'
  BY <1>0, <1>1, <1>2, <1>3 DEF VisitOK, Visit
<1>4. ASSUME BeginVisit(v) PROVE VisitOK(v)'
  <2>1. PICK t \in Attempts, b \in Browsers : BeginVisit(v)!2!(t, b)
    BY <1>4 DEF BeginVisit
  <2>2. cookie[b] # None => login[cookie[b]].pc = "done" /\ cookie[b] \in Logins
    BY <1>0 DEF LoginInv
  <2>3. UNCHANGED <<login, sessionVars, cookie>>
    BY <1>4 DEF BeginVisit
  <2>4. /\ visit'[v].session = cookie[b] /\ visit'[v].user = None
        /\ visit'[v].pc = IF cookie[b] = None THEN "login" ELSE "session"
        /\ visit'[v].dead = (cookie[b] # None /\ Gone(cookie[b]))
    BY <1>0, <2>1
  <2>5. visit'[v].dead => cookie[b] # None /\ Gone(cookie[b])'
    BY <2>3, <2>4 DEF Gone, sessionVars
  <2> QED
    BY <2>2, <2>3, <2>4, <2>5 DEF VisitOK
<1>5. ASSUME ValidateSession(v) PROVE VisitOK(v)'
  <2>1. visit[v].session \in Logins /\ visit[v].pc = "session"
    BY <1>0, <1>1, <1>5 DEF ValidateSession, VisitOK, Visit
  <2>2. login[visit[v].session].user \in Users
    BY <1>0, <1>1, <2>1 DEF VisitOK, LoginInv
  <2>3. CASE /\ Sessions!Live(visit[v].session) /\ UNCHANGED sessionVars
             /\ visit'[v] = [visit[v] EXCEPT !.pc = "grant", !.user = login[visit[v].session].user]
    <3>1. sessionLife[visit[v].session] \in Int /\ sessionPlace[visit[v].session] # "nowhere"
      BY <2>1, <2>3, ConstantsAssumption
      DEF IInv, TypeOK, Sessions!TypeOK, Sessions!Live, Sessions!Stored, Sessions!Backends
    <3>2. ~Gone(visit[v].session)
      BY <2>3, <3>1 DEF Sessions!Live, Gone
    <3> QED
      BY <1>0, <1>1, <1>2, <2>1, <2>2, <2>3, <3>2 DEF VisitOK, Visit
  <2>4. CASE visit'[v] = [visit[v] EXCEPT !.pc = "login"]
    BY <1>0, <1>1, <1>2, <2>1, <2>4 DEF VisitOK, Visit
  <2> QED
    BY <1>0, <1>5, <2>3, <2>4 DEF ValidateSession
<1>6. ASSUME Authorize(v) PROVE VisitOK(v)'
  <2>1. PICK p \in {"issued", "failed"} : visit'[v] = [visit[v] EXCEPT !.pc = p]
    BY <1>0, <1>6 DEF Authorize
  <2>2. visit[v].pc = "grant"
    BY <1>6 DEF Authorize
  <2> QED
    BY <1>0, <1>1, <1>2, <2>1, <2>2 DEF VisitOK, Visit
<1>7. ASSUME RestartAuthorizationServer PROVE VisitOK(v)'
  <2>1. PICK p \in {visit[v].pc, "lost"} : visit'[v] = [visit[v] EXCEPT !.pc = p]
    BY <1>0, <1>7 DEF RestartAuthorizationServer, Visit
  <2> QED
    BY <1>0, <1>1, <1>2, <2>1 DEF VisitOK, Visit
<1>8. ASSUME NEW w \in Visits, w # v, BeginVisit(w) \/ ValidateSession(w) \/ Authorize(w)
      PROVE visit'[v] = visit[v]
  BY <1>0, <1>8 DEF BeginVisit, ValidateSession, Authorize
<1> QED
  BY <1>3, <1>4, <1>5, <1>6, <1>7, <1>8, VisitFrame

(* What CallbackInv says of the record of one callback alone. *)
PostOK(x) ==
    /\ callback[x].open => callback[x].posted
    /\ callback[x].posted => callback[x].pc \notin {"idle", "state"}
    /\ callback[x].pc \in {"post", "tokens"} => callback[x].posted

(* Every step keeps CallbackInv. *)
LEMMA CallbackInvStep ==
  ASSUME IInv, [Next]_vars
  PROVE  CallbackInv'
<1>0. callback \in [Callbacks -> Callback] /\ callback' \in [Callbacks -> Callback]
  BY TypeOKStep DEF IInv, TypeOK
<1>00. None \notin Visits \cup Attempts
  BY NoneAssumption
<1> SUFFICES ASSUME NEW x \in Callbacks
             PROVE  /\ PostOK(x)'
                    /\ callback'[x].pc # "idle" =>
                          /\ callback'[x].code # None /\ visit'[callback'[x].code].pc = "issued"
                          /\ callback'[x].state # None
                          /\ attempt'[callback'[x].state] = "redirected"
  BY DEF CallbackInv, PostOK
<1>1. PostOK(x)'
  <2>1. PostOK(x)
    BY DEF IInv, CallbackInv, PostOK
  <2>2. ASSUME callback'[x] = callback[x] PROVE PostOK(x)'
    BY <2>1, <2>2 DEF PostOK
  <2>3. ASSUME BeginCallback(x) PROVE PostOK(x)'
    <3>1. callback'[x].pc = "state" /\ UNCHANGED <<callback[x].posted, callback[x].open>>
      BY <1>0, <2>3 DEF BeginCallback, Callback
    <3>2. callback[x].pc = "idle"
      BY <2>3 DEF BeginCallback
    <3> QED
      BY <2>1, <3>1, <3>2 DEF PostOK
  <2>4. ASSUME TakeState(x) PROVE PostOK(x)'
    <3>1. callback[x].pc = "state"
      BY <2>4 DEF TakeState
    <3>2. CASE callback' = [callback EXCEPT
                ![x] = [callback[x] EXCEPT !.pc = "post", !.posted = TRUE, !.open = TRUE]]
      BY <1>0, <3>2 DEF PostOK, Callback
    <3>3. CASE callback' = [callback EXCEPT ![x] = [callback[x] EXCEPT !.pc = "failed"]]
      BY <1>0, <2>1, <3>1, <3>3 DEF PostOK, Callback
    <3> QED
      BY <1>0, <2>4, <3>2, <3>3 DEF TakeState
  <2>5. ASSUME NEW p, callback' = [callback EXCEPT ![x].pc = p] \/
                      callback' = [callback EXCEPT ![x].open = FALSE, ![x].pc = p],
               \/ p \in {"failed", "lost"}
               \/ p \in {"tokens", callback[x].pc} /\ callback[x].open
        PROVE  PostOK(x)'
    BY <1>0, <2>1, <2>5 DEF PostOK, Callback
  <2>6. ASSUME AnswerExchange(x) PROVE PostOK(x)'
    <3> DEFINE p == IF callback[x].pc # "post" THEN callback[x].pc
                    ELSE IF x \in redeemed THEN "tokens" ELSE "failed"
    <3>1. callback' = [callback EXCEPT ![x].open = FALSE, ![x].pc = p] /\ callback[x].open
      BY <1>0, <2>6 DEF AnswerExchange
    <3> QED
      BY <2>5, <3>1
  <2>7. ASSUME GiveUp(x) PROVE PostOK(x)'
    BY <2>5, <2>7 DEF GiveUp
  <2>8. ASSUME RestartAuthorizationServer PROVE PostOK(x)'
    <3>1. CASE callback[x].open
      <4>1. /\ ~callback'[x].open /\ callback'[x].posted = callback[x].posted
            /\ callback'[x].pc = IF callback[x].pc = "post" THEN "failed" ELSE callback[x].pc
        BY <1>0, <2>8, <3>1 DEF RestartAuthorizationServer, Callback
      <4> QED
        BY <2>1, <3>1, <4>1 DEF PostOK
    <3>2. CASE ~callback[x].open
      BY <1>0, <2>1, <2>8, <3>2 DEF RestartAuthorizationServer, PostOK, Callback
    <3> QED
      BY <3>1, <3>2
  <2>9. ASSUME RestartClientService PROVE PostOK(x)'
    BY <1>0, <2>1, <2>9 DEF RestartClientService, PostOK, Callback
  <2>10. ASSUME NEW y \in Callbacks, y # x,
                BeginCallback(y) \/ TakeState(y) \/ AnswerExchange(y) \/ GiveUp(y)
         PROVE  callback'[x] = callback[x]
    BY <1>0, <2>10 DEF BeginCallback, TakeState, AnswerExchange, GiveUp
  <2> QED
    BY <2>2, <2>3, <2>4, <2>6, <2>7, <2>8, <2>9, <2>10, CallbackFrame
<1>2. CASE callback[x].pc # "idle"
  <2>1. /\ callback[x].code \in Visits /\ visit[callback[x].code].pc = "issued"
        /\ callback[x].state \in Attempts /\ attempt[callback[x].state] = "redirected"
    BY <1>0, <1>2 DEF IInv, CallbackInv, Callback
  <2>2. callback'[x].code = callback[x].code /\ callback'[x].state = callback[x].state
    BY <1>2, CallbacksStay
  <2> QED
    BY <1>00, <1>1, <2>1, <2>2, VisitsStay, StatesStay
<1>3. CASE callback[x].pc = "idle"
  <2>1. ASSUME callback'[x].pc # "idle" PROVE BeginCallback(x)
    <3> DEFINE Idle == callback'[x].pc = "idle"
    <3>1. ASSUME NEW y \in Callbacks, BeginCallback(y), y # x PROVE Idle
      BY <1>0, <1>3, <3>1 DEF BeginCallback
    <3>2. ASSUME NEW y \in Callbacks, TakeState(y) PROVE Idle
      BY <1>0, <1>3, <3>2 DEF TakeState
    <3>3. ASSUME NEW y \in Callbacks, AnswerExchange(y) PROVE Idle
      BY <1>0, <1>3, <3>3 DEF AnswerExchange, Callback
    <3>4. ASSUME NEW y \in Callbacks, GiveUp(y) PROVE Idle
      BY <1>0, <1>3, <3>4 DEF GiveUp
    <3>5. ASSUME RestartAuthorizationServer PROVE Idle
      <4>1. callback'[x] = IF callback[x].open
                           THEN [callback[x] EXCEPT
                                   !.open = FALSE, !.pc = IF @ = "post" THEN "failed" ELSE @]
                           ELSE callback[x]
        BY <3>5 DEF RestartAuthorizationServer
      <4> QED
        BY <1>0, <1>3, <4>1, SMTT(30) DEF Callback
    <3>6. ASSUME RestartClientService PROVE Idle
      BY <1>0, <1>3, <3>6 DEF RestartClientService
    <3>7. ASSUME UNCHANGED callback PROVE Idle
      BY <1>3, <3>7
    <3>8. ASSUME NEW y \in Callbacks,
                 BeginCallback(y) \/ TakeState(y) \/ AnswerExchange(y) \/ GiveUp(y)
          PROVE  BeginCallback(x)
      BY <2>1, <3>1, <3>2, <3>3, <3>4, <3>8
    <3> QED
      BY <2>1, <3>5, <3>6, <3>7, <3>8, CallbackFrame
  <2>2. ASSUME BeginCallback(x)
        PROVE  /\ callback'[x].code # None /\ visit'[callback'[x].code].pc = "issued"
               /\ callback'[x].state # None /\ attempt'[callback'[x].state] = "redirected"
    <3>1. PICK c \in Visits, t \in Attempts : BeginCallback(x)!2!(c, t)
      BY <2>2 DEF BeginCallback
    <3>2. callback'[x].code = c /\ callback'[x].state = t
      BY <1>0, <3>1 DEF Callback
    <3>3. UNCHANGED <<visit, attempt>>
      BY <2>2 DEF BeginCallback
    <3> QED
      BY <1>00, <3>1, <3>2, <3>3
  <2> QED
    BY <1>1, <2>1, <2>2
<1> QED
  BY <1>2, <1>3

(* Every step keeps StateInv. *)
LEMMA StateInvStep ==
  ASSUME IInv, [Next]_vars
  PROVE  StateInv'
<1> SUFFICES ASSUME NEW x \in Callbacks, callback'[x].posted
             PROVE  statePlace'[callback'[x].state] = "nowhere"
  BY DEF StateInv
<1>0. callback \in [Callbacks -> Callback]
  BY DEF IInv, TypeOK
<1>1. CASE callback[x].posted
  <2>1. /\ callback[x].pc # "idle" /\ statePlace[callback[x].state] = "nowhere"
        /\ callback[x].state \in Attempts /\ attempt[callback[x].state] = "redirected"
    BY <1>0, <1>1 DEF IInv, CallbackInv, StateInv, Callback
  <2> QED
    BY <2>1, CallbacksStay, StatesStay
<1>2. CASE ~callback[x].posted
  <2>1. callback[x].pc = "state" /\ statePlace'[callback[x].state] = "nowhere"
    BY <1>2, PostTakesState
  <2> QED
    BY <2>1, CallbacksStay
<1> QED
  BY <1>1, <1>2

(* No second exchange goes out for a state. *)
LEMMA OneExchangePerStateStep ==
  ASSUME IInv, [Next]_vars
  PROVE  OneExchangePerState'
<1> SUFFICES ASSUME NEW x \in Callbacks, NEW y \in Callbacks, x # y,
                    callback'[x].posted, callback'[y].posted
             PROVE  callback'[x].state # callback'[y].state
  BY DEF OneExchangePerState
<1>0. callback \in [Callbacks -> Callback]
  BY DEF IInv, TypeOK
<1>1. ASSUME NEW z \in Callbacks, callback[z].posted
      PROVE  callback[z].pc # "idle" /\ statePlace[callback[z].state] = "nowhere"
  BY <1>0, <1>1 DEF IInv, CallbackInv, StateInv
<1>2. ASSUME NEW z \in Callbacks, callback'[z].posted, ~callback[z].posted
      PROVE  callback[z].pc = "state" /\ statePlace[callback[z].state] # "nowhere"
  BY <1>2, PostTakesState
<1>3. callback'[x].state = callback[x].state /\ callback'[y].state = callback[y].state
  BY <1>1, <1>2, CallbacksStay
<1>4. CASE callback[x].posted /\ callback[y].posted
  BY <1>3, <1>4 DEF IInv, OneExchangePerState
<1>5. CASE callback[x].posted # callback[y].posted
  <2>1. callback[x].posted \in BOOLEAN /\ callback[y].posted \in BOOLEAN
    BY <1>0 DEF Callback
  <2> QED
    BY <1>1, <1>2, <1>3, <1>5, <2>1
<1>6. CASE ~callback[x].posted /\ ~callback[y].posted
  <2>1. TakeState(x) /\ callback'[y].posted # callback[y].posted
    BY <1>6, PostTakesState
  <2>2. callback'[y] = callback[y]
    BY <1>0, <2>1 DEF TakeState
  <2> QED
    BY <2>1, <2>2
<1> QED
  BY <1>4, <1>5, <1>6

(* Every step keeps RedeemInv. *)
LEMMA RedeemInvStep ==
  ASSUME IInv, [Next]_vars
  PROVE  RedeemInv'
<1>0. callback \in [Callbacks -> Callback] /\ redeemed \subseteq Callbacks
  BY DEF IInv, TypeOK, Grants!TypeOK
<1> SUFFICES ASSUME NEW x \in Callbacks
             PROVE  /\ callback'[x].pc = "tokens" => x \in redeemed'
                    /\ x \in redeemed' => callback'[x].posted /\ VerifierMatches(x)'
  BY DEF RedeemInv
<1>1. ASSUME callback[x].posted, VerifierMatches(x)
      PROVE  callback'[x].posted /\ VerifierMatches(x)'
  <2>1. /\ callback[x].pc # "idle"
        /\ callback[x].code \in Visits /\ visit[callback[x].code].pc = "issued"
    BY <1>0, <1>1 DEF IInv, CallbackInv, Callback
  <2> QED
    BY <1>1, <2>1, CallbacksStay, VisitsStay DEF VerifierMatches
<1>2. redeemed \subseteq redeemed'
  BY CodeFrame
  DEF codeVars, Authorize, LoseCode, ClaimCode, RedeemCode, Grants!Issue, Grants!Retire,
      Grants!Claim, Grants!Redeem
<1>3. ASSUME x \in redeemed', x \notin redeemed PROVE RedeemCode(x)
  BY <1>3, CodeFrame
  DEF codeVars, Authorize, LoseCode, ClaimCode, RedeemCode, Grants!Issue, Grants!Retire,
      Grants!Claim, Grants!Redeem
<1>4. x \in redeemed' => callback'[x].posted /\ VerifierMatches(x)'
  <2>1. CASE x \in redeemed
    BY <1>1, <2>1 DEF IInv, RedeemInv
  <2>2. ASSUME RedeemCode(x) PROVE callback[x].posted /\ VerifierMatches(x)
    BY <2>2 DEF RedeemCode, IInv, CallbackInv
  <2> QED
    BY <1>1, <1>3, <2>1, <2>2
<1>5. callback'[x].pc = "tokens" => x \in redeemed'
  <2>1. CASE callback[x].pc = "tokens"
    BY <1>2, <2>1 DEF IInv, RedeemInv
  <2>2. ASSUME callback[x].pc # "tokens", callback'[x].pc = "tokens" PROVE x \in redeemed
    <3> DEFINE NoTokens == callback'[x].pc # "tokens"
    <3>1. ASSUME NEW y \in Callbacks, BeginCallback(y) PROVE NoTokens
      BY <1>0, <2>2, <3>1 DEF BeginCallback, Callback
    <3>2. ASSUME NEW y \in Callbacks, TakeState(y) PROVE NoTokens
      <4>1. CASE y = x
        <5>1. \/ callback'[x] = [callback[x] EXCEPT !.pc = "post", !.posted = TRUE, !.open = TRUE]
              \/ callback'[x] = [callback[x] EXCEPT !.pc = "failed"]
          BY <1>0, <3>2, <4>1 DEF TakeState
        <5> QED
          BY <1>0, <5>1 DEF Callback
      <4>2. CASE y # x
        <5>1. callback'[x] = callback[x]
          BY <1>0, <3>2, <4>2 DEF TakeState
        <5> QED
          BY <2>2, <5>1
      <4> QED
        BY <4>1, <4>2
    <3>3. ASSUME NEW y \in Callbacks, AnswerExchange(y) PROVE NoTokens \/ x \in redeemed
      BY <1>0, <2>2, <3>3 DEF AnswerExchange, Callback
    <3>4. ASSUME NEW y \in Callbacks, GiveUp(y) PROVE NoTokens
      BY <1>0, <2>2, <3>4 DEF GiveUp, Callback
    <3>5. ASSUME RestartAuthorizationServer PROVE NoTokens
      BY <1>0, <2>2, <3>5 DEF RestartAuthorizationServer, Callback
    <3>6. ASSUME RestartClientService PROVE NoTokens
      BY <1>0, <2>2, <3>6 DEF RestartClientService, Callback
    <3>7. ASSUME UNCHANGED callback PROVE NoTokens
      BY <2>2, <3>7
    <3>8. ASSUME NEW y \in Callbacks,
                 BeginCallback(y) \/ TakeState(y) \/ AnswerExchange(y) \/ GiveUp(y)
          PROVE  x \in redeemed
      BY <2>2, <3>1, <3>2, <3>3, <3>4, <3>8
    <3> QED
      BY <2>2, <3>5, <3>6, <3>7, <3>8, CallbackFrame
  <2> QED
    BY <1>2, <2>1, <2>2
<1> QED
  BY <1>4, <1>5

-----------------------------------------------------------------------------
(***************************************************************************)
(* The invariant holds in every reachable state, for all sets of requests  *)
(* and browsers, all lifetimes, with and without failing calls.            *)
(***************************************************************************)
THEOREM Invariance == Spec => []IInv
<1>1. Init => IInv
  <2> SUFFICES ASSUME Init PROVE IInv
    OBVIOUS
  <2>1. TypeOK
    BY InitTypeOK
  <2>2. LoginInv /\ VisitInv
    BY DEF Init, LoginInv, VisitInv
  <2>3. CallbackInv /\ StateInv /\ OneExchangePerState
    BY DEF Init, CallbackInv, StateInv, OneExchangePerState
  <2>4. RedeemInv
    BY DEF Init, Grants!Init, RedeemInv
  <2> QED
    BY <2>1, <2>2, <2>3, <2>4 DEF IInv
<1>2. IInv /\ [Next]_vars => IInv'
  BY TypeOKStep, LoginInvStep, VisitInvStep, CallbackInvStep, StateInvStep, RedeemInvStep,
     OneExchangePerStateStep DEF IInv
<1> QED
  BY <1>1, <1>2, PTL DEF Spec

(* The stores, cookies and requests are what the declarations say. *)
THEOREM TypeCorrect == Spec => []TypeOK
<1>1. IInv => TypeOK
  BY DEF IInv
<1> QED
  BY <1>1, Invariance, PTL

(***************************************************************************)
(* A state lets at most one callback through, whichever store held it and  *)
(* however often the Client Service is started again.                      *)
(***************************************************************************)
THEOREM StateIsSingleUse == Spec => []OneExchangePerState
<1>1. IInv => OneExchangePerState
  BY DEF IInv
<1> QED
  BY <1>1, Invariance, PTL

(***************************************************************************)
(* No code becomes tokens twice through this client: two exchanges of one  *)
(* code that verify carry one state, and a state is presented once.        *)
(***************************************************************************)
THEOREM CodeIsRedeemedOnce == Spec => []CodeRedeemedOnce
<1>1. IInv => CodeRedeemedOnce
  BY DEF IInv, CodeRedeemedOnce, RedeemInv, OneExchangePerState, VerifierMatches, TypeOK,
         Grants!TypeOK
<1> QED
  BY <1>1, Invariance, PTL

(***************************************************************************)
(* Tokens at the client are for the code of its own attempt, and for the   *)
(* user of a session that was not over when the code was asked for.        *)
(***************************************************************************)
THEOREM TokensAreOfAttempt == Spec => []TokensOfAttempt
<1>1. ASSUME IInv, NEW x \in Callbacks, callback[x].pc = "tokens"
      PROVE  LET v == visit[callback[x].code] IN
             /\ v.attempt = callback[x].state
             /\ v.pc = "issued" /\ ~v.dead
             /\ login[v.session].pc = "done" /\ v.user = login[v.session].user
  <2>1. callback[x].code \in Visits /\ visit[callback[x].code].pc = "issued"
    BY <1>1 DEF IInv, TypeOK, CallbackInv, Callback
  <2>2. visit[callback[x].code].attempt = callback[x].state
    BY <1>1 DEF IInv, RedeemInv, VerifierMatches
  <2>3. visit[callback[x].code].user # None
    BY <1>1, <2>1, NoneAssumption DEF IInv, VisitInv
  <2> QED
    BY <1>1, <2>1, <2>2, <2>3 DEF IInv, VisitInv
<1>2. IInv => TokensOfAttempt
  BY <1>1 DEF TokensOfAttempt
<1> QED
  BY <1>2, Invariance, PTL

(***************************************************************************)
(* A session that was over when a visit began gives that visit no user,    *)
(* whatever becomes of the stores while it runs.                           *)
(***************************************************************************)
THEOREM DeadSessionsStayDead == Spec => []DeadSessionNeverAuthorizes
<1>1. IInv => DeadSessionNeverAuthorizes
  BY DEF IInv, VisitInv, DeadSessionNeverAuthorizes
<1> QED
  BY <1>1, Invariance, PTL
-----------------------------------------------------------------------------
(***************************************************************************)
(* The seam to AuthorizationCode: whatever browsers, sessions, states and  *)
(* restarts do around it, this composition treats the codes as             *)
(* CodeLifecycle allows, the contract that AuthorizationCode is proved to  *)
(* keep, so that what is shown here of codes assumes nothing else of the   *)
(* grant endpoints.                                                        *)
(***************************************************************************)
THEOREM KeepsContract == Spec => Grants!Spec
<1>1. Init => Grants!Init
  BY DEF Init
<1>2. ASSUME IInv, [Next]_vars PROVE Grants!Next \/ UNCHANGED codeVars
  <2>1. ASSUME NEW v \in Visits, Authorize(v) PROVE Grants!Next \/ UNCHANGED codeVars
    BY <2>1 DEF Authorize, Grants!Next
  <2>2. ASSUME NEW v \in Visits, LoseCode(v) PROVE Grants!Next
    <3>1. Grants!Retire({v}) /\ {v} \in SUBSET Visits
      BY <2>2 DEF LoseCode
    <3> QED
      BY <3>1 DEF Grants!Next
  <2>3. ASSUME NEW x \in Callbacks, ClaimCode(x) PROVE Grants!Next
    <3>1. callback[x].pc # "idle" /\ callback[x].code # None
      BY <1>2, <2>3 DEF ClaimCode, IInv, CallbackInv
    <3>2. callback[x].code \in Visits
      BY <1>2, <3>1 DEF IInv, TypeOK, Callback
    <3> QED
      BY <2>3, <3>2 DEF ClaimCode, Grants!Next
  <2>4. ASSUME NEW x \in Callbacks, RedeemCode(x) PROVE Grants!Next
    BY <2>4 DEF RedeemCode, Grants!Next
  <2> QED
    BY <1>2, <2>1, <2>2, <2>3, <2>4, CodeFrame
<1>3. IInv /\ [Next]_vars => [Grants!Next]_(Grants!vars)
  BY <1>2 DEF Grants!vars, codeVars
<1> QED
  BY Invariance, <1>1, <1>3, PTL DEF Spec, Grants!Spec

(***************************************************************************)
(* A session that is over, for whatever reason, is never found live again, *)
(* and a state that is used up or gone is never found again, whichever     *)
(* store a restart finds: each is written once, under an id of its own.    *)
(* (session_store.go:78-103, 149-164, state_store.go:62-82, 119-140)        *)
(***************************************************************************)
OverForGood ==
    [][/\ \A l \in Logins : login[l].pc = "done" /\ Gone(l) => Gone(l)'
       /\ \A t \in Attempts : attempt[t] = "redirected" /\ statePlace[t] = "nowhere" =>
             statePlace'[t] = "nowhere"]_vars

THEOREM NothingComesBack == Spec => OverForGood
<1>1. IInv /\ [Next]_vars =>
         [/\ \A l \in Logins : login[l].pc = "done" /\ Gone(l) => Gone(l)'
          /\ \A t \in Attempts : attempt[t] = "redirected" /\ statePlace[t] = "nowhere" =>
                statePlace'[t] = "nowhere"]_vars
  BY SessionsStayGone, StatesStay
<1> QED
  BY Invariance, <1>1, PTL DEF Spec, OverForGood
=============================================================================
