---------------------- MODULE AuthorizationCodeProofs ----------------------
(***************************************************************************)
(* Proofs about AuthorizationCode, for any number of clients, requests and *)
(* codes, with Redis or the in-memory store, with or without faults.       *)
(***************************************************************************)
EXTENDS AuthorizationCode, TLAPS

(* What a request to /authorize, r, has established at each point. *)
SoundAuthorize(r) ==
    /\ r.pc # "idle" => r.in # None /\ r.user # None
    /\ r.pc = "save" \/ r.drawn => r.redirect # None
    /\ r.drawn => r.pc \in {"issued", "failed"}

AuthorizeInv == \A a \in Authorizers : SoundAuthorize(authz[a])

(* A stored code carries the grant of the request that drew it. *)
StoreInv ==
    \A c \in Codes : codes[c] # None =>
        authz[c].drawn /\ codes[c] = AuthCodeOf(authz[c])

(* What a request to /token, r, has established at each point. *)
SoundExchange(r) ==
    /\ r.pc # "idle" => r.in # None
    /\ r.pc \in {"idle", "get"} => r.got = None /\ ~r.minted /\ ~r.deleted
    /\ r.pc = "idle" => r.after = {} /\ ~r.late
    /\ r.pc \in XchgActive => r.code # None
    /\ r.pc \in {"delete", "client", "persist", "respond", "done"} => r.got # None
    /\ r.pc \in {"delete", "client", "persist"} => ~r.minted
    /\ r.pc = "delete" => ~r.deleted
    /\ r.pc = "client" => ClientMatches(r.in, r.got)
    /\ r.pc = "persist" \/ r.minted =>
          /\ r.got # None
          /\ ClientMatches(r.in, r.got)
          /\ RedirectMatches(r.in, r.got)
          /\ PKCEVerified(r.in, r.got)

ExchangeInv == \A x \in Exchangers : SoundExchange(xchg[x])

(* The code an exchange has read is the grant of the request that drew it. *)
GrantInv ==
    \A x \in Exchangers : xchg[x].got # None =>
        /\ xchg[x].code # None
        /\ authz[xchg[x].code].drawn
        /\ xchg[x].got = AuthCodeOf(authz[xchg[x].code])

(* An acknowledged Delete leaves the code out of the store for good. *)
DeletedInv ==
    \A x \in Exchangers : xchg[x].deleted =>
        xchg[x].got # None /\ codes[xchg[x].code] = None

(* An exchange that began after an acknowledged Delete reads nothing. *)
AfterInv ==
    \A x \in Exchangers : \A y \in xchg[x].after :
        /\ xchg[y].pc \in XchgEnded
        /\ xchg[y].deleted /\ xchg[x].code = xchg[y].code => xchg[x].got = None

(* A code that had expired when an exchange began stays expired. *)
LateInv ==
    \A x \in Exchangers : xchg[x].late =>
        xchg[x].code # None /\ Expired(xchg[x].code) /\ xchg[x].got = None

(* A refresh token's row refers to rows that exist. *)
RowsInv ==
    \A r \in refreshTokens :
        /\ clients[r.client].registered
        /\ r.user \in StoredUsers
        /\ xchg[r.id].pc \in {"respond", "done", "failed", "lost"}
        /\ xchg[r.id].got # None
        /\ r.client = xchg[r.id].got.client
        /\ r.user = xchg[r.id].got.user

(* The inductive invariant. *)
IInv ==
    /\ TypeOK
    /\ AuthorizeInv
    /\ StoreInv
    /\ ExchangeInv
    /\ GrantInv
    /\ DeletedInv
    /\ AfterInv
    /\ LateInv
    /\ RowsInv

USE DEF Codes

(* The invariant holds before any request. *)
LEMMA InitInv == Init => IInv
  <1> SUFFICES ASSUME Init PROVE IInv
    OBVIOUS
  <1> USE DEF Init, Table!Init
  <1>1. TypeOK
    BY ConstantsAssumption DEF TypeOK, Authorize, Exchange
  <1>2. AuthorizeInv /\ StoreInv
    BY DEF AuthorizeInv, StoreInv, SoundAuthorize
  <1>3. ExchangeInv /\ GrantInv /\ DeletedInv /\ AfterInv /\ LateInv /\ RowsInv
    BY DEF ExchangeInv, SoundExchange, GrantInv, DeletedInv, AfterInv, LateInv,
           RowsInv, XchgActive
  <1>4. QED
    BY <1>1, <1>2, <1>3 DEF IInv
-----------------------------------------------------------------------------
(* /authorize *)

(* A step of one request to /authorize that draws no code keeps it. *)
LEMMA AuthorizeLocalStep ==
  ASSUME IInv, NEW a \in Authorizers, NEW r \in Authorize,
         authz' = [authz EXCEPT ![a] = r],
         ~authz[a].drawn, ~r.drawn, SoundAuthorize(r),
         UNCHANGED <<clients, codes, life, refreshTokens, xchg>>
  PROVE  IInv'
  <1> USE DEF IInv
  <1>1. TypeOK'
    BY DEF TypeOK
  <1>2. AuthorizeInv'
    BY DEF TypeOK, AuthorizeInv
  <1>3. StoreInv' /\ GrantInv'
    BY DEF TypeOK, Exchange, StoreInv, GrantInv
  <1>4. ExchangeInv' /\ DeletedInv' /\ AfterInv' /\ LateInv' /\ RowsInv'
    BY DEF ExchangeInv, DeletedInv, AfterInv, LateInv, RowsInv, Expired
  <1>5. QED
    BY <1>1, <1>2, <1>3, <1>4

(* The parameters of a request that has begun name a client. *)
LEMMA ClientOfType ==
  ASSUME TypeOK, AuthorizeInv, NEW a \in Authorizers, authz[a].pc # "idle"
  PROVE  /\ authz[a].in \in AuthorizeRequest
         /\ ClientOf(authz[a].in) \in ClientIDs
  BY ConstantsAssumption
     DEF TypeOK, Authorize, AuthorizeInv, SoundAuthorize, AuthorizeRequest, ClientOf

(* The handler's call of the service keeps it. *)
LEMMA BeginAuthorizeInv ==
  ASSUME IInv, NEW a \in Authorizers, BeginAuthorize(a) PROVE IInv'
  <1>1. PICK p \in AuthorizeInputs, u \in Users :
          authz' = [authz EXCEPT ![a] = [@ EXCEPT !.pc = "client", !.in = p, !.user = u]]
    BY DEF BeginAuthorize
  <1>2. UNCHANGED <<clients, codes, life, refreshTokens, xchg>> /\ authz[a].pc = "idle"
    BY DEF BeginAuthorize
  <1> DEFINE r == [authz[a] EXCEPT !.pc = "client", !.in = p, !.user = u]
  <1>3. r \in Authorize /\ ~authz[a].drawn /\ ~r.drawn /\ SoundAuthorize(r)
    <2>1. authz[a] \in Authorize /\ SoundAuthorize(authz[a])
      BY DEF IInv, TypeOK, AuthorizeInv
    <2>2. [authz[a] EXCEPT !.pc = "client"] \in Authorize
      BY <2>1 DEF Authorize, AuthzActive
    <2>3. [authz[a] EXCEPT !.pc = "client", !.in = p] \in Authorize
      <3> DEFINE q == [authz[a] EXCEPT !.pc = "client"]
      <3>1. q \in Authorize
        BY <2>2
      <3> HIDE DEF q
      <3>2. [q EXCEPT !.in = p] \in Authorize
        BY <3>1 DEF Authorize
      <3> QED
        BY <3>2 DEF q
    <2>4. r \in Authorize
      <3> DEFINE q == [authz[a] EXCEPT !.pc = "client", !.in = p]
      <3>1. q \in Authorize
        BY <2>3
      <3> HIDE DEF q
      <3>2. [q EXCEPT !.user = u] \in Authorize
        BY <3>1 DEF Authorize
      <3> QED
        BY <3>2 DEF q
    <2>5. r.pc = "client" /\ r.in = p /\ r.user = u /\ r.drawn = authz[a].drawn
      BY <2>1 DEF Authorize
    <2>6. ~authz[a].drawn
      BY <1>2, <2>1 DEF SoundAuthorize
    <2> HIDE DEF r
    <2>7. SoundAuthorize(r)
      BY <2>5, <2>6, NoneAssumption DEF SoundAuthorize
    <2> QED
      BY <2>4, <2>5, <2>6, <2>7
  <1>4. authz' = [authz EXCEPT ![a] = r]
    BY <1>1
  <1> HIDE DEF r
  <1>5. QED
    BY <1>2, <1>3, <1>4, AuthorizeLocalStep

(* The first SELECT of GetByClientID keeps it. *)
LEMMA ReadClientInv ==
  ASSUME IInv, NEW a \in Authorizers, ReadClient(a) PROVE IInv'
  <1>1. PICK pc \in {"uris", "failed"} : authz' = [authz EXCEPT ![a].pc = pc]
    BY DEF ReadClient, AuthzFails
  <1>2. UNCHANGED <<clients, codes, life, refreshTokens, xchg>> /\ authz[a].pc = "client"
    BY DEF ReadClient
  <1> DEFINE r == [authz[a] EXCEPT !.pc = pc]
  <1>3. r \in Authorize /\ ~authz[a].drawn /\ ~r.drawn /\ SoundAuthorize(r)
    BY <1>2 DEF IInv, TypeOK, Authorize, AuthzActive, AuthzEnded, AuthorizeInv, SoundAuthorize
  <1>4. authz' = [authz EXCEPT ![a] = r]
    BY <1>1
  <1> HIDE DEF r
  <1>5. QED
    BY <1>2, <1>3, <1>4, AuthorizeLocalStep

(* The second SELECT keeps it. *)
LEMMA ReadURIsInv ==
  ASSUME IInv, NEW a \in Authorizers, ReadURIs(a) PROVE IInv'
  <1>1. UNCHANGED <<clients, codes, life, refreshTokens, xchg>> /\ authz[a].pc = "uris"
    BY DEF ReadURIs
  <1>2. clients[ClientOf(authz[a].in)].uris \subseteq URIs
    BY <1>1, ClientOfType DEF IInv, TypeOK, Table!Client
  <1>3. PICK pc \in {"scopes", "failed"}, S \in SUBSET URIs :
          authz' = [authz EXCEPT ![a] = [@ EXCEPT !.pc = pc, !.uris = S]]
    <2>1. CASE authz' = [authz EXCEPT ![a].pc = "failed"]
      <3>1. authz[a] = [authz[a] EXCEPT !.uris = authz[a].uris] /\ authz[a].uris \in SUBSET URIs
        BY DEF IInv, TypeOK, Authorize
      <3>2. [authz[a] EXCEPT !.pc = "failed"]
              = [authz[a] EXCEPT !.pc = "failed", !.uris = authz[a].uris]
        BY <3>1 DEF IInv, TypeOK, Authorize
      <3>3. QED
        BY <2>1, <3>1, <3>2
    <2>2. CASE ~(authz' = [authz EXCEPT ![a].pc = "failed"])
      BY <2>2, <1>2 DEF ReadURIs, AuthzFails
    <2>3. QED
      BY <2>1, <2>2
  <1> DEFINE r == [authz[a] EXCEPT !.pc = pc, !.uris = S]
  <1>4. r \in Authorize /\ ~authz[a].drawn /\ ~r.drawn /\ SoundAuthorize(r)
    BY <1>1 DEF IInv, TypeOK, Authorize, AuthzActive, AuthzEnded, AuthorizeInv, SoundAuthorize
  <1>5. authz' = [authz EXCEPT ![a] = r]
    BY <1>3
  <1> HIDE DEF r
  <1>6. QED
    BY <1>1, <1>4, <1>5, AuthorizeLocalStep

(* The third SELECT, with the checks that follow, keeps it. *)
LEMMA ReadScopesInv ==
  ASSUME IInv, NEW a \in Authorizers, ReadScopes(a) PROVE IInv'
  <1>1. UNCHANGED <<clients, codes, life, refreshTokens, xchg>> /\ authz[a].pc = "scopes"
    BY DEF ReadScopes
  <1>2. authz[a].uris \subseteq URIs /\ authz[a].redirect \in URIs \cup {None}
    BY DEF IInv, TypeOK, Authorize
  <1>3. ~authz[a].drawn /\ authz[a] \in Authorize /\ SoundAuthorize(authz[a])
    BY <1>1 DEF IInv, TypeOK, Authorize, AuthorizeInv, SoundAuthorize
  <1>4. CASE authz' = [authz EXCEPT ![a] = [@ EXCEPT !.pc = "failed", !.uris = {}]]
    <2> DEFINE r == [authz[a] EXCEPT !.pc = "failed", !.uris = {}]
    <2>1. r \in Authorize /\ ~r.drawn /\ SoundAuthorize(r)
      BY <1>1, <1>3 DEF Authorize, AuthzEnded, SoundAuthorize
    <2>2. authz' = [authz EXCEPT ![a] = r]
      BY <1>4
    <2> HIDE DEF r
    <2>3. QED
      BY <1>1, <1>3, <2>1, <2>2, AuthorizeLocalStep
  <1>5. CASE ~(authz' = [authz EXCEPT ![a] = [@ EXCEPT !.pc = "failed", !.uris = {}]])
    <2> DEFINE uri == RedirectOf(authz[a].in, authz[a].uris)
               r == [authz[a] EXCEPT !.pc = "save", !.uris = {}, !.redirect = uri]
    <2>1. authz' = [authz EXCEPT ![a] = r] /\ uri \in URIs
      BY <1>2, <1>5 DEF ReadScopes, isRedirectURIAllowed
    <2>2. r \in Authorize /\ ~r.drawn /\ SoundAuthorize(r)
      BY <1>1, <1>3, <2>1, NoneAssumption DEF Authorize, AuthzActive, SoundAuthorize
    <2> HIDE DEF r, uri
    <2>3. QED
      BY <1>1, <1>3, <2>1, <2>2, AuthorizeLocalStep
  <1>6. QED
    BY <1>4, <1>5

(* Drawing a code and saving it keeps it. *)
LEMMA SaveInv ==
  ASSUME IInv, NEW a \in Authorizers, Save(a) PROVE IInv'
  <1> USE DEF IInv
  <1>1. UNCHANGED <<clients, life, refreshTokens, xchg>> /\ authz[a].pc = "save"
    BY DEF Save
  <1>2. PICK pc \in {"issued", "failed"} :
          authz' = [authz EXCEPT ![a] = [@ EXCEPT !.pc = pc, !.drawn = TRUE]]
    BY DEF Save
  <1>3. codes' = codes \/ codes' = [codes EXCEPT ![a] = AuthCodeOf(authz[a])]
    BY DEF Save
  <1>4. AuthCodeOf(authz[a]) \in AuthCode
    BY <1>1, ClientOfType
       DEF TypeOK, Authorize, AuthorizeInv, SoundAuthorize, AuthCodeOf, AuthCode, AuthorizeRequest
  <1>5. ~authz[a].drawn
    BY <1>1 DEF AuthorizeInv, SoundAuthorize
  <1>6. TypeOK'
    <2>1. authz[a] \in Authorize /\ authz \in [Authorizers -> Authorize]
      BY DEF TypeOK
    <2> DEFINE q == [authz[a] EXCEPT !.pc = pc]
    <2>2. q \in Authorize
      BY <2>1 DEF Authorize, AuthzEnded
    <2> HIDE DEF q
    <2>3. [q EXCEPT !.drawn = TRUE] \in Authorize
      BY <2>2 DEF Authorize
    <2>4. authz' \in [Authorizers -> Authorize]
      BY <1>2, <2>1, <2>3 DEF q
    <2>5. codes' \in [Codes -> AuthCode \cup {None}]
      BY <1>3, <1>4 DEF TypeOK, Codes
    <2> QED
      BY <1>1, <2>4, <2>5 DEF TypeOK
  <1>7. AuthorizeInv'
    BY <1>1, <1>2 DEF TypeOK, Authorize, AuthorizeInv, SoundAuthorize
  <1>12. /\ AuthCodeOf(authz[a])' = AuthCodeOf(authz[a]) /\ authz'[a].drawn
         /\ \A b \in Authorizers \ {a} : authz'[b] = authz[b]
    <2>1. authz'[a] = [authz[a] EXCEPT !.pc = pc, !.drawn = TRUE]
      BY <1>2 DEF TypeOK
    <2>2. /\ authz'[a].in = authz[a].in /\ authz'[a].user = authz[a].user
          /\ authz'[a].redirect = authz[a].redirect /\ authz'[a].drawn
      BY <2>1 DEF TypeOK, Authorize
    <2>3. \A b \in Authorizers \ {a} : authz'[b] = authz[b]
      BY <1>2 DEF TypeOK
    <2> QED
      BY <2>2, <2>3 DEF AuthCodeOf, ClientOf
  <1>8. StoreInv' /\ GrantInv'
    <2>1. StoreInv'
      <3>1. ASSUME NEW b \in Authorizers \ {a}
            PROVE  codes'[b] = codes[b] /\ authz'[b] = authz[b]
        BY <1>3, <1>12, <3>1 DEF TypeOK, Codes
      <3>2. codes'[a] = codes[a] \/ codes'[a] = AuthCodeOf(authz[a])
        BY <1>3 DEF TypeOK, Codes
      <3>3. codes[a] = None
        BY <1>5 DEF StoreInv, Codes
      <3> QED
        BY <1>12, <3>1, <3>2, <3>3 DEF StoreInv, Codes
    <2>2. GrantInv'
      <3>1. ASSUME NEW x \in Exchangers, xchg[x].got # None
            PROVE  /\ authz[xchg[x].code].drawn
                   /\ xchg[x].code \in Authorizers \ {a}
        BY <1>5, <3>1 DEF GrantInv, TypeOK, Exchange, Codes
      <3> QED
        BY <1>1, <1>12, <3>1 DEF GrantInv
    <2> QED
      BY <2>1, <2>2
  <1>9. DeletedInv'
    BY <1>1, <1>3, <1>5 DEF TypeOK, Exchange, DeletedInv, GrantInv
  <1>10. ExchangeInv' /\ AfterInv' /\ LateInv' /\ RowsInv'
    BY <1>1 DEF ExchangeInv, AfterInv, LateInv, RowsInv, Expired
  <1>11. QED
    BY <1>6, <1>7, <1>8, <1>9, <1>10
-----------------------------------------------------------------------------
(* /token *)

(***************************************************************************)
(* A step of one request to /token keeps it, if what it reads from the     *)
(* store is there and has not expired, if it puts nothing into the store,  *)
(* and if the rows it leaves behind are sound.                             *)
(***************************************************************************)
LEMMA ExchangeLocalStep ==
  ASSUME IInv, NEW x \in Exchangers, NEW r \in Exchange,
         xchg' = [xchg EXCEPT ![x] = r],
         xchg[x].pc \in XchgActive, SoundExchange(r),
         r.code = xchg[x].code, r.after = xchg[x].after, r.late = xchg[x].late,
         \/ r.got = xchg[x].got
         \/ xchg[x].got = None /\ r.got = codes[r.code] /\ ~Expired(r.code),
         codes' \in [Codes -> AuthCode \cup {None}],
         \A c \in Codes : codes'[c] \in {codes[c], None},
         r.deleted => r.got # None /\ codes'[r.code] = None,
         UNCHANGED <<clients, life, authz>>,
         refreshTokens' \subseteq RefreshToken, RowsInv'
  PROVE  IInv'
  <1> USE DEF IInv
  <1>1. TypeOK'
    BY DEF TypeOK
  <1>2. AuthorizeInv' /\ StoreInv'
    BY DEF AuthorizeInv, StoreInv
  <1>3. ExchangeInv'
    BY DEF TypeOK, ExchangeInv
  <1>4. r.code \in Codes
    BY NoneAssumption DEF TypeOK, Exchange, ExchangeInv, SoundExchange
  <1>5. GrantInv'
    BY <1>4, NoneAssumption DEF TypeOK, GrantInv, StoreInv
  <1>6. DeletedInv'
    BY <1>4 DEF TypeOK, Exchange, DeletedInv, GrantInv
  <1>7. AfterInv'
    <2> SUFFICES ASSUME NEW w \in Exchangers, NEW y \in xchg'[w].after
                 PROVE  /\ xchg'[y].pc \in XchgEnded
                        /\ xchg'[y].deleted /\ xchg'[w].code = xchg'[y].code
                              => xchg'[w].got = None
      BY DEF AfterInv
    <2>1. y \in xchg[w].after /\ y \in Exchangers
      BY DEF TypeOK, Exchange
    <2>2. y # x /\ xchg'[y] = xchg[y] /\ xchg[y].pc \in XchgEnded
      BY <2>1 DEF TypeOK, AfterInv, XchgActive, XchgEnded
    <2>3. CASE w # x
      BY <2>1, <2>2, <2>3 DEF TypeOK, AfterInv
    <2>4. CASE w = x
      BY <2>1, <2>2, <2>4, <1>4 DEF TypeOK, AfterInv, DeletedInv
    <2>5. QED
      BY <2>3, <2>4
  <1>8. LateInv'
    BY DEF TypeOK, LateInv, Expired
  <1>9. QED
    BY <1>1, <1>2, <1>3, <1>5, <1>6, <1>7, <1>8

(* A request that has not ended has no row yet, unless it is responding. *)
LEMMA RowsLocalStep ==
  ASSUME IInv, NEW x \in Exchangers, NEW r \in Exchange,
         xchg' = [xchg EXCEPT ![x] = r],
         xchg[x].pc \in {"idle", "get", "delete", "client", "persist"},
         UNCHANGED <<clients, refreshTokens>>
  PROVE  RowsInv'
  BY DEF IInv, TypeOK, RefreshToken, RowsInv

(* What the arrival of a request to /token does to its record. *)
LEMMA BeginExchangeShape ==
  ASSUME NEW x \in Exchangers, BeginExchange(x)
  PROVE  \E p \in TokenInputs, c \in Codes \cup {None},
            pc \in {"get", "failed"}, err \in Errors \cup {None} :
              /\ pc = "get" => c # None
              /\ xchg' = [xchg EXCEPT ![x] =
                    [@ EXCEPT !.pc = pc, !.in = p, !.code = c, !.err = err,
                              !.after = Ended, !.late = Late(c)]]
  <1>1. PICK p \in TokenInputs,
             c \in {None} \cup {a \in Authorizers : authz[a].pc = "issued"} :
          BeginExchange(x)!2!(p, c)
    BY DEF BeginExchange
  <1>2. QED
    BY <1>1 DEF Errors

(* The arrival of a request to /token keeps it. *)
LEMMA BeginExchangeInv ==
  ASSUME IInv, NEW x \in Exchangers, BeginExchange(x) PROVE IInv'
  <1> USE DEF IInv
  <1>1. UNCHANGED <<clients, codes, life, refreshTokens, authz>> /\ xchg[x].pc = "idle"
    BY DEF BeginExchange
  <1>2. PICK p \in TokenInputs, c \in Codes \cup {None},
             pc \in {"get", "failed"}, err \in Errors \cup {None} :
          /\ pc = "get" => c # None
          /\ xchg' = [xchg EXCEPT ![x] =
                [@ EXCEPT !.pc = pc, !.in = p, !.code = c, !.err = err,
                          !.after = Ended, !.late = Late(c)]]
    BY BeginExchangeShape
  <1> DEFINE r == [xchg[x] EXCEPT !.pc = pc, !.in = p, !.code = c, !.err = err,
                                  !.after = Ended, !.late = Late(c)]
  <1>3. Late(c) \in BOOLEAN /\ (Late(c) => c # None /\ Expired(c))
    BY DEF Late, Expired
  <1>4. xchg' = [xchg EXCEPT ![x] = r]
    BY <1>2
  <1>5. Ended \subseteq Exchangers /\ x \notin Ended
    BY <1>1 DEF Ended, XchgEnded
  <1>6. r \in Exchange
    <2>1. xchg[x] \in Exchange
      BY DEF TypeOK
    <2>2. pc \in {"idle"} \cup XchgActive \cup XchgEnded
      BY DEF XchgActive, XchgEnded
    <2>3. QED
      BY <1>3, <1>5, <2>1, <2>2 DEF Exchange
  <1>7. r.code = c /\ r.after = Ended /\ r.late = Late(c) /\ ~r.deleted
    BY <1>1 DEF TypeOK, Exchange, ExchangeInv, SoundExchange
  <1>8. r.got = None /\ SoundExchange(r)
    BY <1>1, <1>2, NoneAssumption DEF TypeOK, Exchange, ExchangeInv, SoundExchange, XchgActive
  <1> HIDE DEF r
  <1>9. TypeOK' /\ AuthorizeInv' /\ StoreInv'
    BY <1>1, <1>4, <1>6 DEF TypeOK, AuthorizeInv, StoreInv
  <1>10. ExchangeInv' /\ GrantInv' /\ DeletedInv'
    BY <1>1, <1>4, <1>7, <1>8 DEF TypeOK, ExchangeInv, GrantInv, DeletedInv
  <1>11. AfterInv'
    <2> SUFFICES ASSUME NEW w \in Exchangers, NEW y \in xchg'[w].after
                 PROVE  /\ xchg'[y].pc \in XchgEnded
                        /\ xchg'[y].deleted /\ xchg'[w].code = xchg'[y].code
                              => xchg'[w].got = None
      BY DEF AfterInv
    <2>1. CASE w = x
      BY <2>1, <1>4, <1>5, <1>7, <1>8 DEF TypeOK, Ended
    <2>2. CASE w # x
      <3>1. y \in xchg[w].after /\ y \in Exchangers
        BY <2>2, <1>4 DEF TypeOK, Exchange
      <3>2. y # x
        BY <3>1, <1>1 DEF AfterInv, XchgEnded
      <3>3. QED
        BY <2>2, <3>1, <3>2, <1>4 DEF TypeOK, AfterInv
    <2>3. QED
      BY <2>1, <2>2
  <1>12. LateInv'
    BY <1>1, <1>3, <1>4, <1>7, <1>8 DEF TypeOK, LateInv, Expired
  <1>13. RowsInv'
    BY <1>1, <1>4, <1>6, RowsLocalStep
  <1>14. QED
    BY <1>9, <1>10, <1>11, <1>12, <1>13

(* A request that has begun carries its form and a code. *)
LEMMA ActiveExchange ==
  ASSUME IInv, NEW x \in Exchangers, xchg[x].pc \in XchgActive
  PROVE  /\ xchg[x] \in Exchange /\ SoundExchange(xchg[x])
         /\ xchg[x].code \in Codes /\ xchg[x].in \in TokenInputs
         /\ xchg[x].deleted =>
              xchg[x].got # None /\ codes[xchg[x].code] = None
  BY NoneAssumption
     DEF IInv, TypeOK, Exchange, ExchangeInv, SoundExchange, DeletedInv, XchgActive

(* Get, which drops an expired key from Redis, keeps it. *)
LEMMA GetCodeInv ==
  ASSUME IInv, NEW x \in Exchangers, GetCode(x) PROVE IInv'
  <1> DEFINE c == xchg[x].code
  <1>1. xchg[x].pc = "get" /\ UNCHANGED <<clients, life, refreshTokens, authz>>
    BY DEF GetCode
  <1>2. /\ xchg[x] \in Exchange /\ SoundExchange(xchg[x])
        /\ c \in Codes /\ xchg[x].in \in TokenInputs
        /\ xchg[x].got = None /\ ~xchg[x].deleted /\ ~xchg[x].minted
    BY <1>1, ActiveExchange DEF SoundExchange, XchgActive
  <1>3. /\ codes' \in [Codes -> AuthCode \cup {None}]
        /\ \A d \in Codes : codes'[d] \in {codes[d], None}
    <2>1. codes \in [Codes -> AuthCode \cup {None}]
      BY DEF IInv, TypeOK
    <2>2. codes' = codes \/ codes' = [codes EXCEPT ![c] = None]
      BY DEF GetCode
    <2>3. QED
      BY <2>1, <2>2
  <1>4. refreshTokens' \subseteq RefreshToken
    BY <1>1 DEF IInv, TypeOK
  <1>5. CASE /\ codes[c] # None /\ ~Expired(c) /\ UNCHANGED codes
             /\ xchg' = [xchg EXCEPT ![x] = [@ EXCEPT !.pc = "delete", !.got = codes[c]]]
    <2> DEFINE r == [xchg[x] EXCEPT !.pc = "delete", !.got = codes[c]]
    <2>1. r \in Exchange
      BY <1>2, <1>5 DEF Exchange, XchgActive, IInv, TypeOK
    <2>2. SoundExchange(r)
      BY <1>1, <1>2, <1>5 DEF Exchange, SoundExchange, XchgActive
    <2>3. /\ r.code = c /\ r.after = xchg[x].after /\ r.late = xchg[x].late
          /\ r.got = codes[c] /\ ~r.deleted
      BY <1>2 DEF Exchange
    <2>4. xchg' = [xchg EXCEPT ![x] = r]
      BY <1>5
    <2> HIDE DEF r
    <2>5. RowsInv'
      BY <1>1, <2>1, <2>4, RowsLocalStep
    <2>6. QED
      BY <1>1, <1>2, <1>3, <1>4, <1>5, <2>1, <2>2, <2>3, <2>4, <2>5,
         ExchangeLocalStep DEF XchgActive
  <1>6. CASE XchgFails(x, "invalid_grant")
    <2> DEFINE r == [xchg[x] EXCEPT !.pc = "failed", !.err = "invalid_grant"]
    <2>1. r \in Exchange /\ SoundExchange(r)
      BY <1>1, <1>2 DEF Exchange, SoundExchange, XchgActive, XchgEnded, Errors
    <2>2. /\ r.code = c /\ r.after = xchg[x].after /\ r.late = xchg[x].late
          /\ r.got = xchg[x].got /\ ~r.deleted
      BY <1>2 DEF Exchange
    <2>3. xchg' = [xchg EXCEPT ![x] = r]
      BY <1>6 DEF XchgFails
    <2> HIDE DEF r
    <2>4. RowsInv'
      BY <1>1, <2>1, <2>3, RowsLocalStep
    <2>5. QED
      BY <1>1, <1>2, <1>3, <1>4, <2>1, <2>2, <2>3, <2>4, ExchangeLocalStep
         DEF XchgActive
  <1>7. QED
    BY <1>5, <1>6 DEF GetCode

(* Delete, with the checks that follow it, keeps it. *)
LEMMA DeleteCodeInv ==
  ASSUME IInv, NEW x \in Exchangers, DeleteCode(x) PROVE IInv'
  <1> DEFINE c == xchg[x].code
             ok == ~Expired(c) /\ ClientMatches(xchg[x].in, xchg[x].got)
  <1>1. xchg[x].pc = "delete" /\ UNCHANGED <<clients, life, refreshTokens, authz>>
    BY DEF DeleteCode
  <1>2. /\ xchg[x] \in Exchange /\ SoundExchange(xchg[x])
        /\ c \in Codes /\ xchg[x].in \in TokenInputs
        /\ xchg[x].got # None /\ ~xchg[x].minted
    BY <1>1, ActiveExchange DEF SoundExchange, XchgActive
  <1>3. PICK deleted \in BOOLEAN, pc \in {"client", "failed"},
             err \in {"invalid_grant", None} :
          /\ codes' = [codes EXCEPT ![c] = None] \/ (~deleted /\ UNCHANGED codes)
          /\ pc = "client" => ClientMatches(xchg[x].in, xchg[x].got)
          /\ xchg' = [xchg EXCEPT ![x] =
                [@ EXCEPT !.deleted = deleted, !.pc = pc, !.err = err]]
    <2>1. CASE ok
      BY <2>1 DEF DeleteCode
    <2>2. CASE ~ok
      BY <2>2 DEF DeleteCode
    <2>3. QED
      BY <2>1, <2>2
  <1>4. /\ codes' \in [Codes -> AuthCode \cup {None}]
        /\ \A d \in Codes : codes'[d] \in {codes[d], None}
        /\ deleted => codes'[c] = None
    BY <1>2, <1>3 DEF IInv, TypeOK
  <1>5. refreshTokens' \subseteq RefreshToken
    BY <1>1 DEF IInv, TypeOK
  <1> DEFINE r == [xchg[x] EXCEPT !.deleted = deleted, !.pc = pc, !.err = err]
  <1>6. r \in Exchange /\ SoundExchange(r)
    BY <1>1, <1>2, <1>3 DEF Exchange, SoundExchange, XchgActive, XchgEnded, Errors
  <1>7. /\ r.code = c /\ r.after = xchg[x].after /\ r.late = xchg[x].late
        /\ r.got = xchg[x].got /\ r.deleted = deleted
    BY <1>2 DEF Exchange
  <1>8. xchg' = [xchg EXCEPT ![x] = r]
    BY <1>3
  <1> HIDE DEF r
  <1>9. RowsInv'
    BY <1>1, <1>6, <1>8, RowsLocalStep
  <1>10. QED
    BY <1>1, <1>2, <1>4, <1>5, <1>6, <1>7, <1>8, <1>9, ExchangeLocalStep
       DEF XchgActive

(* The client, redirect_uri and PKCE checks keep it. *)
LEMMA CheckClientInv ==
  ASSUME IInv, NEW x \in Exchangers, CheckClient(x) PROVE IInv'
  <1>1. /\ xchg[x].pc = "client"
        /\ UNCHANGED <<clients, codes, life, refreshTokens, authz>>
    BY DEF CheckClient
  <1>2. /\ xchg[x] \in Exchange /\ SoundExchange(xchg[x])
        /\ xchg[x].code \in Codes /\ xchg[x].in \in TokenInputs
        /\ xchg[x].deleted => xchg[x].got # None /\ codes[xchg[x].code] = None
    BY <1>1, ActiveExchange DEF XchgActive
  <1>3. PICK pc \in {"persist", "failed"}, err \in Errors \cup {None} :
          /\ pc = "persist" => /\ RedirectMatches(xchg[x].in, xchg[x].got)
                               /\ PKCEVerified(xchg[x].in, xchg[x].got)
          /\ xchg' = [xchg EXCEPT ![x] = [@ EXCEPT !.pc = pc, !.err = err]]
    <2>1. CASE xchg' = [xchg EXCEPT ![x].pc = "persist"]
      <3>1. xchg[x].err \in Errors \cup {None}
        BY <1>2 DEF Exchange
      <3>2. [xchg[x] EXCEPT !.pc = "persist"]
              = [xchg[x] EXCEPT !.pc = "persist", !.err = xchg[x].err]
        BY <1>2 DEF Exchange
      <3>3. /\ RedirectMatches(xchg[x].in, xchg[x].got)
            /\ PKCEVerified(xchg[x].in, xchg[x].got)
        <4>1. xchg'[x].pc = "persist"
          BY <2>1, <1>2 DEF IInv, TypeOK, Exchange
        <4>2. ASSUME NEW err \in Errors, XchgFails(x, err) PROVE FALSE
          <5>1. xchg'[x] = [xchg[x] EXCEPT !.pc = "failed", !.err = err]
            BY <4>2 DEF XchgFails, IInv, TypeOK
          <5> QED
            BY <1>2, <4>1, <5>1 DEF Exchange
        <4>3. QED
          BY <4>2 DEF CheckClient, Errors
      <3>4. QED
        BY <2>1, <3>1, <3>2, <3>3
    <2>2. CASE ~(xchg' = [xchg EXCEPT ![x].pc = "persist"])
      <3>1. PICK err \in Errors : XchgFails(x, err)
        BY <2>2 DEF CheckClient, Errors
      <3>2. QED
        BY <3>1 DEF XchgFails
    <2>3. QED
      BY <2>1, <2>2
  <1>4. /\ codes' \in [Codes -> AuthCode \cup {None}] /\ codes' = codes
        /\ refreshTokens' \subseteq RefreshToken
    BY <1>1 DEF IInv, TypeOK
  <1> DEFINE r == [xchg[x] EXCEPT !.pc = pc, !.err = err]
  <1>5. r \in Exchange /\ SoundExchange(r)
    BY <1>1, <1>2, <1>3 DEF Exchange, SoundExchange, XchgActive, XchgEnded
  <1>6. /\ r.code = xchg[x].code /\ r.after = xchg[x].after /\ r.late = xchg[x].late
        /\ r.got = xchg[x].got /\ r.deleted = xchg[x].deleted
    BY <1>2 DEF Exchange
  <1>7. xchg' = [xchg EXCEPT ![x] = r]
    BY <1>3
  <1> HIDE DEF r
  <1>8. RowsInv'
    BY <1>1, <1>5, <1>7, RowsLocalStep
  <1>9. QED
    BY <1>1, <1>2, <1>4, <1>5, <1>6, <1>7, <1>8, ExchangeLocalStep
       DEF XchgActive

(* The INSERT of the refresh token, or its failure, keeps it. *)
LEMMA PersistRefreshTokenInv ==
  ASSUME IInv, NEW x \in Exchangers, PersistRefreshToken(x) PROVE IInv'
  <1> DEFINE got == xchg[x].got
             row == [id |-> x, client |-> got.client, user |-> got.user]
  <1>1. xchg[x].pc = "persist" /\ UNCHANGED <<clients, codes, life, authz>>
    BY DEF PersistRefreshToken
  <1>2. /\ xchg[x] \in Exchange /\ SoundExchange(xchg[x])
        /\ xchg[x].code \in Codes /\ xchg[x].in \in TokenInputs
        /\ xchg[x].deleted => xchg[x].got # None /\ codes[xchg[x].code] = None
        /\ got \in AuthCode /\ got # None
    <2>1. /\ xchg[x] \in Exchange /\ SoundExchange(xchg[x])
          /\ xchg[x].code \in Codes /\ xchg[x].in \in TokenInputs
          /\ xchg[x].deleted => xchg[x].got # None /\ codes[xchg[x].code] = None
      BY <1>1, ActiveExchange DEF XchgActive
    <2>2. QED
      BY <1>1, <2>1 DEF Exchange, SoundExchange
  <1>3. row \in RefreshToken /\ row.id = x /\ row.client = got.client /\ row.user = got.user
    BY <1>2 DEF RefreshToken, AuthCode
  <1>4. PICK pc \in {"respond", "failed"}, err \in Errors \cup {None}, minted \in BOOLEAN :
          xchg' = [xchg EXCEPT ![x] = [@ EXCEPT !.pc = pc, !.minted = minted, !.err = err]]
    <2>1. CASE xchg' = [xchg EXCEPT ![x] = [@ EXCEPT !.pc = "respond", !.minted = TRUE]]
      <3>1. [xchg[x] EXCEPT !.pc = "respond", !.minted = TRUE]
              = [xchg[x] EXCEPT !.pc = "respond", !.minted = TRUE, !.err = xchg[x].err]
        BY <1>2 DEF Exchange
      <3>2. xchg[x].err \in Errors \cup {None}
        BY <1>2 DEF Exchange
      <3>3. QED
        BY <2>1, <3>1, <3>2
    <2>2. CASE XchgFails(x, "internal")
      <3>1. [xchg[x] EXCEPT !.pc = "failed", !.err = "internal"]
              = [xchg[x] EXCEPT !.pc = "failed", !.minted = xchg[x].minted, !.err = "internal"]
        BY <1>2 DEF Exchange
      <3>2. xchg[x].minted \in BOOLEAN
        BY <1>2 DEF Exchange
      <3>3. QED
        BY <2>2, <3>1, <3>2 DEF XchgFails, Errors
    <2>3. QED
      BY <2>1, <2>2 DEF PersistRefreshToken
  <1>5. \/ refreshTokens' = refreshTokens
        \/ ForeignKeysHold(row) /\ refreshTokens' = refreshTokens \cup {row}
    BY DEF PersistRefreshToken
  <1>6. refreshTokens' \subseteq RefreshToken
    BY <1>3, <1>5 DEF IInv, TypeOK
  <1> DEFINE r == [xchg[x] EXCEPT !.pc = pc, !.minted = minted, !.err = err]
  <1>7. r \in Exchange /\ SoundExchange(r) /\ r.pc = pc
    BY <1>1, <1>2, <1>4 DEF Exchange, SoundExchange, XchgActive, XchgEnded
  <1>8. /\ r.code = xchg[x].code /\ r.after = xchg[x].after /\ r.late = xchg[x].late
        /\ r.got = got /\ r.deleted = xchg[x].deleted
    BY <1>2 DEF Exchange
  <1>9. xchg' = [xchg EXCEPT ![x] = r]
    BY <1>4
  <1> HIDE DEF r, row
  <1>10. RowsInv'
    <2> SUFFICES ASSUME NEW s \in refreshTokens'
                 PROVE  /\ clients[s.client].registered
                        /\ s.user \in StoredUsers
                        /\ xchg'[s.id].pc \in {"respond", "done", "failed", "lost"}
                        /\ xchg'[s.id].got # None
                        /\ s.client = xchg'[s.id].got.client
                        /\ s.user = xchg'[s.id].got.user
      BY <1>1 DEF RowsInv
    <2>1. CASE s \in refreshTokens
      BY <1>1, <1>9, <2>1 DEF IInv, TypeOK, RefreshToken, RowsInv
    <2>2. CASE s = row /\ ForeignKeysHold(row)
      BY <1>2, <1>3, <1>7, <1>8, <1>9, <2>2 DEF IInv, TypeOK, ForeignKeysHold
    <2>3. QED
      BY <1>5, <2>1, <2>2
  <1>11. codes' \in [Codes -> AuthCode \cup {None}] /\ codes' = codes
    BY <1>1 DEF IInv, TypeOK
  <1>12. QED
    BY <1>1, <1>2, <1>6, <1>7, <1>8, <1>9, <1>10, <1>11, ExchangeLocalStep
       DEF XchgActive

(* Writing the response keeps it. *)
LEMMA RespondInv ==
  ASSUME IInv, NEW x \in Exchangers, Respond(x) PROVE IInv'
  <1>1. /\ xchg[x].pc = "respond"
        /\ UNCHANGED <<clients, codes, life, refreshTokens, authz>>
    BY DEF Respond
  <1>2. /\ xchg[x] \in Exchange /\ SoundExchange(xchg[x])
        /\ xchg[x].deleted => xchg[x].got # None /\ codes[xchg[x].code] = None
    BY <1>1, ActiveExchange DEF XchgActive
  <1>3. /\ codes' \in [Codes -> AuthCode \cup {None}] /\ codes' = codes
        /\ refreshTokens' \subseteq RefreshToken
    BY <1>1 DEF IInv, TypeOK
  <1> DEFINE r == [xchg[x] EXCEPT !.pc = "done"]
  <1>4. r \in Exchange /\ SoundExchange(r) /\ r.pc = "done"
    BY <1>1, <1>2 DEF Exchange, SoundExchange, XchgActive, XchgEnded
  <1>5. /\ r.code = xchg[x].code /\ r.after = xchg[x].after /\ r.late = xchg[x].late
        /\ r.got = xchg[x].got /\ r.deleted = xchg[x].deleted
    BY <1>2 DEF Exchange
  <1>6. xchg' = [xchg EXCEPT ![x] = r]
    BY DEF Respond
  <1> HIDE DEF r
  <1>7. RowsInv'
    BY <1>1, <1>4, <1>5, <1>6 DEF IInv, TypeOK, RefreshToken, RowsInv
  <1>8. QED
    BY <1>1, <1>2, <1>3, <1>4, <1>5, <1>6, <1>7, ExchangeLocalStep
       DEF XchgActive
-----------------------------------------------------------------------------
(* What happens around the requests *)

(* The passing of time keeps it. *)
LEMMA TickInv == ASSUME IInv, Tick PROVE IInv'
  <1> USE DEF IInv
  <1>1. UNCHANGED <<clients, codes, refreshTokens, authz, xchg>>
    BY DEF Tick
  <1>2. life \in [Codes -> -1 .. CodeTTL] /\ CodeTTL \in Nat
    BY ConstantsAssumption DEF TypeOK
  <1>3. /\ life' \in [Codes -> -1 .. CodeTTL]
        /\ \A c \in Codes : life[c] < 0 => life'[c] < 0
    BY <1>2 DEF Tick
  <1>4. TypeOK'
    BY <1>1, <1>3 DEF TypeOK
  <1>5. /\ AuthorizeInv' /\ StoreInv' /\ ExchangeInv' /\ GrantInv'
        /\ DeletedInv' /\ AfterInv' /\ RowsInv'
    BY <1>1 DEF AuthorizeInv, StoreInv, ExchangeInv, GrantInv, DeletedInv, AfterInv, RowsInv
  <1>6. LateInv'
    BY <1>1, <1>3, NoneAssumption DEF TypeOK, Exchange, LateInv, Expired
  <1>7. QED
    BY <1>4, <1>5, <1>6

(* The expiry of a key in Redis keeps it. *)
LEMMA ExpireKeyInv ==
  ASSUME IInv, NEW c \in Codes, ExpireKey(c) PROVE IInv'
  <1> USE DEF IInv
  <1>1. /\ codes' = [codes EXCEPT ![c] = None]
        /\ UNCHANGED <<clients, life, refreshTokens, authz, xchg>>
    BY DEF ExpireKey
  <1>2. TypeOK' /\ StoreInv'
    BY <1>1 DEF TypeOK, StoreInv
  <1>3. DeletedInv'
    BY <1>1, NoneAssumption DEF TypeOK, Exchange, GrantInv, DeletedInv
  <1>4. AuthorizeInv' /\ ExchangeInv' /\ GrantInv' /\ AfterInv' /\ LateInv' /\ RowsInv'
    BY <1>1 DEF AuthorizeInv, ExchangeInv, GrantInv, AfterInv, LateInv, RowsInv, Expired
  <1>5. QED
    BY <1>2, <1>3, <1>4

(* What a crash makes of the record of a request. *)
LostAuthorize(r) == IF r.pc \in AuthzActive THEN [r EXCEPT !.pc = "lost", !.uris = {}] ELSE r
LostExchange(r) == IF r.pc \in XchgActive THEN [r EXCEPT !.pc = "lost"] ELSE r

(* A crash loses what a request was doing, not what it had done. *)
LEMMA LostAuthorizeSound ==
  ASSUME NEW r \in Authorize, SoundAuthorize(r)
  PROVE  /\ LostAuthorize(r) \in Authorize /\ SoundAuthorize(LostAuthorize(r))
         /\ LostAuthorize(r).drawn = r.drawn
         /\ r.drawn => LostAuthorize(r) = r
  BY DEF Authorize, AuthzActive, AuthzEnded, SoundAuthorize, LostAuthorize

(* The same of a request to /token. *)
LEMMA LostExchangeSound ==
  ASSUME NEW r \in Exchange, SoundExchange(r)
  PROVE  /\ LostExchange(r) \in Exchange /\ SoundExchange(LostExchange(r))
         /\ LostExchange(r).got = r.got /\ LostExchange(r).code = r.code
         /\ LostExchange(r).deleted = r.deleted /\ LostExchange(r).late = r.late
         /\ LostExchange(r).after = r.after
         /\ r.pc \in XchgEnded => LostExchange(r).pc \in XchgEnded
         /\ r.pc \in {"respond", "done", "failed", "lost"} =>
               LostExchange(r).pc \in {"respond", "done", "failed", "lost"}
  BY DEF Exchange, XchgActive, XchgEnded, SoundExchange, LostExchange

(* A crash keeps it. *)
LEMMA CrashInv == ASSUME IInv, Crash PROVE IInv'
  <1> USE DEF IInv
  <1>1. UNCHANGED <<clients, life, refreshTokens>>
    BY DEF Crash
  <1>2. /\ codes' \in [Codes -> AuthCode \cup {None}]
        /\ \A c \in Codes : codes'[c] # None => codes'[c] = codes[c]
    BY DEF Crash, TypeOK
  <1>3. authz' = [a \in Authorizers |-> LostAuthorize(authz[a])]
    BY DEF Crash, LostAuthorize
  <1>4. xchg' = [x \in Exchangers |-> LostExchange(xchg[x])]
    BY DEF Crash, LostExchange
  <1>5. \A a \in Authorizers :
           /\ authz'[a] \in Authorize /\ SoundAuthorize(authz'[a])
           /\ authz[a].drawn => authz'[a] = authz[a]
    BY <1>3, LostAuthorizeSound DEF TypeOK, AuthorizeInv
  <1>6. \A x \in Exchangers :
           /\ xchg[x] \in Exchange
           /\ xchg'[x] \in Exchange /\ SoundExchange(xchg'[x])
           /\ xchg'[x].got = xchg[x].got /\ xchg'[x].code = xchg[x].code
           /\ xchg'[x].deleted = xchg[x].deleted /\ xchg'[x].late = xchg[x].late
           /\ xchg'[x].after = xchg[x].after
           /\ xchg[x].pc \in XchgEnded => xchg'[x].pc \in XchgEnded
           /\ xchg[x].pc \in {"respond", "done", "failed", "lost"} =>
                 xchg'[x].pc \in {"respond", "done", "failed", "lost"}
    BY <1>4, LostExchangeSound DEF TypeOK, ExchangeInv
  <1>7. TypeOK'
    BY <1>1, <1>2, <1>3, <1>4, <1>5, <1>6 DEF TypeOK
  <1>8. AuthorizeInv' /\ ExchangeInv'
    BY <1>5, <1>6 DEF AuthorizeInv, ExchangeInv
  <1>9. StoreInv'
    BY <1>2, <1>5 DEF StoreInv
  <1>10. GrantInv'
    BY <1>5, <1>6, NoneAssumption DEF Exchange, GrantInv
  <1>11. DeletedInv'
    BY <1>2, <1>6, NoneAssumption DEF Exchange, DeletedInv, GrantInv
  <1>12. AfterInv'
    BY <1>6 DEF Exchange, AfterInv
  <1>13. LateInv' /\ RowsInv'
    BY <1>1, <1>6 DEF TypeOK, RefreshToken, LateInv, Expired, RowsInv
  <1>14. QED
    BY <1>7, <1>8, <1>9, <1>10, <1>11, <1>12, <1>13

(* A client that is there with lists of its kinds is a client. *)
LEMMA BecomesClient ==
  ASSUME NEW k, NEW uris \in SUBSET URIs, NEW scopes \in SUBSET Scopes,
         Table!Becomes(k, uris, scopes)
  PROVE  \E c \in Table!Client : clients' = [clients EXCEPT ![k] = c]
  <1> DEFINE c == [registered |-> TRUE, uris |-> uris, scopes |-> scopes]
  <1>1. c \in Table!Client
    BY DEF Table!Client
  <1>2. clients' = [clients EXCEPT ![k] = c]
    BY DEF Table!Becomes
  <1> HIDE DEF c
  <1> QED
    BY <1>1, <1>2

(* An edit of the client tables keeps it. *)
LEMMA AdminStepInv ==
  ASSUME IInv, NEW k \in ClientIDs, AdminStep(k) PROVE IInv'
  <1> USE DEF IInv
  <1>1. UNCHANGED <<codes, life, authz, xchg>> /\ refreshTokens' \subseteq refreshTokens
    BY DEF AdminStep, InsertClient, ReplaceLists, DeleteClient
  <1>2. clients \in [ClientIDs -> Table!Client] /\ clients[k] \in Table!Client
    BY DEF TypeOK
  <1>3. PICK c \in Table!Client : clients' = [clients EXCEPT ![k] = c]
    <2>1. CASE InsertClient(k)
      BY <2>1, BecomesClient DEF InsertClient, Table!Insert
    <2>2. CASE ReplaceLists(k) /\ Table!ReplaceURIs(k)
      BY <1>2, <2>2, BecomesClient DEF Table!ReplaceURIs, Table!Client
    <2>3. CASE ReplaceLists(k) /\ Table!ReplaceScopes(k)
      BY <1>2, <2>3, BecomesClient DEF Table!ReplaceScopes, Table!Client
    <2>4. CASE DeleteClient(k)
      BY <1>2, <2>4 DEF DeleteClient, Table!Delete, Table!Gone, Table!Client
    <2>5. QED
      BY <2>1, <2>2, <2>3, <2>4 DEF AdminStep, ReplaceLists
  <1>4. \A r \in refreshTokens' : clients'[r.client].registered
    <2>1. CASE DeleteClient(k)
      BY <2>1, <1>2 DEF DeleteClient, Table!Delete, TypeOK, RefreshToken, RowsInv
    <2>2. CASE InsertClient(k) \/ ReplaceLists(k)
      <3>1. refreshTokens' = refreshTokens /\ \A j \in ClientIDs :
               clients[j].registered => clients'[j].registered
        BY <2>2, <1>2 DEF InsertClient, ReplaceLists, Table!Insert, Table!ReplaceURIs,
                          Table!ReplaceScopes, Table!Becomes, Table!Client
      <3>2. QED
        BY <3>1 DEF TypeOK, RefreshToken, RowsInv
    <2>3. QED
      BY <2>1, <2>2 DEF AdminStep
  <1>5. TypeOK'
    BY <1>1, <1>3 DEF TypeOK
  <1>6. /\ AuthorizeInv' /\ StoreInv' /\ ExchangeInv' /\ GrantInv'
        /\ DeletedInv' /\ AfterInv' /\ LateInv'
    BY <1>1 DEF AuthorizeInv, StoreInv, ExchangeInv, GrantInv, DeletedInv, AfterInv,
                LateInv, Expired
  <1>7. RowsInv'
    BY <1>1, <1>4 DEF RowsInv
  <1>8. QED
    BY <1>5, <1>6, <1>7
-----------------------------------------------------------------------------
(* The invariant holds before and after a stuttering step. *)
LEMMA StutterInv == ASSUME IInv, UNCHANGED vars PROVE IInv'
  BY DEF vars, IInv, TypeOK, AuthorizeInv, StoreInv, ExchangeInv, GrantInv,
         DeletedInv, AfterInv, LateInv, RowsInv, Expired

(* Every step keeps the invariant. *)
LEMMA NextInv == ASSUME IInv, [Next]_vars PROVE IInv'
  <1>1. ASSUME NEW a \in Authorizers, BeginAuthorize(a) \/ AuthorizeStep(a) PROVE IInv'
    BY <1>1, BeginAuthorizeInv, ReadClientInv, ReadURIsInv, ReadScopesInv, SaveInv
       DEF AuthorizeStep
  <1>2. ASSUME NEW x \in Exchangers, BeginExchange(x) \/ ExchangeStep(x) PROVE IInv'
    BY <1>2, BeginExchangeInv, GetCodeInv, DeleteCodeInv, CheckClientInv,
       PersistRefreshTokenInv, RespondInv DEF ExchangeStep
  <1>3. QED
    BY <1>1, <1>2, AdminStepInv, ExpireKeyInv, TickInv, CrashInv, StutterInv DEF Next

(* The invariant holds initially and is kept by every step. *)
THEOREM Invariance == Spec => []IInv
  <1>1. IInv /\ [Next]_vars => IInv'
    BY NextInv
  <1>2. QED
    BY InitInv, <1>1, PTL DEF Spec
-----------------------------------------------------------------------------
(* What the invariant gives *)

(* Every variable keeps its type, whatever the number of requests. *)
THEOREM TypeCorrect == Spec => []TypeOK
  BY Invariance, PTL DEF IInv

(***************************************************************************)
(* Tokens are issued for what was authorized: PKCE, client and redirect    *)
(* URI checks together bind an exchange to the request that drew its code. *)
(* (oauth_service.go:191-217, 220-248)                                     *)
(***************************************************************************)
THEOREM GrantSafety == Spec => []TokensMatchGrant
  <1>1. IInv => TokensMatchGrant
    <2> SUFFICES ASSUME IInv, NEW x \in Exchangers, xchg[x].minted
                 PROVE  LET grant == authz[xchg[x].code]
                            p == xchg[x].in
                            got == xchg[x].got
                        IN /\ grant.drawn /\ got = AuthCodeOf(grant)
                           /\ p.client # None => p.client = got.client
                           /\ p.redirect # None => p.redirect = grant.redirect
                           /\ got.challenge # None /\ got.method = "S256" =>
                                  p.verifier # None /\ got.challenge = Hash(p.verifier)
                           /\ got.challenge # None /\ got.method # "S256" =>
                                  p.verifier = got.challenge
      BY DEF TokensMatchGrant
    <2>1. /\ xchg[x].got # None
          /\ ClientMatches(xchg[x].in, xchg[x].got)
          /\ RedirectMatches(xchg[x].in, xchg[x].got)
          /\ PKCEVerified(xchg[x].in, xchg[x].got)
      BY DEF IInv, ExchangeInv, SoundExchange
    <2>2. authz[xchg[x].code].drawn /\ xchg[x].got = AuthCodeOf(authz[xchg[x].code])
      BY <2>1 DEF IInv, GrantInv
    <2>3. xchg[x].got.redirect = authz[xchg[x].code].redirect
      BY <2>2 DEF AuthCodeOf
    <2>4. /\ xchg[x].in.client # None => xchg[x].in.client = xchg[x].got.client
          /\ xchg[x].in.redirect # None => xchg[x].in.redirect = xchg[x].got.redirect
      BY <2>1 DEF ClientMatches, RedirectMatches
    <2>5. xchg[x].got.challenge # None =>
             /\ xchg[x].in.verifier # None
             /\ \/ xchg[x].got.method = "S256"
                   /\ Hash(xchg[x].in.verifier) = xchg[x].got.challenge
                \/ xchg[x].got.method # "S256"
                   /\ xchg[x].in.verifier = xchg[x].got.challenge
      BY <2>1 DEF PKCEVerified, verifyCodeChallenge
    <2>6. QED
      BY <2>2, <2>3, <2>4, <2>5
  <1>2. QED
    BY Invariance, <1>1, PTL

(***************************************************************************)
(* An acknowledged Delete makes every later exchange of the code fail, for *)
(* any number of exchanges.  (oauth_service.go:174-180)                    *)
(***************************************************************************)
THEOREM SequentialReuse == Spec => []SequentialReuseRejected
  <1>1. IInv => SequentialReuseRejected
    BY DEF IInv, AfterInv, SequentialReuseRejected
  <1>2. QED
    BY Invariance, <1>1, PTL

(***************************************************************************)
(* An exchange that begins after ExpiresAt reads nothing, however late the *)
(* store drops the key.  (auth_code_repository.go:87-90, 141-143)          *)
(***************************************************************************)
THEOREM ExpiredCodes == Spec => []ExpiredCodeNeverRead
  <1>1. IInv => ExpiredCodeNeverRead
    BY DEF IInv, LateInv, ExpiredCodeNeverRead
  <1>2. QED
    BY Invariance, <1>1, PTL

(***************************************************************************)
(* No refresh token outlives its client or names a user that is not        *)
(* stored, wherever the client tables are edited during the exchange.      *)
(* (oauth_service.go:197-200, 324)                                         *)
(***************************************************************************)
THEOREM NoOrphans == Spec => []NoOrphanRefreshTokens
  <1>1. IInv => NoOrphanRefreshTokens
    BY DEF IInv, RowsInv, NoOrphanRefreshTokens
  <1>2. QED
    BY Invariance, <1>1, PTL
-----------------------------------------------------------------------------
(* The service implements the lifecycle of a code *)

(***************************************************************************)
(* A step that draws no code, puts none into the store, and gives no       *)
(* exchange a code or tokens retires the codes it takes out, if any.       *)
(***************************************************************************)
LEMMA RetireStep ==
  ASSUME IInv,
         codes' \in [Codes -> AuthCode \cup {None}],
         \A c \in Codes : codes'[c] \in {codes[c], None},
         \A c \in Codes : authz'[c].drawn = authz[c].drawn,
         \A x \in Exchangers : ClaimOf(x)' = ClaimOf(x),
         \A x \in Exchangers : xchg'[x].minted = xchg[x].minted
  PROVE  Lifecycle!Next
  <1> DEFINE S == {c \in Codes : codes[c] # None /\ codes'[c] = None}
             P == [c \in Codes |-> PhaseOf(c)]
  <1>1. [x \in Exchangers |-> ClaimOf(x)]' = [x \in Exchangers |-> ClaimOf(x)]
    OBVIOUS
  <1>2. {x \in Exchangers : xchg[x].minted}' = {x \in Exchangers : xchg[x].minted}
    OBVIOUS
  <1>3. \A c \in S : PhaseOf(c) # "gone"
    BY DEF PhaseOf
  <1>4. \A c \in Codes : PhaseOf(c)' = IF c \in S THEN "gone" ELSE PhaseOf(c)
    BY DEF PhaseOf, Drawn, IInv, StoreInv
  <1>5. Lifecycle!Retire(S)
    BY <1>1, <1>2, <1>3, <1>4 DEF Lifecycle!Retire
  <1>6. QED
    BY <1>5 DEF Lifecycle!Next

(* A step of /authorize issues a code, retires one it could not save, or   *)
(* does nothing the lifecycle shows.                                       *)
LEMMA AuthorizeRefines ==
  ASSUME IInv, NEW a \in Authorizers, BeginAuthorize(a) \/ AuthorizeStep(a)
  PROVE  Lifecycle!Next
  <1>1. UNCHANGED xchg
    BY DEF BeginAuthorize, AuthorizeStep, ReadClient, ReadURIs, ReadScopes, Save
  <1>2. /\ \A x \in Exchangers : ClaimOf(x)' = ClaimOf(x)
        /\ \A x \in Exchangers : xchg'[x].minted = xchg[x].minted
    BY <1>1 DEF ClaimOf
  <1>3. CASE Save(a)
    <2>1. /\ authz[a].pc = "save" /\ ~authz[a].drawn /\ codes[a] = None
      BY <1>3 DEF Save, IInv, AuthorizeInv, SoundAuthorize, StoreInv
    <2>2. PhaseOf(a) = "fresh"
      BY <2>1 DEF PhaseOf, Drawn
    <2>3. PICK pc \in {"issued", "failed"} :
            authz' = [authz EXCEPT ![a] = [@ EXCEPT !.pc = pc, !.drawn = TRUE]]
      BY <1>3 DEF Save
    <2>4. /\ authz'[a].drawn
          /\ \A c \in Codes : c # a => authz'[c].drawn = authz[c].drawn
      BY <2>3 DEF IInv, TypeOK, Authorize
    <2>5. AuthCodeOf(authz[a]) # None
      <3>1. AuthCodeOf(authz[a]) \in AuthCode
        BY <2>1, ClientOfType
           DEF IInv, TypeOK, Authorize, AuthorizeInv, SoundAuthorize, AuthCodeOf,
               AuthCode, AuthorizeRequest
      <3>2. QED
        BY <3>1, NoneAssumption
    <2>6. CASE codes' = [codes EXCEPT ![a] = AuthCodeOf(authz[a])]
      <3>1. \A c \in Codes : PhaseOf(c)' = IF c = a THEN "live" ELSE PhaseOf(c)
        BY <2>4, <2>5, <2>6 DEF PhaseOf, Drawn, IInv, TypeOK
      <3>2. Lifecycle!Issue(a)
        BY <1>2, <2>2, <3>1 DEF Lifecycle!Issue
      <3>3. QED
        BY <3>2 DEF Lifecycle!Next
    <2>7. CASE codes' = codes
      <3>1. \A c \in Codes : PhaseOf(c)' = IF c \in {a} THEN "gone" ELSE PhaseOf(c)
        BY <2>1, <2>4, <2>7 DEF PhaseOf, Drawn
      <3>2. Lifecycle!Retire({a})
        BY <1>2, <2>2, <3>1 DEF Lifecycle!Retire
      <3>3. QED
        BY <3>2 DEF Lifecycle!Next
    <2>8. QED
      BY <1>3, <2>6, <2>7 DEF Save
  <1>4. CASE ~Save(a)
    <2>1. UNCHANGED codes
      BY <1>4 DEF BeginAuthorize, AuthorizeStep, ReadClient, ReadURIs, ReadScopes
    <2>2. \A c \in Codes : authz'[c].drawn = authz[c].drawn
      <3>1. CASE BeginAuthorize(a)
        <4>1. PICK p \in AuthorizeInputs, u \in Users :
                authz' = [authz EXCEPT ![a] = [@ EXCEPT !.pc = "client", !.in = p, !.user = u]]
          BY <3>1 DEF BeginAuthorize
        <4>2. QED
          BY <4>1 DEF IInv, TypeOK, Authorize
      <3>2. CASE ReadClient(a)
        BY <3>2 DEF ReadClient, AuthzFails, IInv, TypeOK, Authorize
      <3>3. CASE ReadURIs(a)
        <4>1. CASE AuthzFails(a)
          BY <4>1 DEF AuthzFails, IInv, TypeOK, Authorize
        <4>2. CASE ~AuthzFails(a)
          <5>1. PICK S \in SUBSET clients[ClientOf(authz[a].in)].uris :
                  authz' = [authz EXCEPT ![a] = [@ EXCEPT !.pc = "scopes", !.uris = S]]
            BY <3>3, <4>2 DEF ReadURIs
          <5>2. QED
            BY <5>1 DEF IInv, TypeOK, Authorize
        <4>3. QED
          BY <4>1, <4>2
      <3>4. CASE ReadScopes(a)
        <4>1. CASE authz' = [authz EXCEPT ![a] = [@ EXCEPT !.pc = "failed", !.uris = {}]]
          BY <4>1 DEF IInv, TypeOK, Authorize
        <4>2. CASE ~(authz' = [authz EXCEPT ![a] = [@ EXCEPT !.pc = "failed", !.uris = {}]])
          <5> DEFINE uri == RedirectOf(authz[a].in, authz[a].uris)
          <5>1. authz' = [authz EXCEPT ![a] =
                            [@ EXCEPT !.pc = "save", !.uris = {}, !.redirect = uri]]
            BY <3>4, <4>2 DEF ReadScopes
          <5> HIDE DEF uri
          <5>2. QED
            BY <5>1 DEF IInv, TypeOK, Authorize
        <4>3. QED
          BY <4>1, <4>2
      <3>5. QED
        BY <1>4, <3>1, <3>2, <3>3, <3>4 DEF AuthorizeStep
    <2>3. QED
      BY <1>2, <2>1, <2>2, RetireStep DEF IInv, TypeOK
  <1>5. QED
    BY <1>3, <1>4

(* A step of /token claims a code, redeems a claim, or retires what it     *)
(* takes out of the store.                                                 *)
LEMMA ExchangeRefines ==
  ASSUME IInv, NEW x \in Exchangers, BeginExchange(x) \/ ExchangeStep(x)
  PROVE  Lifecycle!Next
  <1> USE DEF IInv
  <1>1. UNCHANGED authz
    BY DEF BeginExchange, ExchangeStep, GetCode, DeleteCode, CheckClient,
           PersistRefreshToken, Respond
  <1>2. \A c \in Codes : authz'[c].drawn = authz[c].drawn
    BY <1>1
  <1>3. codes \in [Codes -> AuthCode \cup {None}] /\ xchg \in [Exchangers -> Exchange]
    BY DEF TypeOK
  <1>4. /\ codes' \in [Codes -> AuthCode \cup {None}]
        /\ \A c \in Codes : codes'[c] \in {codes[c], None}
    BY <1>3 DEF BeginExchange, ExchangeStep, GetCode, DeleteCode, CheckClient,
           PersistRefreshToken, Respond
  <1>5. ASSUME \A y \in Exchangers : ClaimOf(y)' = ClaimOf(y),
               \A y \in Exchangers : xchg'[y].minted = xchg[y].minted
        PROVE  Lifecycle!Next
    BY <1>2, <1>4, <1>5, RetireStep
  <1>6. ASSUME NEW r \in Exchange, xchg' = [xchg EXCEPT ![x] = r],
               r.got = xchg[x].got, r.minted = xchg[x].minted,
               r.got = None \/ r.code = xchg[x].code
        PROVE  Lifecycle!Next
    BY <1>3, <1>5, <1>6 DEF ClaimOf
  <1>7. CASE BeginExchange(x)
    <2>1. /\ xchg[x].got = None
          /\ xchg'[x].got = None /\ xchg'[x].minted = xchg[x].minted
          /\ \A y \in Exchangers : y # x => xchg'[y] = xchg[y]
      <3>1. PICK p \in TokenInputs, c \in Codes \cup {None},
                 pc \in {"get", "failed"}, err \in Errors \cup {None} :
              /\ pc = "get" => c # None
              /\ xchg' = [xchg EXCEPT ![x] =
                    [@ EXCEPT !.pc = pc, !.in = p, !.code = c, !.err = err,
                              !.after = Ended, !.late = Late(c)]]
        BY <1>7, BeginExchangeShape
      <3>2. xchg[x].got = None
        BY <1>7 DEF BeginExchange, ExchangeInv, SoundExchange
      <3>3. QED
        BY <1>3, <3>1, <3>2 DEF Exchange
    <2>2. QED
      BY <1>5, <2>1 DEF ClaimOf
  <1>8. CASE GetCode(x)
    <2>1. CASE XchgFails(x, "invalid_grant")
      BY <1>3, <1>5, <2>1 DEF XchgFails, Exchange, ClaimOf
    <2>2. CASE /\ codes[xchg[x].code] # None
               /\ xchg' = [xchg EXCEPT ![x] =
                             [@ EXCEPT !.pc = "delete", !.got = codes[xchg[x].code]]]
               /\ UNCHANGED codes
      <3>1. xchg[x].code \in Codes /\ xchg[x].got = None
        BY <1>8, ActiveExchange DEF GetCode, XchgActive, SoundExchange
      <3>2. /\ ClaimOf(x) = None /\ ClaimOf(x)' = xchg[x].code
            /\ \A y \in Exchangers : y # x => ClaimOf(y)' = ClaimOf(y)
            /\ \A y \in Exchangers : xchg'[y].minted = xchg[y].minted
        BY <1>3, <2>2, <3>1 DEF ClaimOf, Exchange
      <3>3. \A c \in Codes : PhaseOf(c)' = PhaseOf(c)
        BY <1>1, <2>2 DEF PhaseOf, Drawn
      <3>4. PhaseOf(xchg[x].code) = "live"
        BY <2>2 DEF PhaseOf
      <3>5. Lifecycle!Claim(x, xchg[x].code)
        BY <3>1, <3>2, <3>3, <3>4 DEF Lifecycle!Claim
      <3>6. QED
        BY <3>1, <3>5 DEF Lifecycle!Next
    <2>3. QED
      BY <1>8, <2>1, <2>2 DEF GetCode
  <1>9. CASE DeleteCode(x)
    <2> DEFINE ok == ~Expired(xchg[x].code) /\ ClientMatches(xchg[x].in, xchg[x].got)
               pc == IF ok THEN "client" ELSE "failed"
               err == IF ok THEN None ELSE "invalid_grant"
    <2>1. PICK deleted \in BOOLEAN :
            xchg' = [xchg EXCEPT ![x] =
              [@ EXCEPT !.deleted = deleted, !.pc = pc, !.err = err]]
      BY <1>9 DEF DeleteCode
    <2> HIDE DEF pc, err
    <2>2. \A y \in Exchangers :
             /\ xchg'[y].got = xchg[y].got /\ xchg'[y].code = xchg[y].code
             /\ xchg'[y].minted = xchg[y].minted
      BY <1>3, <2>1 DEF Exchange
    <2>3. QED
      BY <1>5, <2>2 DEF ClaimOf
  <1>10. CASE CheckClient(x)
    <2>1. PICK r \in {[xchg[x] EXCEPT !.pc = "persist"],
                      [xchg[x] EXCEPT !.pc = "failed", !.err = "invalid_grant"],
                      [xchg[x] EXCEPT !.pc = "failed", !.err = "invalid_client"],
                      [xchg[x] EXCEPT !.pc = "failed", !.err = "internal"]} :
            xchg' = [xchg EXCEPT ![x] = r]
      BY <1>10 DEF CheckClient, XchgFails
    <2>2. r.got = xchg[x].got /\ r.code = xchg[x].code /\ r.minted = xchg[x].minted
      BY <1>3 DEF Exchange
    <2>3. QED
      BY <1>3, <1>5, <2>1, <2>2 DEF ClaimOf
  <1>11. CASE Respond(x)
    BY <1>3, <1>5, <1>11 DEF Respond, Exchange, ClaimOf
  <1>12. CASE PersistRefreshToken(x)
    <2>1. CASE XchgFails(x, "internal")
      BY <1>3, <1>5, <2>1 DEF XchgFails, Exchange, ClaimOf
    <2>2. CASE xchg' = [xchg EXCEPT ![x] = [@ EXCEPT !.pc = "respond", !.minted = TRUE]]
      <3>1. /\ xchg[x].got # None /\ ~xchg[x].minted /\ xchg[x].code \in Codes
        BY <1>12, ActiveExchange DEF PersistRefreshToken, XchgActive, SoundExchange
      <3>2. /\ \A y \in Exchangers : ClaimOf(y)' = ClaimOf(y)
            /\ xchg'[x].minted
            /\ \A y \in Exchangers : y # x => xchg'[y].minted = xchg[y].minted
        BY <1>3, <2>2 DEF ClaimOf, Exchange
      <3>3. \A c \in Codes : PhaseOf(c)' = PhaseOf(c)
        BY <1>1, <1>12 DEF PersistRefreshToken, PhaseOf, Drawn
      <3>4. ClaimOf(x) # None
        BY <3>1, NoneAssumption DEF ClaimOf
      <3>5. Lifecycle!Redeem(x)
        BY <3>1, <3>2, <3>3, <3>4 DEF Lifecycle!Redeem
      <3>6. QED
        BY <3>5 DEF Lifecycle!Next
    <2>3. QED
      BY <1>12, <2>1, <2>2 DEF PersistRefreshToken
  <1>13. QED
    BY <1>7, <1>8, <1>9, <1>10, <1>11, <1>12 DEF ExchangeStep

(***************************************************************************)
(* The code store, its clock and the requests implement the lifecycle of a *)
(* code: drawn once, live once, never back once gone, claimed only while   *)
(* live, and redeemed at most once per claim.                              *)
(* (oauth_service.go:128-145, 173-188, 321-336)                            *)
(***************************************************************************)
THEOREM Refinement == Spec => LifecycleSpec
  <1>1. Init => Lifecycle!Init
    BY DEF Init, Lifecycle!Init, PhaseOf, Drawn, ClaimOf
  <1>2. ASSUME IInv, Next PROVE Lifecycle!Next
    <2>1. ASSUME NEW a \in Authorizers, BeginAuthorize(a) \/ AuthorizeStep(a)
          PROVE  Lifecycle!Next
      BY <1>2, <2>1, AuthorizeRefines
    <2>2. ASSUME NEW x \in Exchangers, BeginExchange(x) \/ ExchangeStep(x)
          PROVE  Lifecycle!Next
      BY <1>2, <2>2, ExchangeRefines
    <2>3. ASSUME NEW k \in ClientIDs, AdminStep(k) PROVE Lifecycle!Next
      BY <1>2, <2>3, RetireStep
         DEF AdminStep, InsertClient, ReplaceLists, DeleteClient,
             IInv, TypeOK, ClaimOf
    <2>4. ASSUME NEW c \in Codes, ExpireKey(c) PROVE Lifecycle!Next
      BY <1>2, <2>4, RetireStep DEF ExpireKey, IInv, TypeOK, ClaimOf
    <2>5. CASE Tick
      BY <1>2, <2>5, RetireStep DEF Tick, IInv, TypeOK, ClaimOf
    <2>6. CASE Crash
      <3>1. /\ codes' \in [Codes -> AuthCode \cup {None}]
            /\ \A c \in Codes : codes'[c] \in {codes[c], None}
        BY <1>2, <2>6 DEF Crash, IInv, TypeOK
      <3>2. \A a \in Authorizers : authz'[a] = LostAuthorize(authz[a])
        BY <2>6 DEF Crash, LostAuthorize
      <3>3. \A a \in Authorizers : authz'[a].drawn = authz[a].drawn
        BY <1>2, <3>2, LostAuthorizeSound DEF IInv, TypeOK, AuthorizeInv
      <3>4. \A x \in Exchangers : xchg'[x] = LostExchange(xchg[x])
        BY <2>6 DEF Crash, LostExchange
      <3>5. \A x \in Exchangers :
               /\ xchg'[x].got = xchg[x].got /\ xchg'[x].code = xchg[x].code
               /\ xchg'[x].minted = xchg[x].minted
        BY <1>2, <3>4 DEF IInv, TypeOK, Exchange, LostExchange
      <3>6. QED
        BY <1>2, <3>1, <3>3, <3>5, RetireStep DEF ClaimOf
    <2>7. QED
      BY <1>2, <2>1, <2>2, <2>3, <2>4, <2>5, <2>6 DEF Next
  <1>3. UNCHANGED vars => UNCHANGED Lifecycle!vars
    BY DEF vars, Lifecycle!vars, PhaseOf, Drawn, ClaimOf
  <1>4. IInv /\ [Next]_vars => [Lifecycle!Next]_(Lifecycle!vars)
    BY <1>2, <1>3
  <1>5. QED
    BY Invariance, <1>1, <1>4, PTL DEF Spec, LifecycleSpec, Lifecycle!Spec

(***************************************************************************)
(* What LifecycleSpec says of the store itself: a code that has left it,   *)
(* by a Delete, by its TTL or with the process, does not come back.  Only  *)
(* Save stores a code, and the request that draws a code saves it once.    *)
(* (auth_code_repository.go:42-64, 96-107)                                 *)
(***************************************************************************)
CodeNeverReturns ==
    [][\A c \in Codes : Drawn(c) /\ codes[c] = None => codes'[c] = None]_vars

(* Every reachable step leaves such a code where it is. *)
THEOREM NoReturn == Spec => CodeNeverReturns
  <1>1. ASSUME IInv, [Next]_vars, NEW c \in Codes, Drawn(c), codes[c] = None
        PROVE  codes'[c] = None
    <2>1. ASSUME NEW a \in Authorizers, BeginAuthorize(a) \/ AuthorizeStep(a)
          PROVE  codes'[c] = None
      <3>1. CASE Save(a)
        <4>1. c # a
          BY <1>1, <3>1 DEF Save, Drawn, IInv, AuthorizeInv, SoundAuthorize
        <4>2. QED
          BY <1>1, <3>1, <4>1 DEF Save, IInv, TypeOK
      <3>2. QED
        BY <1>1, <2>1, <3>1
           DEF BeginAuthorize, AuthorizeStep, ReadClient, ReadURIs, ReadScopes
    <2>2. ASSUME NEW x \in Exchangers, BeginExchange(x) \/ ExchangeStep(x)
          PROVE  codes'[c] = None
      BY <1>1, <2>2
         DEF BeginExchange, ExchangeStep, GetCode, DeleteCode, CheckClient,
             PersistRefreshToken, Respond, IInv, TypeOK
    <2>3. QED
      BY <1>1, <2>1, <2>2
         DEF Next, AdminStep, InsertClient, ReplaceLists, DeleteClient,
             ExpireKey, Tick, Crash, vars, IInv, TypeOK
  <1>2. IInv /\ [Next]_vars =>
          (\A c \in Codes : Drawn(c) /\ codes[c] = None => codes'[c] = None)
    BY <1>1
  <1>3. QED
    BY Invariance, <1>2, PTL DEF Spec, CodeNeverReturns
-----------------------------------------------------------------------------
(***************************************************************************)
(* When a code is used up, and why a refresh token cannot be stored.       *)
(***************************************************************************)

(* An exchange that has come past the Delete has had it acknowledged. *)
Acknowledged(r) ==
    \/ r.pc \in {"client", "persist", "respond", "done"} \/ r.minted
    \/ r.pc = "failed" /\ r.got # None
    => r.deleted

AckInv == \A x \in Exchangers : Acknowledged(xchg[x])

LEMMA ExchangeAcknowledged ==
  ASSUME IInv, AckInv, ~StoreFaulty, NEW x \in Exchangers, ExchangeStep(x)
  PROVE  AckInv'
  <1> DEFINE q == xchg[x]
  <1>1. xchg \in [Exchangers -> Exchange] /\ q \in Exchange /\ Acknowledged(q)
    BY DEF IInv, TypeOK, AckInv
  <1>2. SUFFICES ASSUME NEW r, xchg' = [xchg EXCEPT ![x] = r], Acknowledged(r)
                 PROVE  AckInv'
    <2>1. ASSUME NEW pc
          PROVE  /\ [q EXCEPT !.pc = pc].pc = pc /\ [q EXCEPT !.pc = pc].got = q.got
                 /\ [q EXCEPT !.pc = pc].minted = q.minted
                 /\ [q EXCEPT !.pc = pc].deleted = q.deleted
      BY <1>1 DEF Exchange
    <2>2. ASSUME NEW pc, NEW err
          PROVE  LET r == [q EXCEPT !.pc = pc, !.err = err]
                 IN  /\ r.pc = pc /\ r.got = q.got /\ r.minted = q.minted
                     /\ r.deleted = q.deleted
      BY <1>1 DEF Exchange
    <2>3. CASE GetCode(x)
      <3>1. q.got = None /\ ~q.minted
        BY <2>3, ActiveExchange DEF GetCode, XchgActive, SoundExchange
      <3>2. CASE XchgFails(x, "invalid_grant")
        <4> DEFINE r == [q EXCEPT !.pc = "failed", !.err = "invalid_grant"]
        <4>1. r.got = None /\ ~r.minted /\ r.pc = "failed"
          BY <2>2, <3>1
        <4>2. xchg' = [xchg EXCEPT ![x] = r]
          BY <3>2 DEF XchgFails
        <4> HIDE DEF r
        <4> QED
          BY <1>2, <4>1, <4>2 DEF Acknowledged
      <3>3. CASE xchg' = [xchg EXCEPT ![x] = [@ EXCEPT !.pc = "delete", !.got = codes[q.code]]]
        <4> DEFINE r == [q EXCEPT !.pc = "delete", !.got = codes[q.code]]
        <4>1. ~r.minted /\ r.pc = "delete"
          BY <1>1, <3>1 DEF Exchange
        <4>2. xchg' = [xchg EXCEPT ![x] = r]
          BY <3>3
        <4> HIDE DEF r
        <4> QED
          BY <1>2, <4>1, <4>2 DEF Acknowledged
      <3> QED
        BY <2>3, <3>2, <3>3 DEF GetCode
    <2>4. CASE DeleteCode(x)
      <3>1. PICK pc \in {"client", "failed"}, err \in {"invalid_grant", None} :
              xchg' = [xchg EXCEPT ![x] =
                        [@ EXCEPT !.deleted = TRUE, !.pc = pc, !.err = err]]
        <4> DEFINE ok == ~Expired(q.code) /\ ClientMatches(q.in, q.got)
        <4>1. CASE ok
          BY <2>4, <4>1 DEF DeleteCode
        <4>2. CASE ~ok
          BY <2>4, <4>2 DEF DeleteCode
        <4> QED
          BY <4>1, <4>2
      <3> DEFINE r == [q EXCEPT !.deleted = TRUE, !.pc = pc, !.err = err]
      <3>2. r.deleted
        BY <1>1 DEF Exchange
      <3>3. xchg' = [xchg EXCEPT ![x] = r]
        BY <3>1
      <3> HIDE DEF r
      <3> QED
        BY <1>2, <3>2, <3>3 DEF Acknowledged
    <2>5. CASE CheckClient(x)
      <3>1. PICK r \in {[q EXCEPT !.pc = "persist"],
                        [q EXCEPT !.pc = "failed", !.err = "invalid_grant"],
                        [q EXCEPT !.pc = "failed", !.err = "invalid_client"],
                        [q EXCEPT !.pc = "failed", !.err = "internal"]} :
              xchg' = [xchg EXCEPT ![x] = r]
        BY <2>5 DEF CheckClient, XchgFails
      <3>2. q.deleted
        BY <1>1, <2>5 DEF CheckClient, Acknowledged
      <3>3. /\ [q EXCEPT !.pc = "persist"].deleted
            /\ [q EXCEPT !.pc = "failed", !.err = "invalid_grant"].deleted
            /\ [q EXCEPT !.pc = "failed", !.err = "invalid_client"].deleted
            /\ [q EXCEPT !.pc = "failed", !.err = "internal"].deleted
        BY <2>1, <2>2, <3>2
      <3>4. r.deleted
        BY <3>1, <3>3
      <3> QED
        BY <1>2, <3>1, <3>4 DEF Acknowledged
    <2>6. CASE PersistRefreshToken(x)
      <3>1. PICK r \in {[q EXCEPT !.pc = "respond", !.minted = TRUE],
                        [q EXCEPT !.pc = "failed", !.err = "internal"]} :
              xchg' = [xchg EXCEPT ![x] = r]
        BY <2>6 DEF PersistRefreshToken, XchgFails
      <3>2. q.deleted
        BY <1>1, <2>6 DEF PersistRefreshToken, Acknowledged
      <3>3. [q EXCEPT !.pc = "respond", !.minted = TRUE].deleted
        BY <1>1, <3>2 DEF Exchange
      <3>4. [q EXCEPT !.pc = "failed", !.err = "internal"].deleted
        BY <2>2, <3>2
      <3>5. r.deleted
        BY <3>1, <3>3, <3>4
      <3> QED
        BY <1>2, <3>1, <3>5 DEF Acknowledged
    <2>7. CASE Respond(x)
      <3> DEFINE r == [q EXCEPT !.pc = "done"]
      <3>1. q.deleted
        BY <1>1, <2>7 DEF Respond, Acknowledged
      <3>2. r.deleted
        BY <2>1, <3>1
      <3>3. xchg' = [xchg EXCEPT ![x] = r]
        BY <2>7 DEF Respond
      <3> HIDE DEF r
      <3> QED
        BY <1>2, <3>2, <3>3 DEF Acknowledged
    <2> QED
      BY <2>3, <2>4, <2>5, <2>6, <2>7 DEF ExchangeStep
  <1>3. \A y \in Exchangers : xchg'[y] = IF y = x THEN r ELSE xchg[y]
    BY <1>1, <1>2
  <1>4. ASSUME NEW y \in Exchangers PROVE Acknowledged(xchg'[y])
    BY <1>2, <1>3 DEF AckInv
  <1> QED
    BY <1>4 DEF AckInv, Acknowledged

LEMMA AckInvStep ==
  ASSUME IInv, AckInv, ~StoreFaulty, [Next]_vars PROVE AckInv'
  <1>1. xchg \in [Exchangers -> Exchange]
    BY DEF IInv, TypeOK
  <1>2. ASSUME NEW x \in Exchangers, BeginExchange(x) PROVE AckInv'
    <2>1. PICK p \in TokenInputs, c \in Codes \cup {None},
               pc \in {"get", "failed"}, err \in Errors \cup {None} :
            /\ pc = "get" => c # None
            /\ xchg' = [xchg EXCEPT ![x] =
                  [@ EXCEPT !.pc = pc, !.in = p, !.code = c, !.err = err,
                            !.after = Ended, !.late = Late(c)]]
      BY <1>2, BeginExchangeShape
    <2>2. xchg[x].got = None /\ ~xchg[x].minted
      BY <1>2 DEF BeginExchange, IInv, ExchangeInv, SoundExchange
    <2>3. /\ xchg'[x].pc = pc /\ xchg'[x].got = None /\ ~xchg'[x].minted
          /\ \A y \in Exchangers : y # x => xchg'[y] = xchg[y]
      BY <1>1, <2>1, <2>2 DEF Exchange
    <2> QED
      BY <2>3 DEF AckInv, Acknowledged
  <1>3. CASE Crash
    <2>1. \A x \in Exchangers : xchg'[x] = LostExchange(xchg[x])
      BY <1>3 DEF Crash, LostExchange
    <2>2. ASSUME NEW x \in Exchangers PROVE Acknowledged(LostExchange(xchg[x]))
      <3>1. xchg[x] \in Exchange /\ Acknowledged(xchg[x])
        BY <1>1 DEF AckInv
      <3>2. CASE xchg[x].pc \in XchgActive
        <4> DEFINE r == LostExchange(xchg[x])
        <4>1. r.pc = "lost" /\ r.minted = xchg[x].minted /\ r.deleted = xchg[x].deleted
          BY <3>1, <3>2 DEF LostExchange, Exchange
        <4> HIDE DEF r
        <4>2. Acknowledged(r)
          BY <3>1, <4>1 DEF Acknowledged
        <4> QED
          BY <4>2 DEF r
      <3> QED
        BY <3>1, <3>2 DEF LostExchange
    <2> QED
      BY <2>1, <2>2 DEF AckInv, Acknowledged
  <1>4. CASE UNCHANGED xchg
    BY <1>4 DEF AckInv, Acknowledged
  <1>5. ASSUME NEW k \in ClientIDs, AdminStep(k) PROVE UNCHANGED xchg
    BY <1>5 DEF AdminStep, InsertClient, ReplaceLists, DeleteClient
  <1>6. ASSUME NEW a \in Authorizers, BeginAuthorize(a) \/ AuthorizeStep(a)
        PROVE  UNCHANGED xchg
    BY <1>6 DEF BeginAuthorize, AuthorizeStep, ReadClient, ReadURIs, ReadScopes, Save
  <1>7. ASSUME NEW c \in Codes, ExpireKey(c) \/ Tick PROVE UNCHANGED xchg
    BY <1>7 DEF ExpireKey, Tick
  <1>8. Tick => UNCHANGED xchg
    BY DEF Tick
  <1> QED
    BY <1>2, <1>3, <1>4, <1>5, <1>6, <1>7, <1>8, ExchangeAcknowledged DEF Next, vars

(* An exchange that is past its Delete has had it acknowledged, always. *)
THEOREM AckInvariance ==
  ASSUME ~StoreFaulty PROVE Spec => [](IInv /\ AckInv)
  <1>1. Init => AckInv
    BY DEF Init, AckInv, Acknowledged
  <1>2. IInv /\ AckInv /\ [Next]_vars => AckInv'
    BY AckInvStep
  <1> QED
    BY <1>1, <1>2, Invariance, PTL DEF Spec

(***************************************************************************)
(* Where the store does not fail, a code is used up by the first exchange  *)
(* that has read it and is answered, with tokens or with an error: one     *)
(* that begins later reads nothing.  Two exchanges get tokens for one code *)
(* only when each had begun before the other ended, which is the gap       *)
(* between Get and Delete.  (oauth_service.go:173-188)                     *)
(***************************************************************************)
UsedUpByFirst ==
    /\ \A x, y \in Exchangers :
          /\ y \in xchg[x].after /\ xchg[x].code = xchg[y].code
          /\ xchg[y].got # None /\ xchg[y].pc # "lost"
          => xchg[x].got = None
    /\ \A x, y \in Exchangers :
          xchg[x].minted /\ xchg[y].minted /\ xchg[x].code = xchg[y].code =>
              x \notin xchg[y].after /\ y \notin xchg[x].after

THEOREM FirstUsesUp ==
  ASSUME ~StoreFaulty PROVE Spec => []UsedUpByFirst
  <1>1. ASSUME IInv, AckInv PROVE UsedUpByFirst
    <2>1. ASSUME NEW x \in Exchangers, NEW y \in xchg[x].after,
                 xchg[x].code = xchg[y].code,
                 xchg[y].minted \/ (xchg[y].got # None /\ xchg[y].pc # "lost")
          PROVE  xchg[x].got = None
      <3>1. y \in Exchangers /\ xchg[y].pc \in XchgEnded
        BY <1>1, <2>1 DEF IInv, TypeOK, Exchange, AfterInv
      <3>2. xchg[y].deleted
        BY <1>1, <2>1, <3>1 DEF AckInv, Acknowledged, XchgEnded
      <3> QED
        BY <1>1, <2>1, <3>2 DEF IInv, AfterInv
    <2>2. \A x \in Exchangers : xchg[x].minted => xchg[x].got # None
      BY <1>1 DEF IInv, ExchangeInv, SoundExchange
    <2> QED
      BY <2>1, <2>2 DEF UsedUpByFirst
  <1> QED
    BY <1>1, AckInvariance, PTL

(***************************************************************************)
(* Where no call fails and every user of a session has a row in table      *)
(* users, a refresh token is stored unless its client is gone: only the    *)
(* user of AuthCodeDemoUser, who has none, makes the INSERT fail.          *)
(* (auth_service.go:84-97, V3__create_refresh_tokens_table.sql)            *)
(***************************************************************************)
THEOREM PersistsForStoredUsers ==
  ASSUME ~Faulty, Users \subseteq StoredUsers
  PROVE  Spec => PersistFailsOnlyWithoutClient
  <1> DEFINE Fails ==
                \A x \in Exchangers :
                    xchg[x].pc = "persist" /\ xchg'[x].pc = "failed" =>
                        ~clients[xchg[x].got.client].registered
  <1>1. ASSUME IInv, Next PROVE Fails
    <2> SUFFICES ASSUME NEW x \in Exchangers, xchg[x].pc = "persist", xchg'[x].pc = "failed"
                 PROVE  ~clients[xchg[x].got.client].registered
      OBVIOUS
    <2>1. xchg \in [Exchangers -> Exchange] /\ xchg[x].got \in AuthCode
      BY <1>1 DEF IInv, TypeOK, Exchange, ExchangeInv, SoundExchange
    <2>2. xchg[x].got.user \in StoredUsers
      BY <2>1 DEF AuthCode
    <2>3. CASE PersistRefreshToken(x)
      <3>1. xchg'[x].pc = "failed" => xchg' # [xchg EXCEPT ![x] =
                                                 [@ EXCEPT !.pc = "respond", !.minted = TRUE]]
        BY <2>1 DEF Exchange
      <3> DEFINE row == [id |-> x, client |-> xchg[x].got.client, user |-> xchg[x].got.user]
      <3>2. ~ForeignKeysHold(row)
        BY <2>3, <3>1 DEF PersistRefreshToken
      <3> QED
        BY <2>2, <3>2 DEF ForeignKeysHold
    <2>4. ASSUME NEW y \in Exchangers, BeginExchange(y) \/ ExchangeStep(y),
                 ~PersistRefreshToken(x)
          PROVE  FALSE
      <3>1. CASE y = x
        BY <2>4, <3>1
           DEF BeginExchange, ExchangeStep, GetCode, DeleteCode, CheckClient, Respond
      <3>2. CASE y # x
        BY <2>1, <2>4, <3>2
           DEF BeginExchange, ExchangeStep, GetCode, DeleteCode, CheckClient,
               PersistRefreshToken, Respond, XchgFails
      <3> QED
        BY <3>1, <3>2
    <2>5. ASSUME Crash PROVE FALSE
      BY <2>1, <2>5 DEF Crash, XchgActive, Exchange
    <2>6. xchg' # xchg
      OBVIOUS
    <2> QED
      BY <1>1, <2>3, <2>4, <2>5, <2>6
         DEF Next, AdminStep, InsertClient, ReplaceLists, DeleteClient, BeginAuthorize,
             AuthorizeStep, ReadClient, ReadURIs, ReadScopes, Save, ExpireKey, Tick
  <1>2. IInv /\ [Next]_vars => [Fails]_vars
    BY <1>1
  <1> QED
    BY <1>2, Invariance, PTL DEF Spec, PersistFailsOnlyWithoutClient
=============================================================================
