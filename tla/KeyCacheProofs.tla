--------------------------- MODULE KeyCacheProofs ---------------------------
(***************************************************************************)
(* The safety of the Resource Server's key cache, for any number of        *)
(* requests, keys and key ids, rotations and failures included.            *)
(***************************************************************************)
EXTENDS KeyCache, Naturals, TLAPS

(***************************************************************************)
(* The inductive invariant.  That a verdict uses a trusted key needs the   *)
(* default entry to be trusted, which needs the document a fetch is about  *)
(* to store to be a published one.                                         *)
(***************************************************************************)
SigningPublished == signing \in published

DefaultTrusted == cachedKeys["default"] # None => Trusted(cachedKeys["default"])

DocPublished == \A x \in Requests : req[x].pc = "store" => req[x].doc \in published

TokenCarried == \A x \in Requests : req[x].pc # "idle" => req[x].token \in Token

(* The lock is held by a request that is fetching, and by no other. *)
LockHeldByFetcher == \A x \in Requests : lock = x <=> req[x].pc \in {"fetch", "store"}

IInv ==
    /\ TypeOK
    /\ SigningPublished
    /\ CacheIsPublished
    /\ DefaultTrusted
    /\ DocPublished
    /\ TokenCarried
    /\ LockHeldByFetcher
    /\ TrustedOnly

(* The types of the tokens and of the keys under their ids. *)
LEMMA TokenTypes ==
    /\ \A t \in Token : t.key \in Keys /\ t.kid \in Kids \cup {None} /\ t.claims \in BOOLEAN
    /\ \A p \in Published : p.kid \in Kids /\ p.key \in Keys
  BY DEF Token, Published

(* The lookup yields a trusted key or none, whatever kid it is for. *)
LEMMA CachedTrusted ==
    ASSUME IInv, NEW kid \in Kids \cup {None}
    PROVE  /\ CachedKey(kid) \in Keys \cup {None}
           /\ CachedKey(kid) # None => Trusted(CachedKey(kid))
  <1> USE NoneAssumption DEF Slots
  <1>1. cachedKeys["default"] \in Keys \cup {None}
    BY DEF IInv, TypeOK
  <1>2. ASSUME kid # None, cachedKeys[kid] # None
        PROVE  Trusted(cachedKeys[kid]) /\ cachedKeys[kid] \in Keys
    <2>1. kid \in Kids
      BY <1>2
    <2>2. [kid |-> kid, key |-> cachedKeys[kid]] \in published
      BY <1>2, <2>1 DEF IInv, CacheIsPublished
    <2> QED
      BY <1>2, <2>1, <2>2 DEF Trusted, IInv, TypeOK
  <1> QED
    BY <1>1, <1>2 DEF CachedKey, IInv, DefaultTrusted

(* A verdict that accepts used the token's own key. *)
LEMMA AcceptedTrusted ==
    ASSUME IInv, NEW x \in Requests, req[x].pc # "idle"
    PROVE  LET v == Verdict(req[x].token, CachedKey(req[x].token.kid)) IN
           /\ v \in {"accepted", "rejected"}
           /\ v = "accepted" => Trusted(req[x].token.key)
  <1>1. req[x].token \in Token
    BY DEF IInv, TokenCarried
  <1>2. req[x].token.kid \in Kids \cup {None} /\ req[x].token.key \in Keys
    BY <1>1, TokenTypes
  <1> QED
    BY <1>2, CachedTrusted, NoneAssumption DEF Verdict

(* A step of one request that leaves the cache alone. *)
LEMMA LocalStep ==
    ASSUME IInv,
           NEW x \in Requests, NEW r \in Request,
           req' = [req EXCEPT ![x] = r],
           UNCHANGED <<signing, published, since, cachedKeys>>,
           recent' \in BOOLEAN,
           r.pc # "idle" => r.token \in Token,
           r.pc = "store" => r.doc \in published,
           r.pc = "accepted" => Trusted(r.token.key),
           lock' \in Requests \cup {None},
           \A y \in Requests : lock' = y <=> req'[y].pc \in {"fetch", "store"}
    PROVE  IInv'
  <1>1. req'[x] = r /\ \A y \in Requests \ {x} : req'[y] = req[y]
    BY DEF IInv, TypeOK
  <1>2. TypeOK'
    BY DEF IInv, TypeOK
  <1>3. SigningPublished' /\ CacheIsPublished' /\ DefaultTrusted'
    BY DEF IInv, SigningPublished, CacheIsPublished, DefaultTrusted, Trusted
  <1>4. DocPublished'
    BY <1>1 DEF IInv, DocPublished
  <1>5. TokenCarried'
    BY <1>1 DEF IInv, TokenCarried
  <1>6. LockHeldByFetcher'
    BY DEF LockHeldByFetcher
  <1>7. TrustedOnly'
    BY <1>1 DEF IInv, TrustedOnly, Trusted
  <1> QED
    BY <1>2, <1>3, <1>4, <1>5, <1>6, <1>7 DEF IInv

(* A token arrives. *)
LEMMA ArriveStep ==
    ASSUME IInv, NEW x \in Requests, Arrive(x)
    PROVE  IInv'
  <1>1. PICK token \in Bearer :
          req' = [req EXCEPT ![x] = [@ EXCEPT !.pc = "lookup", !.token = token]]
    BY DEF Arrive
  <1>2. token \in Token
    <2>1. CASE token \in Foreign
      BY <2>1, ConstantsAssumption
    <2>2. CASE \E p \in published, c \in BOOLEAN :
                  token = [kid |-> p.kid, key |-> p.key, claims |-> c]
      <3>1. PICK p \in published, c \in BOOLEAN :
                  token = [kid |-> p.kid, key |-> p.key, claims |-> c]
        BY <2>2
      <3>2. p.kid \in Kids /\ p.key \in Keys
        BY TokenTypes DEF IInv, TypeOK
      <3> QED
        BY <3>1, <3>2 DEF Token
    <2> QED
      BY <2>1, <2>2 DEF Bearer
  <1> DEFINE r == [req[x] EXCEPT !.pc = "lookup", !.token = token]
  <1>3. r \in Request
    BY <1>2 DEF IInv, TypeOK, Request, Active
  <1>4. req' = [req EXCEPT ![x] = r] /\ r.pc = "lookup" /\ r.token = token
    BY <1>1 DEF IInv, TypeOK, Request
  <1> HIDE DEF r
  <1>5. \A y \in Requests : lock' = y <=> req'[y].pc \in {"fetch", "store"}
    BY <1>4 DEF Arrive, IInv, TypeOK, LockHeldByFetcher
  <1> QED
    BY <1>2, <1>3, <1>4, <1>5, LocalStep DEF Arrive, IInv, TypeOK

(* A lookup that finds a key ends the request, another goes for the lock. *)
LEMMA LookupStep ==
    ASSUME IInv, NEW x \in Requests, Lookup(x)
    PROVE  IInv'
  <1> DEFINE pc == IF CachedKey(req[x].token.kid) # None
                   THEN Verdict(req[x].token, CachedKey(req[x].token.kid)) ELSE "lock"
             r == [req[x] EXCEPT !.pc = pc]
  <1>1. /\ pc \in {"accepted", "rejected", "lock"}
        /\ pc = "accepted" => Trusted(req[x].token.key)
    BY AcceptedTrusted DEF Lookup
  <1>2. req' = [req EXCEPT ![x] = r]
    BY DEF Lookup, IInv, TypeOK
  <1> HIDE DEF pc
  <1>3. r \in Request /\ r.pc = pc /\ r.token = req[x].token
    BY <1>1 DEF IInv, TypeOK, Request, Active
  <1> HIDE DEF r
  <1>4. \A y \in Requests : lock' = y <=> req'[y].pc \in {"fetch", "store"}
    BY <1>1, <1>2, <1>3 DEF Lookup, IInv, TypeOK, LockHeldByFetcher
  <1> QED
    BY <1>1, <1>2, <1>3, <1>4, LocalStep DEF Lookup, IInv, TypeOK, TokenCarried

(* Going without a fetch leaves the lock free, a fetch takes it. *)
LEMMA LockStep ==
    ASSUME IInv, NEW x \in Requests, Lock(x)
    PROVE  IInv'
  <1>1. PICK pc \in {"reread", "fetch"} :
          /\ req' = [req EXCEPT ![x].pc = pc]
          /\ lock' = IF pc = "fetch" THEN x ELSE lock
    BY DEF Lock
  <1> DEFINE r == [req[x] EXCEPT !.pc = pc]
  <1>2. r \in Request /\ r.pc = pc /\ r.token = req[x].token
    BY DEF IInv, TypeOK, Request, Active
  <1>3. req' = [req EXCEPT ![x] = r]
    BY <1>1 DEF IInv, TypeOK
  <1> HIDE DEF r
  <1>4. \A y \in Requests : lock' = y <=> req'[y].pc \in {"fetch", "store"}
    BY <1>1, <1>2, <1>3, NoneAssumption DEF Lock, IInv, TypeOK, LockHeldByFetcher
  <1> QED
    BY <1>1, <1>2, <1>3, <1>4, LocalStep DEF Lock, IInv, TypeOK, TokenCarried

(* What the endpoint answers with is published. *)
LEMMA AnswerStep ==
    ASSUME IInv, NEW x \in Requests, Answer(x)
    PROVE  IInv'
  <1> DEFINE r == [req[x] EXCEPT !.pc = "store", !.doc = signing]
  <1>1. r \in Request /\ r.pc = "store" /\ r.token = req[x].token /\ r.doc = signing
    BY DEF IInv, TypeOK, Request, Active
  <1>2. req' = [req EXCEPT ![x] = r]
    BY DEF Answer, IInv, TypeOK
  <1> HIDE DEF r
  <1>3. \A y \in Requests : lock' = y <=> req'[y].pc \in {"fetch", "store"}
    BY <1>1, <1>2 DEF Answer, IInv, TypeOK, LockHeldByFetcher
  <1> QED
    BY <1>1, <1>2, <1>3, LocalStep DEF Answer, IInv, TypeOK, TokenCarried, SigningPublished

(* A fetch that fails releases the lock. *)
LEMMA FetchFailsStep ==
    ASSUME IInv, NEW x \in Requests, FetchFails(x)
    PROVE  IInv'
  <1> DEFINE r == [req[x] EXCEPT !.pc = "rejected", !.doc = None, !.failed = TRUE]
  <1>1. r \in Request /\ r.pc = "rejected" /\ r.token = req[x].token
    BY DEF IInv, TypeOK, Request, Active
  <1>2. req' = [req EXCEPT ![x] = r]
    BY DEF FetchFails, IInv, TypeOK
  <1> HIDE DEF r
  <1>3. \A y \in Requests : lock' = y <=> req'[y].pc \in {"fetch", "store"}
    BY <1>1, <1>2, NoneAssumption DEF FetchFails, IInv, TypeOK, LockHeldByFetcher
  <1> QED
    BY <1>1, <1>2, <1>3, LocalStep DEF FetchFails, IInv, TypeOK, TokenCarried

(* The one step that writes the cache, under the lock. *)
LEMMA StoreStep ==
    ASSUME IInv, NEW x \in Requests, Store(x)
    PROVE  IInv'
  <1> DEFINE doc == req[x].doc
             r == [req[x] EXCEPT !.pc = "reread", !.doc = None]
  <1>1. doc \in published /\ doc.kid \in Kids /\ doc.key \in Keys
    BY TokenTypes DEF Store, IInv, DocPublished, TypeOK
  <1>2. r \in Request /\ r.pc = "reread" /\ r.token = req[x].token
    BY DEF IInv, TypeOK, Request, Active
  <1>3. req' = [req EXCEPT ![x] = r]
    BY DEF Store, IInv, TypeOK
  <1>4. /\ \A s \in Slots : cachedKeys'[s] =
                IF s \in {doc.kid, "default"} THEN doc.key ELSE cachedKeys[s]
        /\ cachedKeys' \in [Slots -> Keys \cup {None}]
    BY <1>1 DEF Store, IInv, TypeOK
  <1>5. /\ UNCHANGED <<signing, published>> /\ since' = {signing}
        /\ lock' = None /\ recent' = TRUE
    BY DEF Store
  <1> HIDE DEF r
  <1>6. req'[x] = r /\ \A y \in Requests \ {x} : req'[y] = req[y]
    BY <1>3 DEF IInv, TypeOK
  <1>7. TypeOK'
    BY <1>2, <1>3, <1>4, <1>5 DEF IInv, TypeOK, SigningPublished
  <1>8. CacheIsPublished'
    <2> SUFFICES ASSUME NEW k \in Kids, cachedKeys'[k] # None
                 PROVE  [kid |-> k, key |-> cachedKeys'[k]] \in published
      BY <1>5 DEF CacheIsPublished
    <2>1. CASE k = doc.kid
      <3>1. cachedKeys'[k] = doc.key
        BY <1>4, <2>1 DEF Slots
      <3>2. doc \in Published
        BY <1>1 DEF IInv, TypeOK
      <3>3. doc = [kid |-> doc.kid, key |-> doc.key]
        BY <3>2 DEF Published
      <3> QED
        BY <1>1, <2>1, <3>1, <3>3
    <2>2. CASE k # doc.kid
      <3>1. cachedKeys'[k] = cachedKeys[k]
        BY <1>4, <2>2, DefaultAssumption DEF Slots
      <3> QED
        BY <3>1 DEF IInv, CacheIsPublished
    <2> QED
      BY <2>1, <2>2
  <1>9. DefaultTrusted'
    <2>1. cachedKeys'["default"] = doc.key
      BY <1>4 DEF Slots
    <2> QED
      BY <1>1, <1>5, <2>1 DEF DefaultTrusted, Trusted
  <1>10. DocPublished' /\ TokenCarried' /\ SigningPublished'
    BY <1>2, <1>5, <1>6 DEF IInv, DocPublished, TokenCarried, SigningPublished, Store
  <1>11. LockHeldByFetcher'
    BY <1>2, <1>5, <1>6, NoneAssumption DEF IInv, LockHeldByFetcher, Store
  <1>12. TrustedOnly'
    BY <1>2, <1>5, <1>6 DEF IInv, TrustedOnly, Trusted
  <1> QED
    BY <1>5, <1>7, <1>8, <1>9, <1>10, <1>11, <1>12 DEF IInv

(* After the fetch, the verdict. *)
LEMMA RereadStep ==
    ASSUME IInv, NEW x \in Requests, Reread(x)
    PROVE  IInv'
  <1> DEFINE pc == Verdict(req[x].token, CachedKey(req[x].token.kid))
             r == [req[x] EXCEPT !.pc = pc]
  <1>1. /\ pc \in {"accepted", "rejected"}
        /\ pc = "accepted" => Trusted(req[x].token.key)
    BY AcceptedTrusted DEF Reread
  <1>2. req' = [req EXCEPT ![x] = r]
    BY DEF Reread, IInv, TypeOK
  <1> HIDE DEF pc
  <1>3. r \in Request /\ r.pc = pc /\ r.token = req[x].token
    BY <1>1 DEF IInv, TypeOK, Request, Active
  <1> HIDE DEF r
  <1>4. \A y \in Requests : lock' = y <=> req'[y].pc \in {"fetch", "store"}
    BY <1>1, <1>2, <1>3 DEF Reread, IInv, TypeOK, LockHeldByFetcher
  <1> QED
    BY <1>1, <1>2, <1>3, <1>4, LocalStep DEF Reread, IInv, TypeOK, TokenCarried

(* A rotation only adds to what is published. *)
LEMMA RotateStep ==
    ASSUME IInv, Rotate
    PROVE  IInv'
  <1>1. PICK p \in Published :
          signing' = p /\ published' = published \cup {p} /\ since' = since \cup {p}
    BY ConstantsAssumption DEF Rotate
  <1>2. UNCHANGED <<cachedKeys, recent, lock, req>>
    BY DEF Rotate
  <1>3. \A key : Trusted(key) => Trusted(key)'
    BY <1>1 DEF Trusted
  <1>4. TypeOK' /\ SigningPublished' /\ CacheIsPublished'
    BY <1>1, <1>2 DEF IInv, TypeOK, SigningPublished, CacheIsPublished
  <1>5. DefaultTrusted' /\ TrustedOnly'
    BY <1>1, <1>2 DEF IInv, DefaultTrusted, TrustedOnly, Trusted
  <1>6. DocPublished' /\ TokenCarried' /\ LockHeldByFetcher'
    BY <1>1, <1>2 DEF IInv, DocPublished, TokenCarried, LockHeldByFetcher
  <1> QED
    BY <1>4, <1>5, <1>6 DEF IInv

(* The initial cache holds the configured key at most. *)
LEMMA InitialCacheTrusted ==
    /\ InitialCache \in [Slots -> Keys \cup {None}]
    /\ \A k \in Kids : InitialCache[k] = None
    /\ InitialCache["default"] = StaticKey
  BY ConstantsAssumption, DefaultAssumption DEF InitialCache, Slots

(* A restart ends every request and frees the lock. *)
LEMMA RestartStep ==
    ASSUME IInv, Restart
    PROVE  IInv'
  <1>1. /\ UNCHANGED <<signing, published>> /\ since' = {signing}
        /\ lock' = None /\ recent' = FALSE /\ cachedKeys' = InitialCache
    BY DEF Restart
  <1>2. \A x \in Requests :
          IF req[x].pc \in Active
          THEN /\ req'[x] \in Request /\ req'[x].pc = "lost"
               /\ req'[x].token = req[x].token
          ELSE req'[x] = req[x]
    BY DEF Restart, IInv, TypeOK, Request
  <1>3. TypeOK'
    <2>1. \A x \in Requests : req'[x] \in Request
      BY <1>2 DEF IInv, TypeOK
    <2>2. req' \in [Requests -> Request]
      BY <2>1 DEF Restart
    <2> QED
      BY <1>1, <2>2, InitialCacheTrusted DEF IInv, TypeOK, SigningPublished
  <1>4. CacheIsPublished' /\ DefaultTrusted' /\ SigningPublished'
    BY <1>1, InitialCacheTrusted
       DEF IInv, CacheIsPublished, DefaultTrusted, Trusted, SigningPublished
  <1>5. DocPublished' /\ TokenCarried' /\ TrustedOnly'
    BY <1>1, <1>2 DEF IInv, DocPublished, TokenCarried, TrustedOnly, Trusted, Active
  <1>6. LockHeldByFetcher'
    BY <1>1, <1>2, NoneAssumption DEF LockHeldByFetcher, Active
  <1> QED
    BY <1>1, <1>3, <1>4, <1>5, <1>6 DEF IInv

(* The invariant holds initially and is kept by every step. *)
THEOREM Invariance == Spec => []IInv
  <1>1. Init => IInv
    <2> SUFFICES ASSUME Init PROVE IInv
      OBVIOUS
    <2>1. TypeOK
      BY ConstantsAssumption, InitialCacheTrusted DEF Init, TypeOK, Request
    <2>2. SigningPublished /\ CacheIsPublished /\ DefaultTrusted
      BY InitialCacheTrusted
         DEF Init, SigningPublished, CacheIsPublished, DefaultTrusted, Trusted
    <2>3. DocPublished /\ TokenCarried /\ TrustedOnly
      BY DEF Init, DocPublished, TokenCarried, TrustedOnly
    <2>4. LockHeldByFetcher
      BY NoneAssumption DEF Init, LockHeldByFetcher
    <2> QED
      BY <2>1, <2>2, <2>3, <2>4 DEF IInv
  <1>2. IInv /\ [Next]_vars => IInv'
    <2> SUFFICES ASSUME IInv, [Next]_vars PROVE IInv'
      OBVIOUS
    <2>1. CASE \E x \in Requests : Arrive(x) \/ Step(x)
      BY <2>1, ArriveStep, LookupStep, LockStep, AnswerStep, FetchFailsStep, StoreStep,
         RereadStep DEF Step
    <2>2. CASE Minute
      BY <2>2 DEF Minute, IInv, TypeOK, SigningPublished, CacheIsPublished, DefaultTrusted,
                  Trusted, DocPublished, TokenCarried, LockHeldByFetcher, TrustedOnly
    <2>3. CASE Rotate
      BY <2>3, RotateStep
    <2>4. CASE Restart
      BY <2>4, RestartStep
    <2>5. CASE UNCHANGED vars
      BY <2>5 DEF vars, IInv, TypeOK, SigningPublished, CacheIsPublished, DefaultTrusted,
                  Trusted, DocPublished, TokenCarried, LockHeldByFetcher, TrustedOnly
    <2> QED
      BY <2>1, <2>2, <2>3, <2>4, <2>5 DEF Next
  <1> QED
    BY <1>1, <1>2, PTL DEF Spec

(* The variables keep their types. *)
THEOREM TypeCorrect == Spec => []TypeOK
  <1>1. IInv => TypeOK
    BY DEF IInv
  <1> QED
    BY Invariance, <1>1, PTL

(***************************************************************************)
(* No token is accepted that was signed with a key other than the          *)
(* configured one and those the Authorization Server has published.        *)
(***************************************************************************)
THEOREM OnlyTrusted == Spec => []TrustedOnly
  <1>1. IInv => TrustedOnly
    BY DEF IInv
  <1> QED
    BY Invariance, <1>1, PTL

(* A key is cached under a kid only if it was published under that kid. *)
THEOREM CachePublished == Spec => []CacheIsPublished
  <1>1. IInv => CacheIsPublished
    BY DEF IInv
  <1> QED
    BY Invariance, <1>1, PTL
-----------------------------------------------------------------------------
(***************************************************************************)
(* What a rejection needs besides: once anything is cached, and once a     *)
(* request is past its fetch, there is a default key.                      *)
(***************************************************************************)
FilledInv ==
    /\ (\E s \in Slots : cachedKeys[s] # None) => cachedKeys["default"] # None
    /\ \A x \in Requests : req[x].pc = "reread" => cachedKeys["default"] # None

(* A step of one request keeps the cache, or stores a key as the default. *)
LEMMA FilledByStep ==
    ASSUME IInv, FilledInv, NEW x \in Requests, Arrive(x) \/ Step(x)
    PROVE  FilledInv'
  <1>1. \A y \in Requests \ {x} : req'[y] = req[y]
    BY DEF Arrive, Step, Lookup, Lock, Answer, FetchFails, Store, Reread, IInv, TypeOK
  <1>2. CASE Store(x)
    <2>1. req[x].doc.key \in Keys
      BY <1>2, TokenTypes DEF Store, IInv, DocPublished, TypeOK
    <2>2. cachedKeys'["default"] # None
      BY <1>2, <2>1, NoneAssumption DEF Store, Slots
    <2> QED
      BY <2>2 DEF FilledInv
  <1>3. CASE Lock(x)
    BY <1>1, <1>3 DEF Lock, FilledInv, IInv, TypeOK, Request
  <1>4. CASE Lookup(x) \/ Reread(x)
    <2>1. req'[x].pc # "reread"
      BY <1>4, AcceptedTrusted DEF Lookup, Reread, IInv, TypeOK, Request
    <2> QED
      BY <1>1, <1>4, <2>1 DEF Lookup, Reread, FilledInv
  <1>5. CASE Arrive(x)
    BY <1>1, <1>5 DEF Arrive, FilledInv, IInv, TypeOK, Request
  <1>6. CASE Answer(x) \/ FetchFails(x)
    BY <1>1, <1>6 DEF Answer, FetchFails, FilledInv, IInv, TypeOK, Request
  <1> QED
    BY <1>2, <1>3, <1>4, <1>5, <1>6 DEF Step

(* It holds initially and is kept by every step. *)
LEMMA FilledStep == IInv /\ FilledInv /\ [Next]_vars => FilledInv'
  <1> SUFFICES ASSUME IInv, FilledInv, [Next]_vars PROVE FilledInv'
    OBVIOUS
  <1>1. CASE \E x \in Requests : Arrive(x) \/ Step(x)
    BY <1>1, FilledByStep
  <1>2. CASE Restart
    <2>1. \A x \in Requests : req'[x].pc # "reread"
      BY <1>2 DEF Restart, Active, IInv, TypeOK, Request
    <2>2. \A s \in Slots : cachedKeys'[s] # None => s = "default"
      BY <1>2, InitialCacheTrusted DEF Restart, Slots
    <2> QED
      BY <2>1, <2>2 DEF FilledInv
  <1>3. CASE Minute \/ Rotate \/ UNCHANGED vars
    BY <1>3 DEF Minute, Rotate, vars, FilledInv
  <1> QED
    BY <1>1, <1>2, <1>3 DEF Next

(* While there has been one key, the cache has no other. *)
LEMMA CachedKeyIsSigning ==
    ASSUME IInv, published = {signing}, StaticKey \in {None, signing.key},
           CachedKey(signing.kid) # None
    PROVE  CachedKey(signing.kid) = signing.key
  <1>1. signing.kid \in Kids /\ signing.key \in Keys
    BY TokenTypes DEF IInv, TypeOK
  <1>2. ASSUME cachedKeys[signing.kid] # None
        PROVE  cachedKeys[signing.kid] = signing.key
    <2>1. [kid |-> signing.kid, key |-> cachedKeys[signing.kid]] = signing
      BY <1>1, <1>2 DEF IInv, CacheIsPublished
    <2>2. [kid |-> signing.kid, key |-> cachedKeys[signing.kid]].key = cachedKeys[signing.kid]
      OBVIOUS
    <2> QED
      BY <2>1, <2>2
  <1>3. cachedKeys["default"] # None => cachedKeys["default"] = signing.key
    BY DEF IInv, DefaultTrusted, Trusted
  <1> QED
    BY <1>2, <1>3 DEF CachedKey

(* It holds initially: there is the configured key at most. *)
LEMMA FilledInit == Init => FilledInv
  <1> SUFFICES ASSUME Init PROVE FilledInv
    OBVIOUS
  <1>1. \A s \in Slots : cachedKeys[s] # None => s = "default"
    BY InitialCacheTrusted DEF Init, Slots
  <1> QED
    BY <1>1 DEF Init, FilledInv

(***************************************************************************)
(* What the lookup of the published key id finds that is not the published *)
(* key: a key of before a rotation, or the configured one.                 *)
(***************************************************************************)
OutdatedKeyFound == CachedKey(signing.kid) \notin {None, signing.key}

(***************************************************************************)
(* There are two ways to reject a token of the published key, and no       *)
(* third: the request's own fetch fails, or the lookup finds another key.  *)
(***************************************************************************)
LEMMA WhyRejected ==
    ASSUME IInv, FilledInv, [Next]_vars, NEW x \in Requests, RejectsPublished(x),
           ~OutdatedKeyFound
    PROVE  req'[x].failed
  <1>1. /\ req[x].token.kid = signing.kid /\ req[x].token.key = signing.key
        /\ req[x].token.claims
    BY DEF RejectsPublished
  <1>2. signing.key \in Keys
    BY TokenTypes DEF IInv, TypeOK
  <1>3. CachedKey(signing.kid) # None =>
           Verdict(req[x].token, CachedKey(req[x].token.kid)) = "accepted"
    BY <1>1 DEF Verdict, OutdatedKeyFound
  <1>4. req[x].pc \in Active /\ req'[x].pc = "rejected"
    BY DEF RejectsPublished
  <1>5. ASSUME NEW y \in Requests, Lookup(y) PROVE FALSE
    <2>1. CASE y = x
      BY <1>1, <1>3, <1>4, <1>5, <2>1 DEF Lookup, IInv, TypeOK, Request
    <2>2. CASE y # x
      BY <1>4, <1>5, <2>2 DEF Lookup, IInv, TypeOK, Active
    <2> QED
      BY <2>1, <2>2
  <1>6. ASSUME NEW y \in Requests, Reread(y) PROVE FALSE
    <2>1. CASE y = x
      <3>1. cachedKeys["default"] # None
        BY <1>6, <2>1 DEF Reread, FilledInv
      <3>2. CachedKey(signing.kid) # None
        BY <3>1 DEF CachedKey
      <3> QED
        BY <1>1, <1>3, <1>4, <1>6, <2>1, <3>2 DEF Reread, IInv, TypeOK, Request
    <2>2. CASE y # x
      BY <1>4, <1>6, <2>2 DEF Reread, IInv, TypeOK, Active
    <2> QED
      BY <2>1, <2>2
  <1>7. ASSUME NEW y \in Requests, FetchFails(y) PROVE req'[x].failed
    BY <1>4, <1>7 DEF FetchFails, IInv, TypeOK, Request, Active
  <1>8. ASSUME NEW y \in Requests, Arrive(y) \/ Lock(y) \/ Answer(y) \/ Store(y) PROVE FALSE
    <2>1. CASE Arrive(y)
      BY <1>4, <2>1 DEF Arrive, IInv, TypeOK, Request, Active
    <2>2. CASE Lock(y)
      BY <1>4, <2>2 DEF Lock, IInv, TypeOK, Request, Active
    <2>3. CASE Answer(y)
      BY <1>4, <2>3 DEF Answer, IInv, TypeOK, Request, Active
    <2>4. CASE Store(y)
      BY <1>4, <2>4 DEF Store, IInv, TypeOK, Request, Active
    <2> QED
      BY <1>8, <2>1, <2>2, <2>3, <2>4
  <1>9. ASSUME Restart PROVE FALSE
    <2>1. req'[x] = [req[x] EXCEPT !.pc = "lost", !.doc = None]
      BY <1>4, <1>9 DEF Restart
    <2>2. req[x] \in Request
      BY DEF IInv, TypeOK
    <2> QED
      BY <1>4, <2>1, <2>2 DEF Request
  <1>10. ~(Minute \/ Rotate \/ UNCHANGED vars)
    BY <1>4 DEF Minute, Rotate, vars, Active
  <1> QED
    BY <1>5, <1>6, <1>7, <1>8, <1>9, <1>10 DEF Next, Step

(***************************************************************************)
(* Before the first rotation a genuine token is rejected only by a request *)
(* whose own fetch failed.                                                 *)
(***************************************************************************)
THEOREM GenuineAccepted == Spec => GenuineTokenAccepted
  <1>1. ASSUME IInv, published = {signing}, StaticKey \in {None, signing.key}
        PROVE  ~OutdatedKeyFound
    BY <1>1, CachedKeyIsSigning DEF OutdatedKeyFound
  <1>2. IInv /\ FilledInv /\ [Next]_vars =>
           [\A x \in Requests : RejectsPublished(x) =>
               req'[x].failed \/ published # {signing} \/ StaticKey \notin {None, signing.key}]_vars
    BY <1>1, WhyRejected
  <1> QED
    BY Invariance, FilledInit, FilledStep, <1>2, PTL DEF Spec, GenuineTokenAccepted

(***************************************************************************)
(* And after rotations an outdated key is the one other reason: a token of *)
(* the published key is rejected because the request's own fetch failed,   *)
(* or because the lookup finds a key that is published no more, which is   *)
(* what RotatedKeyFound meets.  (auth_middleware.go:241-271)               *)
(***************************************************************************)
RejectsForAReason ==
    [][\A x \in Requests : RejectsPublished(x) => req'[x].failed \/ OutdatedKeyFound]_vars

THEOREM RejectedForAReason == Spec => RejectsForAReason
  <1>1. IInv /\ FilledInv /\ [Next]_vars =>
           [\A x \in Requests : RejectsPublished(x) => req'[x].failed \/ OutdatedKeyFound]_vars
    BY WhyRejected
  <1> QED
    BY Invariance, FilledInit, FilledStep, <1>1, PTL DEF Spec, RejectsForAReason
-----------------------------------------------------------------------------
(***************************************************************************)
(* Whoever holds the lock to fetch has found that the last fetch is a      *)
(* minute ago, and nobody else has fetched since: a fetch fills the cache, *)
(* so that the look before the next one finds it.                          *)
(***************************************************************************)
RecentInv ==
    /\ recent => cachedKeys["default"] # None
    /\ \A x \in Requests : req[x].pc \in {"fetch", "store"} => ~recent

(* A request that goes on to fetch has looked, one that stores is alone. *)
LEMMA RecentByStep ==
    ASSUME IInv, RecentInv, NEW x \in Requests, Arrive(x) \/ Step(x)
    PROVE  RecentInv'
  <1>1. \A y \in Requests \ {x} : req'[y] = req[y]
    BY DEF Arrive, Step, Lookup, Lock, Answer, FetchFails, Store, Reread, IInv, TypeOK
  <1>2. CASE Store(x)
    <2>1. cachedKeys'["default"] # None
      <3>1. req[x].doc.key \in Keys
        BY <1>2, TokenTypes DEF Store, IInv, DocPublished, TypeOK
      <3> QED
        BY <1>2, <3>1, NoneAssumption DEF Store, Slots
    <2>2. ASSUME NEW y \in Requests \ {x} PROVE req[y].pc \notin {"fetch", "store"}
      <3>1. lock = x
        BY <1>2 DEF Store, IInv, LockHeldByFetcher
      <3> QED
        BY <3>1 DEF IInv, LockHeldByFetcher
    <2>3. req'[x].pc = "reread"
      BY <1>2 DEF Store, IInv, TypeOK, Request
    <2> QED
      BY <1>1, <2>1, <2>2, <2>3 DEF RecentInv
  <1>3. CASE Lock(x)
    <2>1. UNCHANGED <<recent, cachedKeys>>
      BY <1>3 DEF Lock
    <2>2. ASSUME recent PROVE req'[x].pc = "reread"
      <3>1. "default" \in Slots /\ cachedKeys["default"] # None
        BY <2>2 DEF RecentInv, Slots
      <3>2. \E s \in Slots : cachedKeys[s] # None
        BY <3>1
      <3> QED
        BY <1>3, <2>2, <3>2 DEF Lock, IInv, TypeOK, Request
    <2> QED
      BY <1>1, <2>1, <2>2 DEF RecentInv
  <1>4. CASE Lookup(x) \/ Reread(x)
    <2>1. req'[x].pc \notin {"fetch", "store"}
      BY <1>4, AcceptedTrusted DEF Lookup, Reread, IInv, TypeOK, Request
    <2> QED
      BY <1>1, <1>4, <2>1 DEF Lookup, Reread, RecentInv
  <1>5. CASE Arrive(x)
    BY <1>1, <1>5 DEF Arrive, RecentInv, IInv, TypeOK, Request
  <1>6. CASE Answer(x) \/ FetchFails(x)
    BY <1>1, <1>6 DEF Answer, FetchFails, RecentInv, IInv, TypeOK, Request
  <1> QED
    BY <1>2, <1>3, <1>4, <1>5, <1>6 DEF Step

(* It holds initially and is kept by every step. *)
LEMMA RecentStep == IInv /\ RecentInv /\ [Next]_vars => RecentInv'
  <1> SUFFICES ASSUME IInv, RecentInv, [Next]_vars PROVE RecentInv'
    OBVIOUS
  <1>1. CASE \E x \in Requests : Arrive(x) \/ Step(x)
    BY <1>1, RecentByStep
  <1>2. CASE Restart
    BY <1>2 DEF Restart, RecentInv
  <1>3. CASE Minute \/ Rotate \/ UNCHANGED vars
    BY <1>3 DEF Minute, Rotate, vars, RecentInv
  <1> QED
    BY <1>1, <1>2, <1>3 DEF Next

(***************************************************************************)
(* The keys are fetched once a minute at most, however many requests miss  *)
(* the cache together.  (auth_middleware.go:282-288, 327)                  *)
(***************************************************************************)
THEOREM FetchedSparingly == Spec => FetchedOnceAMinute
  <1>1. Init => RecentInv
    BY DEF Init, RecentInv
  <1>2. RecentInv /\ [Next]_vars =>
           [\A x \in Requests : req[x].pc = "store" /\ req'[x].pc = "reread" => ~recent]_vars
    BY DEF RecentInv
  <1> QED
    BY Invariance, <1>1, RecentStep, <1>2, PTL DEF Spec, FetchedOnceAMinute
-----------------------------------------------------------------------------
(***************************************************************************)
(* Whoever has an answer holds the lock, since before it asked, so that    *)
(* nobody has written the cache from then on: what it was answered is      *)
(* among the keys published since the cache was last written, whatever     *)
(* rotations there are in the meantime, back to an earlier key or not.     *)
(***************************************************************************)
FreshInv ==
    /\ signing \in since
    /\ \A x \in Requests : req[x].pc = "store" => req[x].doc \in since

(* Who stores is alone with the lock, and then nobody is about to store. *)
LEMMA FreshByStore ==
    ASSUME IInv, NEW x \in Requests, Store(x)
    PROVE  FreshInv'
  <1>1. req'[x].pc = "reread" /\ \A y \in Requests \ {x} : req'[y] = req[y]
    BY DEF Store, IInv, TypeOK, Request
  <1>2. lock = x
    BY DEF Store, IInv, LockHeldByFetcher
  <1>3. \A y \in Requests \ {x} : req[y].pc # "store"
    BY <1>2 DEF IInv, LockHeldByFetcher
  <1>4. signing' \in since'
    BY DEF Store
  <1> QED
    BY <1>1, <1>3, <1>4 DEF FreshInv

(* Any other step of a request leaves the cache, and answers with the key. *)
LEMMA FreshByStep ==
    ASSUME IInv, FreshInv, NEW x \in Requests, Arrive(x) \/ Step(x), ~Store(x)
    PROVE  FreshInv'
  <1>1. /\ \A y \in Requests \ {x} : req'[y] = req[y]
        /\ UNCHANGED <<signing, since>>
    BY DEF Arrive, Step, Lookup, Lock, Answer, FetchFails, Reread, IInv, TypeOK
  <1>2. req'[x].pc = "store" => req'[x].doc = signing
    <2>1. CASE Answer(x)
      BY <2>1 DEF Answer, IInv, TypeOK, Request
    <2>2. CASE Lookup(x) \/ Reread(x)
      BY <2>2, AcceptedTrusted DEF Lookup, Reread, IInv, TypeOK, Request
    <2>3. CASE Arrive(x)
      BY <2>3 DEF Arrive, IInv, TypeOK, Request
    <2>4. CASE Lock(x)
      <3>1. PICK pc \in {"reread", "fetch"} : req' = [req EXCEPT ![x].pc = pc]
        BY <2>4 DEF Lock
      <3> QED
        BY <3>1 DEF IInv, TypeOK, Request
    <2>5. CASE FetchFails(x)
      <3>1. req'[x] = [req[x] EXCEPT !.pc = "rejected", !.doc = None, !.failed = TRUE]
        BY <2>5 DEF FetchFails, IInv, TypeOK
      <3>2. req[x] \in Request
        BY DEF IInv, TypeOK
      <3> QED
        BY <3>1, <3>2 DEF Request
    <2> QED
      BY <2>1, <2>2, <2>3, <2>4, <2>5 DEF Step
  <1> QED
    BY <1>1, <1>2 DEF FreshInv

(* It holds initially: nobody has asked. *)
LEMMA FreshInit == Init => FreshInv
  BY DEF Init, FreshInv

(* A rotation adds to the keys since the last write, a restart ends all. *)
LEMMA FreshStep == IInv /\ FreshInv /\ [Next]_vars => FreshInv'
  <1> SUFFICES ASSUME IInv, FreshInv, [Next]_vars PROVE FreshInv'
    OBVIOUS
  <1>1. CASE \E x \in Requests : Arrive(x) \/ Step(x)
    BY <1>1, FreshByStore, FreshByStep
  <1>2. CASE Rotate
    BY <1>2 DEF Rotate, FreshInv
  <1>3. CASE Restart
    <2>1. \A x \in Requests : req'[x].pc # "store"
      BY <1>3 DEF Restart, Active, IInv, TypeOK, Request
    <2>2. signing' \in since'
      BY <1>3 DEF Restart
    <2> QED
      BY <2>1, <2>2 DEF FreshInv
  <1>4. CASE Minute \/ UNCHANGED vars
    BY <1>4 DEF Minute, vars, FreshInv
  <1> QED
    BY <1>1, <1>2, <1>3, <1>4 DEF Next

(***************************************************************************)
(* Whatever is stored has been published since the cache was last written, *)
(* for any number of requests and any sequence of rotations, with keys     *)
(* that come back: no late answer undoes what a later one has stored.      *)
(* (auth_middleware.go:282-283, 321-327)                                   *)
(***************************************************************************)
THEOREM MovesForward == Spec => CacheMovesForward
  <1>1. FreshInv /\ [Next]_vars =>
           [\A x \in Requests :
               req[x].pc = "store" /\ req'[x].pc = "reread" => req[x].doc \in since]_vars
    BY DEF FreshInv
  <1> QED
    BY Invariance, FreshInit, FreshStep, <1>1, PTL DEF Spec, CacheMovesForward
-----------------------------------------------------------------------------
(***************************************************************************)
(* The safety half of RequestsEnd.  A request goes through the stages of   *)
(* resolvePublicKey in order and through none twice: it neither retries a  *)
(* fetch nor waits for the lock a second time, so that each holds the lock *)
(* once at most, and whoever holds it goes on or ends.                     *)
(* (auth_middleware.go:241-271)                                            *)
(***************************************************************************)
Stage(pc) ==
    CASE pc = "idle"   -> 0
      [] pc = "lookup" -> 1
      [] pc = "lock"   -> 2
      [] pc = "fetch"  -> 3
      [] pc = "store"  -> 4
      [] pc = "reread" -> 5
      [] OTHER         -> 6

EveryStepAdvances ==
    [][\A x \in Requests : req'[x] # req[x] => Stage(req'[x].pc) > Stage(req[x].pc)]_vars

(* A step of a request takes it to a later stage. *)
LEMMA AdvancesByStep ==
    ASSUME IInv, NEW x \in Requests, Arrive(x) \/ Step(x)
    PROVE  Stage(req'[x].pc) > Stage(req[x].pc)
  <1>1. req[x] \in Request
    BY DEF IInv, TypeOK
  <1>2. CASE Arrive(x)
    <2>1. req[x].pc = "idle" /\ req'[x].pc = "lookup"
      BY <1>1, <1>2 DEF Arrive, IInv, TypeOK, Request
    <2> QED
      BY <2>1 DEF Stage
  <1>3. CASE Lookup(x)
    <2>1. req[x].pc = "lookup" /\ req'[x].pc \in {"accepted", "rejected", "lock"}
      BY <1>1, <1>3, AcceptedTrusted DEF Lookup, IInv, TypeOK, Request
    <2> QED
      BY <2>1 DEF Stage
  <1>4. CASE Lock(x)
    <2>1. req[x].pc = "lock" /\ req'[x].pc \in {"reread", "fetch"}
      BY <1>1, <1>4 DEF Lock, IInv, TypeOK, Request
    <2> QED
      BY <2>1 DEF Stage
  <1>5. CASE Answer(x)
    <2>1. req[x].pc = "fetch" /\ req'[x].pc = "store"
      BY <1>1, <1>5 DEF Answer, IInv, TypeOK, Request
    <2> QED
      BY <2>1 DEF Stage
  <1>6. CASE FetchFails(x)
    <2>1. req'[x] = [req[x] EXCEPT !.pc = "rejected", !.doc = None, !.failed = TRUE]
      BY <1>6 DEF FetchFails, IInv, TypeOK
    <2>2. req'[x].pc = "rejected"
      BY <1>1, <2>1 DEF Request
    <2>3. req[x].pc \in {"fetch", "store"}
      BY <1>6 DEF FetchFails
    <2> QED
      BY <2>2, <2>3 DEF Stage
  <1>7. CASE Store(x)
    <2>1. req[x].pc = "store" /\ req'[x].pc = "reread"
      BY <1>1, <1>7 DEF Store, IInv, TypeOK, Request
    <2> QED
      BY <2>1 DEF Stage
  <1>8. CASE Reread(x)
    <2>1. req[x].pc = "reread" /\ req'[x].pc \in {"accepted", "rejected"}
      BY <1>1, <1>8, AcceptedTrusted DEF Reread, IInv, TypeOK, Request
    <2> QED
      BY <2>1 DEF Stage
  <1> QED
    BY <1>2, <1>3, <1>4, <1>5, <1>6, <1>7, <1>8 DEF Step

(* No request goes back to a stage it has left. *)
THEOREM RequestsAdvance == Spec => EveryStepAdvances
  <1>1. ASSUME IInv, [Next]_vars, NEW x \in Requests, req'[x] # req[x]
        PROVE  Stage(req'[x].pc) > Stage(req[x].pc)
    <2>1. ASSUME NEW y \in Requests, Arrive(y) \/ Step(y)
          PROVE  y = x
      <3>1. \A z \in Requests \ {y} : req'[z] = req[z]
        BY <1>1, <2>1
           DEF Arrive, Step, Lookup, Lock, Answer, FetchFails, Store, Reread, IInv, TypeOK
      <3> QED
        BY <1>1, <3>1
    <2>2. CASE \E y \in Requests : Arrive(y) \/ Step(y)
      BY <1>1, <2>1, <2>2, AdvancesByStep
    <2>3. CASE Restart
      <3>1. req[x].pc \in Active /\ req'[x] = [req[x] EXCEPT !.pc = "lost", !.doc = None]
        BY <1>1, <2>3 DEF Restart
      <3>2. req[x] \in Request
        BY <1>1 DEF IInv, TypeOK
      <3>3. req'[x].pc = "lost"
        BY <3>1, <3>2 DEF Request
      <3> QED
        BY <3>1, <3>3 DEF Stage, Active
    <2>4. CASE Minute \/ Rotate \/ UNCHANGED vars
      BY <1>1, <2>4 DEF Minute, Rotate, vars
    <2> QED
      BY <1>1, <2>2, <2>3, <2>4 DEF Next
  <1>2. IInv /\ [Next]_vars =>
           [\A x \in Requests : req'[x] # req[x] => Stage(req'[x].pc) > Stage(req[x].pc)]_vars
    BY <1>1
  <1> QED
    BY Invariance, <1>2, PTL DEF Spec, EveryStepAdvances
=============================================================================
