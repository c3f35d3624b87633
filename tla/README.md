# A verification of MiniAuth

TLA+ models of MiniAuth, small instances of them for TLC, and theorems about
them with proofs for TLAPS. Paths below are relative to the repository's root;
AS, CS, RS and US are short for `AuthorizationServer/internal`,
`ClientService/internal`, `ResourceServer/internal` and `UserService/internal`.

## 1. The system

Four Go servers, one PostgreSQL database, optionally one Redis.

| Component | State it keeps | Operations that change state | Talks to |
|---|---|---|---|
| Authorization code grant (AS: `service/oauth_service.go`, `repository/auth_code_repository.go`, `client_repository.go`, `refresh_token_repository.go`) | codes in Redis or in a map; rows of `refresh_tokens`; nothing between two requests besides | `/authorize` (three SELECTs, one SET), `/token` (GET, DEL, three SELECTs, one INSERT) | Redis, PostgreSQL |
| Login, logout, sessions (AS: `service/auth_service.go`, `session_store.go`, `handler/login_handler.go`, `oauth_handler.go`) | sessions in Redis or in a map; the browser's cookie | `/login`, `/logout`, the session check of `/authorize` | Redis, PostgreSQL |
| Schema migrator (AS: `database/migrator.go`, `migrations/`) | table `flyway_schema_history` and the schema | once at start-up | PostgreSQL |
| JWT signer and JWKS endpoint (AS: `crypto/jwt_signer.go`, `handler/jwks_handler.go`) | one RSA key for the life of the process | key chosen at start-up | files, environment |
| Client Service (CS: `service/oauth_client_service.go`, `state_store.go`) | OAuth states with PKCE verifiers in Redis or in a map | `/login`, `/oauth/callback` | Redis; `/token` over HTTP |
| Token verification (RS: `middleware/auth_middleware.go`) | a cache of public keys under a read-write lock | the JWKS fetch | JWKS endpoint over HTTP |
| Client registry (US: `service/client_service.go`, `repository/client_repository.go`) | tables `oauth_clients`, `client_redirect_uris`, `client_scopes` | register, delete, add, replace, remove | PostgreSQL, in the tables the grant reads |
| Users, roles, permissions (US: `service/user_service.go`, `role_service.go`, `permission_service.go`) | tables `users`, `roles`, `permissions` and the join tables | create, assign, remove; reports put together from several SELECTs | PostgreSQL, in the table login reads |
| The rest: wiring and configuration, health checks, e-mail and user info demonstration handlers, HTML pages, OpenAPI files, compose and k8s manifests | none | none | |

The servers share nothing but the database, Redis and HTTP. Inside a server each
request is a goroutine of its own; the only locks are those of the in-memory
stores and of the key cache.

**What is hard, and what makes each part correct**

- *Code grant.* Requests interleave between store calls; each call may fail,
  with its effect or without; the process may die in between; codes expire while
  they are being exchanged; the User Service edits the client meanwhile. Correct
  means: tokens only for what was authorized; a used or expired code gives
  nothing; a code does not come back; no refresh token without its client and
  user; each request is answered.
- *Migrator.* Instances start together with no lock between "what is applied"
  and "apply the rest"; V1 drops table `users`. Correct means: each migration
  once, ranks 1, 2, ... in version order, no server up without its migrations,
  no stored user dropped, and a fleet that comes up in the end.
- *Key cache.* Requests queue for a lock that is held across an HTTP call, look
  again under another lock, and the key behind the endpoint may change. Correct
  means: only keys of the Authorization Server verify a token; a genuine token is
  not rejected because of somebody else's request; a crowd of requests fetches the
  keys once; no late answer overwrites a newer key; each request is answered.
- *Login flow.* Attempts of one browser cross, callbacks are repeated, sessions
  and states expire, both servers restart with Redis or without. Correct means:
  one exchange per state, tokens of the right attempt for the right user, no use
  of a session that is over.
- *Client registry.* Each operation is several statements, in transactions or
  not, at READ COMMITTED. Correct means: no rows of a deleted client, no mixture
  of two registrations, a replacement that replaces and is never seen half-way,
  all there that is acknowledged, clients and lists that change one at a time for
  those who read them, an answer to every request, deadlocks included.
- *Users, roles, permissions.* A creation looks for the name and inserts it in two
  statements; a report is one SELECT per role, in no transaction, and skips an error
  of one of them. Correct means: one creation of a name succeeds, and a report tells
  what was settled before it began.

## 2. Modules

| Module | Role | Used by |
|---|---|---|
| `AuthorizationCode` | `/authorize` and `/token`, one action per store call | |
| `CodeLifecycle` | abstract: what the Authorization Server promises about a code | implemented by `AuthorizationCode` (`LifecycleSpec`), instantiated by `LoginFlow` (`Grants`) |
| `Migrator` | `RunMigrations` in several instances | |
| `KeyCache` | `AuthMiddleware` with the signer and the JWKS endpoint it depends on | |
| `ClientRegistry` | every operation of the User Service on clients, one action per statement | |
| `ClientTable` | abstract: clients and lists that change one at a time | implemented by `ClientRegistry` (`TableSpec`), instantiated by `AuthorizationCode` (`Table`) |
| `Rbac` | users, roles and permissions, one action per statement | |
| `ExpiringStore` | a record store that is in Redis or in memory and lets records expire | instantiated twice by `LoginFlow` (`Sessions`, `States`) |
| `LoginFlow` | login, logout, `/authorize` and the Client Service together | |
| `MC...` | instances for TLC: inputs, symmetry | the `.cfg` files |
| `...Proofs` | theorems, each with its proof | |

Two seams join the modules, each an abstract specification that one side is shown to
implement, by TLC and by proof, and that the other side builds on. `AuthorizationCode`
implements `CodeLifecycle`, and `LoginFlow` uses of the grant endpoints only what
`CodeLifecycle` says. `ClientRegistry` implements `ClientTable`, and the steps that
`AuthorizationCode` lets the User Service take between those of its own requests
(`InsertClient`, `ReplaceLists`, `DeleteClient`) are those of `ClientTable`.

### AuthorizationCode

| Model | Code |
|---|---|
| `clients[k]` | the client's rows in the three client tables |
| `codes[c]` | the record under `auth_code:<code>`; a code is named by the request that drew it, since a random code is drawn once |
| `life[c]` | time until the record's `ExpiresAt`, in ticks; -1 is past it |
| `refreshTokens` | rows of `refresh_tokens`, named by the exchange that drew the token |
| `authz[a]`, `xchg[x]` | requests with their local variables; `pc` is the call that comes next |
| `ReadClient`, `ReadURIs`, `ReadScopes`, `Save` | `Authorize`: the three SELECTs of `GetByClientID`, then the checks and `Save` |
| `BeginExchange`, `GetCode`, `DeleteCode`, `CheckClient`, `PersistRefreshToken`, `Respond` | `Token`, cut at its store calls; checks belong to the step of the call before them |
| `ExpireKey`, `Tick`, `Crash`, `InsertClient`, ... | Redis's TTL, time, a restart, the User Service |

Four fields of an exchange only observe: `minted`, `deleted`, `after` and `late`.
No guard reads them. PKCE is modelled by what it computes: `Hash` is injective
(`S256`), `plain` compares, another method never matches. Every failing call has
two outcomes where both are possible, effect and no effect. In a query whose
loop does not ask `rows.Err()`, a failure may also leave a part of the rows.

### CodeLifecycle

A code is `fresh`, `live` or `gone`; an exchange may `Claim` a live code and
`Redeem` its claim once; a code that is gone stays gone. Several exchanges may
hold claims on one code: this is what `Get` before `Delete` amounts to, and
stating it here is what makes `CodeRedeemedOnce` of `LoginFlow` worth asking.

### ClientTable

A client is registered with two empty lists, a list becomes any other, and a deletion
takes the lists with it: each is one step. That `ClientRegistry` does nothing else
rests on its transactions (a PUT appears at once), on the foreign key (no list before
its client or after it) and on the kinds of rows (one operation edits one list).

### Migrator

`history` is `flyway_schema_history`, `applied[i]` and `files[i]` are the local
variables of `RunMigrations` in instance `i`, `users` says whether table `users`
holds anything. `EnsureTable` and `CreateTable` are the two halves of
`CREATE TABLE IF NOT EXISTS`, which is not atomic in PostgreSQL; `QueryApplied`,
`ApplyMigration`, `FinishMigrations` follow the loop. A transaction is one step: its
writes appear at COMMIT, and the primary key decides between two. `Fault` is a
crash, an error or a COMMIT whose answer is lost; the process then exits, as
`main` does, and `Start` is the orchestrator's restart with any deployed build.
A COMMIT has landed, or not, by the time its own process has exited: one that arrives
later still is left out (for all properties but `BeatenByAnother`, which speaks of who
committed, it would be the commit of one more instance with an old list). `CreateUser` is the
User Service, which needs nothing of the Authorization Server but the table.

### KeyCache

`cachedKeys` has a slot for each kid and one for `default`, `recent` says whether
`lastFetched` is less than a minute old, `lock` is the holder of `mu` for writing.
Read-locked sections are one step and wait for `lock = None`. `Lock`, `Answer` or
`FetchFails`, `Store` are `fetchJWKS`; `Lookup` and `Reread` the two look-ups of
`resolvePublicKey` with the verdict of `VerifyToken`. `Rotate` is a restart of the
Authorization Server with any other of its `SigningKeys`: a new one or one it has had
before, under another kid or under the same, as when the key file is missing at one start
(a transient key is generated under the configured kid) and there again at the next.
`since` is a history variable: the keys published since the cache was last written.

### ClientRegistry

`rows[k]` are a client's redirect URIs and scopes, each with the request that
inserted it (an observation). A request goes through `CheckClient` and then the
statements of its operation; `dels` and `ins` are what its open transaction has
deleted and inserted, visible to others at `Commit`. A DELETE is two steps,
`StartDelete` (its snapshot) and `WipeRows` or `RemoveRow` (its effect), so that
commits fall in between. `Waits` is the lock table: who waits for whom before the
next statement; `BreakDeadlock` is PostgreSQL's answer to a cycle. A list is the
set of its entries and is worked through in any order, which stands for callers
that send any order, as a deadlock needs.

### Rbac

`things` are the rows of `users`, `roles` and `permissions`, `links` those of the two join
tables. Names are UNIQUE, never change and are never deleted, so a name stands for its
id; `Normal` is the form a text is stored in (trimmed, e-mails in lower case), so that
two texts may mean one user. A request is a creation (`Look`, `Insert`), an assignment
(`FindHolder`, `FindItem`, `Assign`), a removal (`Remove`), or a report of a user, a role
or all roles (`ReadHolder`, `ReadRoles`, and `ReadPermissions` once per role). `listed` is
what a report has found so far. Every error of an INSERT is a 500, of a removal a 400, as
in the handlers. `cut` marks a report whose list ended with an error before its first
row: `GetRolesForUser` does not ask `rows.Err()` then and answers 200 with nothing.

### ExpiringStore and LoginFlow

`place[id]` says whether a record is in Redis, in the memory of the process, or
nowhere; a restart chooses Redis or memory anew and loses the map. `Live` is what
the process takes for valid. `LoginFlow` has two of these stores, the cookies, and
requests of five kinds: logins, logouts, attempts (the client's `/login`), visits
(to `/authorize`), callbacks. A state and its PKCE verifier are one record, so
both are named by the attempt, and `VerifierMatches` compares attempts. `open` and
`posted` tell an exchange the server still works on from one the client has given
up. The data race in `MemorySessionStore.GetSession`, which deletes under a read
lock, is one of the ways to `RestartAuthorizationServer`.

## 3. Model checking

| Run | Instance | Properties | Result |
|---|---|---|---|
| `authcode_redis` | 1 client with 2 URIs, 1 code, 2 exchanges, 2 queries, 3 forms, Redis, failures, crashes | `TypeOK`, `SequentialReuseRejected`, `ExpiredCodeNeverRead`, `NoOrphanRefreshTokens`, `LifecycleSpec`, `RequestsEnd`, `CodesLeaveStore` | hold |
| `authcode_memory` | 2 clients, 2 codes with different PKCE methods, 2 exchanges, in-memory store, crashes | `TokensMatchGrant` | hold |
| `authcode_single_use` | no failures | `SingleUse` | violated |
| `authcode_demo_user` | no failures | `PersistFailsOnlyWithoutClient` | violated |
| `migrator_rollout` | 3 instances, versions 1 to 3, an old build {1, 2} and a new one {1, 2, 3}, 1 fault | `TypeOK`, `AppliedOnce`, `RanksContiguous`, `UpMeansMigrated`, `BeatenByAnother`, `AppliedInOrder`, `UsersSurvive`, `AllUp` | hold |
| `keycache_rotation` | 2 requests, 2 keys that come and go under one kid, one of them under a second kid, too, a forged one, failures, restarts | `TypeOK`, `TrustedOnly`, `CacheIsPublished`, `FetchedOnceAMinute`, `GenuineTokenAccepted`, `CacheMovesForward`, `RequestsEnd` | hold |
| `keycache_rotated` | the same without failures or forgeries | `RotatedKeyFound` | violated |
| `registry` | 1 client_id, 2 URIs, 1 scope, 2 requests out of 13, every operation among them, failures, deadlocks, crashes | `TypeOK`, `NoOrphanRows`, `RegistrationsDoNotMix`, `SetOverwrites`, `NeverFoundEmpty`, `AcknowledgedIsThere`, `TableSpec`, `NoLastingWait`, `RequestsEnd` | hold |
| `registry_one_put` | 2 PUTs, no failures | `OnePutWins` | violated |
| `login_flow` | 1 user, browser, login, logout and code, 2 attempts, 2 callbacks, failures, both servers restarting | `TypeOK`, `OneExchangePerState`, `CodeRedeemedOnce`, `TokensOfAttempt`, `DeadSessionNeverAuthorizes` | hold |
| `rbac` | 1 user (its e-mail in two spellings), 2 roles, 1 permission, 3 requests out of 7, failures, crashes | `TypeOK`, `CreatedOnce`, `ReportsCurrent` | hold |
| `rbac_conflict` | 2 creations of one e-mail, no failures | `ConflictTold` | violated |

**The bounds, and why they are enough.** Each request occurs once; a second one of
the same kind is another element of the set. Two exchanges (callbacks, waiters,
PUTs) are the least that can race; a third adds no new pair, and the invariants
speak of pairs. One code is enough for reuse, expiry and orphans; mixing grants up
needs two, which `authcode_memory` has. Lifetimes are one tick: a record is then
fresh, at its end or past it, and the code makes no finer distinction. Three
instances of the migrator let two race while a third comes up late; three
versions give an order with a middle, and the fault lets a COMMIT go
unacknowledged. Registry requests race in pairs,
and the rows there at the start, any that the tables may hold, stand for what earlier
requests have left. Three requests of `rbac` let a report see an edit that another one
undoes. Inputs are few but each reaches a branch of its own: default
and explicit parameters, both PKCE forms and a wrong verifier, blank and bad list
entries. Symmetry is over values that no
definition tells apart, and only in runs without liveness.
The safety properties that hold do not rest on these bounds at all: each is a
theorem of section 5, and that is why a property is checked by one run only.

**Deadlock.** Runs that switch the check off are of models that come to rest:
requests are finite in number, servers are up, nothing is left to do.

**Fairness.** Only what runs by itself is fair: the steps of a request that has begun
(the router ends it after 60 seconds, `AS/server/routes.go`; the JWKS client after
10, CS's after 15), Redis's expiry, the clock, and restarts of the migrator's
instances (`restart: unless-stopped` in `docker-compose.yml`). Weak fairness is
enough: no step of a request is disabled again and again while the request waits,
except behind a lock or a transaction, whose holders are fair themselves. No arrival, failure,
crash, rotation or administration is fair.

### What does not hold

Five runs end in a counterexample, each with no failing call in it; PROJECT.json
quotes the lines they contradict.

1. **A code can be exchanged twice** (`SingleUse`). `Token` reads the code and deletes
   it in two calls; two exchanges may both read it. The comment at
   `oauth_service.go:179` and `README.md:133` say single-use. What does hold:
   `SequentialReuseRejected`; while the store does not fail, `UsedUpByFirst`: each of the two
   began before the other ended (theorem `FirstUsesUp`); and through the Client Service
   `CodeRedeemedOnce`, since a state lets only one exchange out and a verifier fits only its
   own code.
2. **A demo user gets no tokens** (`PersistFailsOnlyWithoutClient`). Its id is no row of
   `users`, which `refresh_tokens.user_id` references. With users of that table only, nothing but a deleted
   client makes the INSERT fail (theorem `PersistsForStoredUsers`).
3. **A rotated key is never fetched** (`RotatedKeyFound`). The cached `default` answers
   for any unknown kid and nothing expires. What does hold: `GenuineTokenAccepted`, as
   long as the key does not change, and `TrustedOnly` always. An outdated key that the look-up
   finds is also the only reason for such a rejection, beside a fetch of the request's own that
   fails (theorem `RejectedForAReason`).
4. **Two replacements of a list can leave the union** (`OnePutWins`). At READ COMMITTED the
   DELETE of one does not see what the other commits. What does hold:
   `SetOverwrites`, which allows exactly the rows of concurrent requests, and
   `NeverFoundEmpty`.
5. **The loser of two creations is told 500** (`ConflictTold`). The look for the e-mail or the
   name finds nothing for either, and the UNIQUE violation of the INSERT is no error the
   handlers know; `openapi.json:52`, `153` and `229` say 409. What does hold: `CreatedOnce`; and while no statement fails the 500 is told
   only to a creation side by side with one that is answered 201 (theorem `RefusedOnlyByAnother`).

## 4. Properties worth a word

- `TokensMatchGrant` compares what an exchange holds with the request to `/authorize` that
  drew the code, not with the client's rows: those may be replaced in between.
- `NoOrphanRefreshTokens` survives a client deleted between check and INSERT because of the
  foreign key, not of the check; its mutant drops the foreign key.
- `AppliedOnce` and `UsersSurvive` rest on the primary key over `installed_rank`: a rank that
  is free tells an instance that its list is up to date.
- `DeadSessionNeverAuthorizes` covers a server that moves from Redis to memory and back: a
  session that is unseen in between is not over, one past its expiry is.
- `AcknowledgedIsThere` says what a registration or an addition, a series of statements each
  committed by itself, owes those it answers 201 or 200. Its mutant drops an error of one.
- `FetchedOnceAMinute` is the second look behind the lock: without it each request that
  missed the cache with the first one fetches in turn.
- `CacheMovesForward` is the lock held across the fetch: without it an answer of before a rotation
  could be stored over the key of after it, and stay, since nothing expires. It is about keys
  published since the last store and not about the current key: a server that goes back to its
  configured key while a fetch is answered with the transient one gets the transient one cached,
  over the key that was, and is again, the current one.
- `BeatenByAnother`: an instance that finds its rank taken has been beaten by another one that has
  got further, never by its own rows, even if its COMMIT went through and only the answer was
  lost. This is what lets a fleet of restarted losers come up.
- `NoLastingWait`: of the registry's requests that are not over, some can go on or are in a circle of
  waiting that PostgreSQL breaks. Requests wait only for replacements and deletions
  (`WaitsForHolder`), which are the only victims (`Victims`).
- `ReportsCurrent` leaves open only the links that somebody edits while the report is put together:
  any other is listed, or not, as its last edit left it, although each role is read at its own moment.
- `TableSpec` is the refinement of the registry: the rows, less who inserted them.
- `LifecycleSpec` is the refinement: store and requests mapped to `phase`, `claim`, `redeemed`.

Each property has a mutant of the code in PROJECT.json: an operator beside the one it
would replace, commented "Mutation of ...", used by no specification.

## 5. Proofs

Each proof module EXTENDS its model and proves `Spec => []IInv` first: the initial
states satisfy the inductive invariant, and each action keeps each part of it (one
lemma or step per action). The other theorems follow from it. The assumptions
are those of the models: `ConstantsAssumption` (`VersionsAssumption`,
`NoneAssumption`, `DefaultAssumption`), which say what the sets of inputs are made of and that
the values standing for "nothing" are not among them. Nothing is assumed of
sizes: any number of requests, clients, keys, instances and lifetimes. Four theorems say in
their statement what else they assume: `FirstUsesUp` (no call to the code store fails),
`PersistsForStoredUsers` (no call fails and every user of a session is in table `users`),
`RefusedOnlyByAnother` (no statement fails) and `NobodyWaitsForEver` (the set of requests is
finite: of infinitely many each could wait for the next).

| Module | Theorems | What the invariant adds, and why it is needed |
|---|---|---|
| `AuthorizationCodeProofs` | `TypeCorrect`, `GrantSafety`, `SequentialReuse`, `ExpiredCodes`, `NoOrphans`, `NoReturn`, `Refinement`, `FirstUsesUp`, `PersistsForStoredUsers` | `AuthorizeInv`: what an `/authorize` request has checked so far. `StoreInv`: a stored record is what its request drew. `ExchangeInv`: the record an exchange holds is that of its code. `DeletedInv`, `AfterInv`, `LateInv`: an exchange that began after a deletion, or after expiry, cannot have found the code. `RowsInv`: each refresh token's row has its client. `Refinement` maps each step to a step of `CodeLifecycle` or a stutter. `AckInv`, for a store that does not fail: who is past the Delete has had it acknowledged, so that "after a deletion" becomes "after an answer". |
| `MigratorProofs` | `TypeCorrect`, `OnceEach`, `Contiguous`, `Migrated`, `InOrder`, `UsersKept`, `Beaten`, `Losers` | `CountInv` (the ranks are 1..n) and `SeenInv` (what an instance read is a prefix) give `FreeRankMeansUpToDate`: an INSERT that meets no row of its rank comes from an instance that has seen all of the history. Without it an instance with a stale list could commit. `OwnInv`: a row that an instance does not know of is of another one; and `RankTellsStale`: a rank that is taken means a list that is stale. |
| `KeyCacheProofs` | `TypeCorrect`, `OnlyTrusted`, `CachePublished`, `FetchedSparingly`, `GenuineAccepted`, `MovesForward`, `RejectedForAReason`, `RequestsAdvance` | `DocPublished`, `TokenCarried`: what a request holds between two critical sections. `FilledInv`: before any rotation, a request that is past its fetch leaves the key in the cache for those that queued behind it. `LockHeldByFetcher` and `RecentInv`: who fetches is alone, and the last fetch is a minute ago. `FreshInv`: an answer on its way was given after the last write of the cache, since whoever asked has held the lock ever since; so its key is among those of `since`, however often the key changes. |
| `LoginFlowProofs` | `TypeCorrect`, `StateIsSingleUse`, `CodeIsRedeemedOnce`, `TokensAreOfAttempt`, `DeadSessionsStayDead`, `KeepsContract`, `NothingComesBack` | `VisitInv`, `CallbackInv`, `StateInv`, `RedeemInv`: a consumed state is nowhere and stays so through restarts; who redeems a code has the verifier of its attempt, hence its state. `KeepsContract` is the seam: every step is one of `CodeLifecycle` or none. |
| `ClientRegistryProofs` | `TypeCorrect`, `NoOrphans`, `RegistrationsApart`, `Overwrites` | `InsertInv`, `CascadeInv`: uncommitted rows keep their client from being deleted, and a deletion that holds the client keeps others from inserting; `NoOrphanRows` is not inductive without them. `OwnerInv`: one registration at most has inserted a client. `PutInv`: what a replacement has deleted, inserted or found, against the commits of its company. |
| `ReplacementProofs` | `NotFoundEmpty`, `NobodyWaitsForEver`, `Victims`, `RequestsAdvance` | `FirmInv`: replacements that insert nothing, because they found their entries there, rely on a row that none of them has deleted. Each has only the word of its own snapshot; that they do not remove each other's rows follows from the locks on deleted rows (`InsertWaits`), and from who inserted a row being done (`QuietInv`). `PendingInv`: who is in a series of statements has one to run. Then a set of requests that all wait, each for another of the set, would be infinite or have a circle (`WaitingCircle`, over the finite set of requests), and a circle has a victim. |
| `RegistryTableProofs` | `AcknowledgedRows`, `TableRefinement` | `AddPart`: what a series of INSERTs has dealt with is there, unless a concurrent request removes. `RemovePart`: a removal deletes rows of its list, so of one kind. `TableRefinement` maps the INSERT of a row, a removal and a COMMIT to a replacement of one list, and needs `InsertInv` for it: rows to be committed have their client. |
| `RbacProofs` | `TypeCorrect`, `CreationOnce`, `ReportsTell`, `RefusedOnlyByAnother` | `NameInv`: a name that was found or inserted is there for good, so no later INSERT of it succeeds. `EditInv`: what the last edit of a link acknowledged is what `links` says until the next one begins. `ReportInv`, `TodoInv`: a report has that of all roles it has read, and nothing yet of those to be read. `RaceInv`: a creation that did not find the name and whose INSERT would find it has been beaten in between. |

The proofs of `ClientRegistry` begin with what each action does to its own request
(`Moves`), to the requests together (`Persists`) and to the tables (`Edits`). The lemmas
on the parts of the invariant then speak of these three and not of the twelve actions.

## 6. Only model-checked

- Liveness (`RequestsEnd` of three models, `CodesLeaveStore`, `AllUp`) and with it every use of
  fairness and ENABLED, which TLAPS does not reason about. What is proved is the safety half of
  it: that a request of the registry or of the key cache only ever advances
  (`RequestsAdvance`), that requests of the registry never all wait (`NobodyWaitsForEver`), and that an
  instance of the migrator exits only by a fault or beaten by one that has gone on (`Losers`).
  That a step that can be taken is taken stays with TLC.
- What a recursive definition computes for every input would need induction over data,
  which the installed provers cannot do; no module has a recursive definition.

## 7. Not modelled

- *Refresh token rotation and revocation*: `Revoke`, `RevokeFamily`, `GetByTokenHash` exist in
  the repository layer and no service calls them.
- *Which credentials `Authenticate` accepts*: a choice of any user in `BeginLogin`.
- *Encodings*: JWT, PEM, URLs, HTML, JSON. `RequireScope` is a pure check of verified claims.
- *Seconds*: timeouts are choices. That waiters behind a slow JWKS fetch may take
  longer than the server's write timeout is listed as a hazard and not a property.
- *What a lost client may still do*: a client deleted and registered again under its id gets to
  redeem the codes of the old one, since the code compares ids; and the in-memory code store
  keeps expired codes that nobody exchanges. Both are as the code has it, and promised otherwise nowhere.
- *Handlers that only read*, in one SELECT or none (clients, lists of users and of permissions, health, pages), and the demonstration handlers.
- *In-memory repositories for clients and refresh tokens*: `main` cannot run without PostgreSQL.

## 8. Plan

Done, in this order: `AuthorizationCode` with `CodeLifecycle` and its proofs; `Migrator` with
proofs; `KeyCache` with proofs; `ClientRegistry` with proofs; `ExpiringStore` and `LoginFlow` with
proofs; `Rbac` with proofs; `ClientTable`, implemented by `ClientRegistry` and used by
`AuthorizationCode`, with the proof of the refinement; the second look of the key cache.

The invariants and action properties that the passing runs check are all theorems, and each of the
five that do not hold, but `OnePutWins`, has a theorem that says how far it fails; for
`OnePutWins` that is `Overwrites`.

Worth doing next:

1. Proofs: the safety half of `RequestsEnd` and `CodesLeaveStore` for the code grant, as `RequestsAdvance`
   is for the registry and the key cache: no request repeats a call, no code outlives its TTL but for
   Redis's own delay.
2. Proofs: for a fleet of which nothing fails, that each lost race is a migration gained, so that the number
   of restarts is bounded by the number of migrations.
3. `LoginFlow` with two users and two browsers at the client, and its liveness: an attempt that is
   not given up ends with tokens or an error page.
4. `Authorize` against its three SELECTs: which mixtures of two versions of a client it may
   check a request against.
5. The refinement of `ExpiringStore` by a plain set of live records for each backend.
6. A model of the refresh token grant once a service rotates and revokes families.
