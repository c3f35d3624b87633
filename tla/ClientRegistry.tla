--------------------------- MODULE ClientRegistry ---------------------------
(***************************************************************************)
(* The administration of OAuth clients by the User Service: registration,  *)
(* deletion, and the redirect URIs and scopes of a client, statement by    *)
(* statement, with any number of requests at once.                         *)
(*                                                                         *)
(* PostgreSQL at its default isolation level, READ COMMITTED: a statement  *)
(* sees what is committed when it starts; it waits for a transaction that  *)
(* has deleted a row it is to delete, or inserted or deleted a row with    *)
(* the key it is to insert; an INSERT that references a client waits for a *)
(* deletion of the client, and the deletion for transactions that have     *)
(* inserted such references.  Requests that only read are left out.        *)
(***************************************************************************)
EXTENDS Integers

CONSTANTS
    ClientIDs,  \* client_id values
    URIs,       \* redirect URIs that parse as http or https URLs
    Scopes,     \* scope names
    Bad,        \* a redirect URI that does not
    Blank,      \* an empty entry of a list
    Requests,   \* requests to the API
    Inputs,     \* what they ask for
    Faulty,     \* statements may fail
    None        \* no request: the rows there at the start

Names == URIs \cup Scopes

Kinds == {"redirect_uris", "scopes", "both"}

OfKind(kind) ==
    (IF kind = "scopes" THEN {} ELSE URIs) \cup (IF kind = "redirect_uris" THEN {} ELSE Scopes)

(***************************************************************************)
(* What a request asks for; "add" is POST, "set" is PUT.  A list is the    *)
(* set of its entries: callers send them in any order, so requests work    *)
(* through them in any order.                                              *)
(***************************************************************************)
Entries == Names \cup {Bad, Blank}

Input ==
    [op: {"register", "delete", "add", "set", "remove"}, client: ClientIDs,
     kind: Kinds, list: SUBSET Entries]

(* A row of client_redirect_uris or client_scopes, and who inserted it. *)
Row == [name: Names, by: Requests \cup {None}]

ASSUME ConstantsAssumption ==
    /\ Inputs \subseteq Input
    /\ URIs \cap Scopes = {}
    /\ Bad \notin Names /\ Blank \notin Names /\ Bad # Blank
    /\ None \notin Requests /\ None \notin Inputs
    /\ \A in \in Inputs :
          /\ in.list \subseteq OfKind(in.kind) \cup {Bad, Blank}
          /\ in.kind = "scopes" => Bad \notin in.list
          /\ in.kind = "both" => in.op \in {"register", "delete"}
    /\ Faulty \in BOOLEAN

VARIABLES
    clients,  \* client_ids in table oauth_clients
    rows,     \* rows of the two other tables, by client_id
    req       \* requests, with their local variables and transactions

vars == <<clients, rows, req>>

Active == {"check", "insert", "add", "snap", "wipe", "fill", "commit", "delete", "cascade", "reread"}

(* seen: what a DELETE statement found; dels, ins: uncommitted changes. *)
Request ==
    [pc: {"idle", "ended"} \cup Active,
     in: Inputs \cup {None},
     todo: SUBSET Entries,                        \* still to be inserted
     seen: SUBSET Row, dels: SUBSET Row, ins: SUBSET Row,
     status: {0, 200, 201, 400, 404, 409, 500},  \* 0: none yet, or for ever
     after: SUBSET Requests]                      \* ended when it began

TypeOK ==
    /\ clients \subseteq ClientIDs
    /\ rows \in [ClientIDs -> SUBSET Row]
    /\ req \in [Requests -> Request]

Idle ==
    [pc |-> "idle", in |-> None, todo |-> {}, seen |-> {}, dels |-> {}, ins |-> {},
     status |-> 0, after |-> {}]

Init ==
    /\ clients \in SUBSET ClientIDs
    /\ rows \in [ClientIDs -> SUBSET [name: Names, by: {None}]]
    /\ \A k \in ClientIDs \ clients : rows[k] = {}
    /\ req = [x \in Requests |-> Idle]

NamesOf(S) == {r.name : r \in S}

(* Blank entries are skipped. *)
Sanitized(list) == list \ {Blank}

ClientOf(x) == req[x].in.client

(* The entries that may be next; a registration inserts its URIs first. *)
Upcoming(x) ==
    LET uris == req[x].todo \cap URIs IN
    IF req[x].in.op = "register" /\ uris # {} THEN uris ELSE req[x].todo

(* What x has to wait for before it inserts a name, if it inserts it next: *)
(* a row that is there already references nothing anew.                    *)
InsertWaits(x, y, name) ==
    /\ x # y /\ name \in Names /\ req[y].pc # "idle" /\ ClientOf(x) = ClientOf(y)
    /\ \/ name \in NamesOf(req[y].dels \cup req[y].ins)
       \/ req[y].pc = "cascade" /\ name \notin NamesOf(rows[ClientOf(x)] \ req[x].dels)

(* What it has to wait for before its next statement, or may have to. *)
Waits(x, y) ==
    /\ x # y /\ req[x].pc \in Active /\ req[y].pc # "idle" /\ ClientOf(x) = ClientOf(y)
    /\ \/ req[x].pc = "wipe" /\ req[x].seen \cap req[y].dels # {}
       \/ req[x].pc \in {"add", "fill"} /\ \E name \in Upcoming(x) : InsertWaits(x, y, name)
       \/ req[x].pc = "insert" /\ req[y].pc = "cascade"
       \/ req[x].pc = "delete" /\ (req[y].pc = "cascade" \/ req[y].ins # {})
       \/ req[x].pc = "cascade" /\ req[y].dels # {}

Runs(x, pc) == req[x].pc = pc /\ \A y \in Requests : ~Waits(x, y)

Inserts(x, pc, name) ==
    /\ req[x].pc = pc /\ name \in Upcoming(x)
    /\ \A y \in Requests : ~InsertWaits(x, y, name)

(* A request that is over; 0: its process died under it. *)
Over(x, status) ==
    [pc |-> "ended", in |-> req[x].in, todo |-> {}, seen |-> {}, dels |-> {}, ins |-> {},
     status |-> status, after |-> req[x].after]

(* The answer; a transaction still open is rolled back. *)
Answers(x, status) == req' = [req EXCEPT ![x] = Over(x, status)]

(* RemoveScope and RemoveRedirectURI answer 400 to any other error. *)
ErrorStatus(x) == IF req[x].in.op = "remove" THEN 400 ELSE 500

Fails(x) == Answers(x, ErrorStatus(x))

Goes(x, pc, todo) ==
    req' = [req EXCEPT ![x] = [@ EXCEPT !.pc = pc, !.todo = todo]]
-----------------------------------------------------------------------------
(* The handlers refuse an empty list to add. *)
Begin(x) ==
    /\ req[x].pc = "idle"
    /\ \E in \in Inputs :
          LET refused == in.op = "add" /\ in.list = {}
              ended == {y \in Requests : req[y].pc = "ended"}
          IN req' = [req EXCEPT ![x] =
                [@ EXCEPT !.in = in, !.after = ended,
                          !.pc = IF refused THEN "ended" ELSE "check",
                          !.status = IF refused THEN 400 ELSE 0]]
    /\ UNCHANGED <<clients, rows>>

(***************************************************************************)
(* GetByClientID, which every operation begins with, and the validation of *)
(* the whole list that RegisterClient and SetRedirectURIs do next.  (A     *)
(* name that is missing is refused before; a generated id is a new one.)   *)
(***************************************************************************)
CheckClient(x) ==
    LET in == req[x].in
        found == in.client \in clients
        bad == in.op \in {"register", "set"} /\ Bad \in in.list
    IN
    /\ Runs(x, "check")
    /\ \/ in.op = "register" /\ found /\ Answers(x, 409)
       \/ in.op # "register" /\ ~found /\ Answers(x, 404)
       \/ (in.op = "register" <=> ~found) /\ bad /\ Answers(x, 400)
       \/ /\ (in.op = "register" <=> ~found) /\ ~bad
          /\ \/ in.op = "register" /\ Goes(x, "insert", Sanitized(in.list))
             \/ in.op = "delete" /\ Goes(x, "delete", {})
             \/ in.op = "add" /\ Goes(x, "add", in.list)
             \/ in.op = "set" /\ Goes(x, "snap", Sanitized(in.list))
             \/ in.op = "remove" /\ Goes(x, "snap", {})
       \/ Faulty /\ Fails(x)
    /\ UNCHANGED <<clients, rows>>

(* Mutation of InsertClient: ON CONFLICT (client_id) DO NOTHING. *)
InsertClientAnyway(x) ==
    /\ Runs(x, "insert")
    /\ clients' = clients \cup {ClientOf(x)}
    /\ IF req[x].todo = {} THEN Answers(x, 201) ELSE Goes(x, "add", req[x].todo)
    /\ UNCHANGED rows

(* Create: the INSERT fails if the client_id has come to exist. *)
InsertClient(x) ==
    LET k == ClientOf(x)
        todo == req[x].todo
    IN
    /\ Runs(x, "insert")
    /\ \/ /\ k \notin clients
          /\ clients' = clients \cup {k}
          /\ IF todo = {} THEN Answers(x, 201) ELSE Goes(x, "add", todo)
       \/ /\ k \in clients \/ Faulty
          /\ clients' \in {clients, clients \cup {k}}
          /\ Fails(x)
    /\ UNCHANGED rows

(* One more name among a client's rows, unless it is there. *)
Plus(S, name, x) == IF name \in NamesOf(S) THEN S ELSE S \cup {[name |-> name, by |-> x]}

(* Mutation of ReferenceHolds: the tables reference nothing. *)
ReferenceUnchecked(k, present) == TRUE

(* The foreign key of a row that is to be inserted. *)
ReferenceHolds(k, present) == present \/ k \in clients

(* Mutation of Refused: entries are inserted as they are. *)
RefusedNone(name) == FALSE

(* What the loops of AddScopes and AddRedirectURIs do not insert. *)
Refused(name) == name \in {Bad, Blank}

(* Mutation of AddRow: the error of the INSERT is dropped. *)
AddRowUnchecked(x) ==
    /\ \E name \in Entries :
          LET k == ClientOf(x)
              rest == req[x].todo \ {name}
              holds == ReferenceHolds(k, name \in NamesOf(rows[k]))
          IN
          /\ Inserts(x, "add", name)
          /\ \/ Refused(name) /\ Answers(x, 400) /\ UNCHANGED rows
             \/ /\ ~Refused(name)
                /\ \/ holds /\ rows' = [rows EXCEPT ![k] = Plus(@, name, x)]
                   \/ (~holds \/ Faulty) /\ UNCHANGED rows
                /\ \/ rest # {} /\ Goes(x, "add", rest)
                   \/ rest = {} /\ req[x].in.op = "register" /\ Answers(x, 201)
                   \/ rest = {} /\ req[x].in.op = "add" /\ Goes(x, "reread", {})
    /\ UNCHANGED clients

(***************************************************************************)
(* AddRedirectURI or AddScope for the next entry, a transaction of its     *)
(* own.  An "add" has inserted the entries before one it refuses.          *)
(***************************************************************************)
AddRow(x) ==
    /\ \E name \in Entries :
          LET k == ClientOf(x)
              rest == req[x].todo \ {name}
              holds == ReferenceHolds(k, name \in NamesOf(rows[k]))
              added == [rows EXCEPT ![k] = Plus(@, name, x)]
          IN
          /\ Inserts(x, "add", name)
          /\ \/ /\ Refused(name)
                /\ Answers(x, 400)
                /\ UNCHANGED rows
             \/ /\ ~Refused(name) /\ holds
                /\ rows' = added
                /\ \/ rest # {} /\ Goes(x, "add", rest)
                   \/ rest = {} /\ req[x].in.op = "register" /\ Answers(x, 201)
                   \/ rest = {} /\ req[x].in.op = "add" /\ Goes(x, "reread", {})
             \/ /\ ~Refused(name)
                /\ ~holds \/ Faulty
                /\ UNCHANGED rows \/ (holds /\ rows' = added)
                /\ Fails(x)
    /\ UNCHANGED clients

(* What the DELETE of a "set" or of a "remove" is about. *)
Targets(in) == IF in.op = "remove" THEN in.list ELSE OfKind(in.kind)

(* A DELETE statement starts: in the transaction of a Replace, or alone. *)
StartDelete(x) ==
    /\ Runs(x, "snap")
    /\ \/ req' = [req EXCEPT ![x] =
            [@ EXCEPT !.pc = "wipe",
                      !.seen = {r \in rows[ClientOf(x)] : r.name \in Targets(req[x].in)}]]
       \/ Faulty /\ Fails(x)
    /\ UNCHANGED <<clients, rows>>

(* Mutation of WipeRows: the DELETE is committed by itself. *)
WipeRowsAtOnce(x) ==
    LET k == ClientOf(x) IN
    /\ Runs(x, "wipe") /\ req[x].in.op = "set"
    /\ rows' = [rows EXCEPT ![k] = @ \ req[x].seen]
    /\ req' = [req EXCEPT ![x] =
          [@ EXCEPT !.pc = IF req[x].todo = {} THEN "commit" ELSE "fill", !.seen = {}]]
    /\ UNCHANGED clients

(* Replace...: it deletes those of the rows it saw that are still there. *)
WipeRows(x) ==
    LET k == ClientOf(x) IN
    /\ Runs(x, "wipe") /\ req[x].in.op = "set"
    /\ \/ req' = [req EXCEPT ![x] =
            [@ EXCEPT !.pc = IF req[x].todo = {} THEN "commit" ELSE "fill",
                      !.dels = req[x].seen \cap rows[k], !.seen = {}]]
       \/ Faulty /\ Fails(x)
    /\ UNCHANGED <<clients, rows>>

(* RemoveScope and RemoveRedirectURI *)
RemoveRow(x) ==
    LET k == ClientOf(x)
        gone == req[x].seen \cap rows[k]
        removed == [rows EXCEPT ![k] = @ \ gone]
    IN
    /\ Runs(x, "wipe") /\ req[x].in.op = "remove"
    /\ \/ gone # {} /\ rows' = removed /\ Answers(x, 200)
       \/ gone = {} /\ Fails(x) /\ UNCHANGED rows
       \/ Faulty /\ rows' \in {rows, removed} /\ Fails(x)
    /\ UNCHANGED clients

(* Mutation of FillRow: the transaction of a failed INSERT is left open. *)
FillRowUnended(x) ==
    /\ \E name \in Entries :
          LET rest == req[x].todo \ {name}
              visible == (rows[ClientOf(x)] \ req[x].dels) \cup req[x].ins
          IN
          /\ Inserts(x, "fill", name)
          /\ \/ req' = [req EXCEPT ![x] =
                   [@ EXCEPT !.pc = IF rest = {} THEN "commit" ELSE "fill", !.todo = rest,
                             !.ins = req[x].ins \cup (Plus(visible, name, x) \ visible)]]
             \/ Faulty /\ req' = [req EXCEPT ![x] = [@ EXCEPT !.pc = "ended", !.status = 500]]
    /\ UNCHANGED <<clients, rows>>

(* The INSERT of the next entry, in the transaction of a Replace. *)
FillRow(x) ==
    /\ \E name \in Entries :
          LET k == ClientOf(x)
              rest == req[x].todo \ {name}
              visible == (rows[k] \ req[x].dels) \cup req[x].ins
              holds == ReferenceHolds(k, name \in NamesOf(visible))
          IN
          /\ Inserts(x, "fill", name)
          /\ \/ /\ holds
                /\ req' = [req EXCEPT ![x] =
                      [@ EXCEPT !.pc = IF rest = {} THEN "commit" ELSE "fill", !.todo = rest,
                                !.ins = req[x].ins \cup (Plus(visible, name, x) \ visible)]]
             \/ (~holds \/ Faulty) /\ Fails(x)
    /\ UNCHANGED <<clients, rows>>

(* Mutation of Commit: what the request inserts comes on top. *)
CommitOnTop(x) ==
    LET k == ClientOf(x) IN
    /\ Runs(x, "commit")
    /\ rows' = [rows EXCEPT ![k] = @ \cup req[x].ins]
    /\ req' = [req EXCEPT ![x] = [@ EXCEPT !.pc = "reread", !.dels = {}, !.ins = {}]]
    /\ UNCHANGED clients

Commit(x) ==
    LET k == ClientOf(x)
        replaced == [rows EXCEPT ![k] = (@ \ req[x].dels) \cup req[x].ins]
    IN
    /\ Runs(x, "commit")
    /\ \/ /\ rows' = replaced
          /\ req' = [req EXCEPT ![x] = [@ EXCEPT !.pc = "reread", !.dels = {}, !.ins = {}]]
       \/ Faulty /\ rows' \in {rows, replaced} /\ Fails(x)
    /\ UNCHANGED clients

(* The list an "add" or a "set" answers with. *)
Reread(x) ==
    /\ Runs(x, "reread")
    /\ Answers(x, 200) \/ (Faulty /\ Fails(x))
    /\ UNCHANGED <<clients, rows>>

(* Delete: the client's row is found and locked, or is gone. *)
DeleteClient(x) ==
    /\ Runs(x, "delete")
    /\ \/ ClientOf(x) \in clients /\ Goes(x, "cascade", {})
       \/ ClientOf(x) \notin clients /\ Fails(x)
       \/ Faulty /\ Fails(x)
    /\ UNCHANGED <<clients, rows>>

(* ON DELETE CASCADE *)
Cascade(x) ==
    LET k == ClientOf(x) IN
    /\ Runs(x, "cascade")
    /\ \/ /\ clients' = clients \ {k}
          /\ rows' = [rows EXCEPT ![k] = {}]
          /\ Answers(x, 200)
       \/ /\ Faulty
          /\ \/ UNCHANGED <<clients, rows>>
             \/ clients' = clients \ {k} /\ rows' = [rows EXCEPT ![k] = {}]
          /\ Fails(x)

(* S has whom x waits for, and whom its members wait for in turn. *)
Company(x, S) == \A y \in Requests, z \in S \cup {x} : Waits(z, y) => y \in S

(* x is among those, however few: it waits for itself. *)
Deadlocked(x) == \A S \in SUBSET Requests : Company(x, S) => x \in S

(* PostgreSQL ends a deadlock with an error for one of the transactions. *)
BreakDeadlock(x) ==
    /\ req[x].pc \in Active
    /\ Deadlocked(x)
    /\ Fails(x)
    /\ UNCHANGED <<clients, rows>>

(* The process dies; PostgreSQL rolls back what it had open. *)
Crash ==
    /\ req' = [x \in Requests |-> IF req[x].pc \in Active THEN Over(x, 0) ELSE req[x]]
    /\ UNCHANGED <<clients, rows>>
-----------------------------------------------------------------------------
Step(x) ==
    \/ CheckClient(x) \/ InsertClient(x) \/ AddRow(x) \/ StartDelete(x) \/ WipeRows(x)
    \/ RemoveRow(x) \/ FillRow(x) \/ Commit(x) \/ Reread(x) \/ DeleteClient(x)
    \/ Cascade(x) \/ BreakDeadlock(x)

Next == Crash \/ \E x \in Requests : Begin(x) \/ Step(x)

Spec == Init /\ [][Next]_vars

(* Requests that have begun are scheduled, and the database answers. *)
FairSpec == Spec /\ \A x \in Requests : WF_vars(Step(x))
-----------------------------------------------------------------------------
(* Properties *)

(***************************************************************************)
(* No redirect URI or scope is left of a client that is deleted, although  *)
(* other requests have found the client before it was.                     *)
(* (client_service.go:218-243, 295-324; V2 migration, lines 25 and 36)     *)
(***************************************************************************)
NoOrphanRows == \A k \in ClientIDs \ clients : rows[k] = {}

(***************************************************************************)
(* Whatever waits for whom: if any request is unfinished there is one that *)
(* has a statement to run and waits for nobody, or one that PostgreSQL     *)
(* picks as the victim of a deadlock.  Locks are taken in the order of the *)
(* callers' lists.  (client_repository.go:196-220, client_service.go:309)  *)
(***************************************************************************)
CanGo(x) ==
    \/ Deadlocked(x)
    \/ \E pc \in Active \ {"add", "fill"} : Runs(x, pc)
    \/ \E name \in Entries : Inserts(x, "add", name) \/ Inserts(x, "fill", name)

NoLastingWait ==
    (\E x \in Requests : req[x].pc \in Active) =>
        \E x \in Requests : req[x].pc \in Active /\ CanGo(x)

Committed(k, kind) == {r \in rows[k] : r.name \in OfKind(kind)}

(***************************************************************************)
(* Two registrations of one client_id do not add up to one client, unless  *)
(* the client has been deleted meanwhile: the check for the id and the     *)
(* INSERT are two statements.  (client_service.go:62-68, 117-134)          *)
(***************************************************************************)
RegistrationsDoNotMix ==
    \A k \in ClientIDs : \A r, s \in rows[k] :
        /\ r.by # None /\ s.by # None /\ r.by # s.by
        /\ req[r.by].in.op = "register" /\ req[s.by].in.op = "register"
        => \E z \in Requests : req[z].in # None /\ req[z].in.op = "delete"

(***************************************************************************)
(* A PUT replaces a list in one transaction: nobody, not even the          *)
(* Authorization Server in the middle of it, finds the list of a client    *)
(* empty that only ever gets lists that are not.                           *)
(* (client_repository.go:196-217, 284-305)                                 *)
(***************************************************************************)
Empties(x) ==
    \/ req[x].in.op \in {"delete", "remove"}
    \/ req[x].in.op = "set" /\ Sanitized(req[x].in.list) = {}

NeverFoundEmpty ==
    [][\A k \in ClientIDs, kind \in Kinds :
          Committed(k, kind) # {} /\ Committed(k, kind)' = {} =>
              \E x \in Requests : req[x].in # None /\ Empties(x)]_vars

(* The requests x has had company of. *)
Concurrent(x) == {y \in Requests \ (req[x].after \cup {x}) : req[y].pc # "idle"}

(***************************************************************************)
(* When a PUT commits, what is there beyond its list was inserted by       *)
(* requests it ran side by side with, and what is missing of its list they *)
(* have removed.  (client_repository.go:196-217, 284-305)                  *)
(***************************************************************************)
SetOverwrites ==
    [][\A x \in Requests :
          req[x].pc = "commit" /\ req'[x].pc = "reread" =>
              LET k == ClientOf(x)
                  list == Sanitized(req[x].in.list)
                  now == Committed(k, req[x].in.kind)'
              IN /\ \A r \in now : r.name \in list \/ r.by \in Concurrent(x)
                 /\ list \subseteq NamesOf(now) \/
                       \E y \in Concurrent(x) : req[y].in.op \in {"delete", "set", "remove"}]_vars

(***************************************************************************)
(* A registration or an addition is a series of statements, each committed *)
(* by itself.  When the last one lets it be acknowledged, all that was     *)
(* asked for is there, whatever has failed in between, except for what     *)
(* requests it ran side by side with have removed.                         *)
(* (client_service.go:116-134, 217-243, 294-324)                           *)
(***************************************************************************)
AcknowledgedIsThere ==
    [][\A x \in Requests :
          /\ req[x].pc \in {"insert", "add"}
          /\ req'[x].pc = "reread" \/ (req'[x].pc = "ended" /\ req'[x].status = 201)
          => \/ Sanitized(req[x].in.list) \subseteq NamesOf(rows'[ClientOf(x)])
             \/ \E y \in Concurrent(x) : req[y].in.op \in {"delete", "set", "remove"}]_vars

(***************************************************************************)
(* Readers of the three tables, the Authorization Server among them, see   *)
(* one client or one list change at a time, and no list without its client *)
(* (ClientTable), however the statements of requests interleave.           *)
(* (client_repository.go:22-48, 115-129, 156-217, 244-305; V2 migration)   *)
(***************************************************************************)
TableOf(k) ==
    [registered |-> k \in clients,
     uris |-> NamesOf(rows[k]) \cap URIs, scopes |-> NamesOf(rows[k]) \cap Scopes]

Tables == [k \in ClientIDs |-> TableOf(k)]

Table == INSTANCE ClientTable WITH clients <- Tables

TableSpec == Table!Spec

(***************************************************************************)
(* Every request is answered, deadlocks and failures notwithstanding.      *)
(***************************************************************************)
RequestsEnd == \A x \in Requests : req[x].pc \in Active ~> req[x].pc = "ended"

(***************************************************************************)
(* What client_repository.go:196 says of a PUT: it "overwrites/replaces    *)
(* all redirect URIs for a client with the provided list in a              *)
(* transaction".  Once PUTs are all that has been asked, and have          *)
(* succeeded, the list of one of them is what is there.                    *)
(***************************************************************************)
OnePutWins ==
    (\A x \in Requests : req[x].pc = "ended" /\ req[x].in.op = "set" /\ req[x].status = 200) =>
        \A k \in ClientIDs, kind \in {"redirect_uris", "scopes"} :
            LET puts == {x \in Requests : ClientOf(x) = k /\ req[x].in.kind = kind} IN
            puts = {} \/ \E x \in puts :
                NamesOf(Committed(k, kind)) = Sanitized(req[x].in.list)
=============================================================================
