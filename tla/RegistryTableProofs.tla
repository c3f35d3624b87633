------------------------ MODULE RegistryTableProofs ------------------------
(***************************************************************************)
(* Proofs that what ClientRegistry acknowledges is there, and that its     *)
(* tables are a ClientTable to their readers.                              *)
(***************************************************************************)
EXTENDS ReplacementProofs

(* What a series of INSERTs has dealt with is there. *)
AddPart(x) ==
    /\ req[x].pc = "insert" => req[x].todo = Sanitized(req[x].in.list)
    /\ req[x].pc = "add" =>
          Removed(x) \/
              Sanitized(req[x].in.list) \ req[x].todo \subseteq NamesOf(rows[ClientOf(x)])

(* A removal deletes rows of its list. *)
RemovePart(x) ==
    req[x].pc = "wipe" /\ req[x].in.op = "remove" =>
        \A r \in req[x].seen : r.name \in req[x].in.list

TInv == RInv /\ \A x \in Requests : AddPart(x) /\ RemovePart(x)
-----------------------------------------------------------------------------
(* The initial states satisfy the invariant. *)
LEMMA TInit == Init => TInv
  BY RInit DEF Init, Idle, TInv, AddPart, RemovePart

(* Where an addition comes from. *)
LEMMA AddFrame ==
  ASSUME IInv, [Next]_vars, NEW x \in Requests, req'[x].pc \in {"insert", "add"}
  PROVE  \/ req'[x] = req[x] /\ ~AddRow(x)
         \/ CheckClient(x) \/ InsertClient(x) \/ AddRow(x)
<1>1. req'[x] = req[x] \/ Begin(x) \/ Step(x)
  BY RequestsStep
<1>2. CASE Begin(x)
  BY <1>2, BeginMoves
<1>3. CASE Step(x)
  BY <1>3, StartDeleteMoves, WipeRowsMoves, RemoveRowMoves, FillRowMoves, CommitMoves,
     RereadMoves, DeleteClientMoves, CascadeMoves, BreakDeadlockMoves DEF Step
<1> QED
  BY <1>1, <1>2, <1>3

(* The INSERT of a client, if it succeeds. *)
LEMMA InsertClientGoes ==
  ASSUME IInv, NEW x \in Requests, InsertClient(x)
  PROVE  /\ req[x].pc = "insert" /\ rows' = rows
         /\ req'[x].pc = "add" => req'[x].todo = req[x].todo
         /\ req'[x].status = 201 /\ req'[x].pc = "ended" => req[x].todo = {}
<1>1. TypeOK
  BY DEF IInv
<1>2. \/ req[x].todo = {} /\ Answers(x, 201)
      \/ Goes(x, "add", req[x].todo)
      \/ Fails(x)
  BY DEF InsertClient
<1> QED
  BY <1>1, <1>2, AnswersTo, FailsTo, GoesTo DEF InsertClient, Runs

(* The INSERT of a row, if it succeeds. *)
LEMMA AddRowEffect ==
  ASSUME IInv, NEW x \in Requests, AddRow(x),
         \/ req'[x].pc \in {"add", "reread"}
         \/ req'[x].pc = "ended" /\ req'[x].status = 201
  PROVE  \E name \in Entries :
            /\ req[x].pc = "add"
            /\ {name} \cup NamesOf(rows[ClientOf(x)]) \subseteq NamesOf(rows'[ClientOf(x)])
            /\ req'[x].pc = "add" => req'[x].todo = req[x].todo \ {name}
            /\ req'[x].pc # "add" => req[x].todo \ {name} = {}
<1> DEFINE k == ClientOf(x)
<1>1. TypeOK /\ req[x].pc = "add"
  BY DEF IInv, AddRow, Inserts
<1>2. k \in ClientIDs
  BY <1>1, ClientOfType
<1>3. ~Answers(x, 400) /\ ~Fails(x)
  BY <1>1, AnswersTo, FailsTo
<1>4. PICK name \in Entries :
          /\ rows' = [rows EXCEPT ![k] = Plus(@, name, x)]
          /\ \/ Goes(x, "add", req[x].todo \ {name})
             \/ req[x].todo \ {name} = {} /\ Answers(x, 201)
             \/ req[x].todo \ {name} = {} /\ Goes(x, "reread", {})
  BY <1>3 DEF AddRow
<1>5. rows'[k] = Plus(rows[k], name, x)
  BY <1>1, <1>2, <1>4 DEF TypeOK
<1>6. {name} \cup NamesOf(rows[k]) \subseteq NamesOf(rows'[k])
  <2>1. CASE name \in NamesOf(rows[k])
    BY <1>5, <2>1 DEF Plus
  <2>2. CASE name \notin NamesOf(rows[k])
    <3> DEFINE row == [name |-> name, by |-> x]
    <3>1. rows'[k] = rows[k] \cup {row} /\ row.name = name
      BY <1>5, <2>2 DEF Plus
    <3> HIDE DEF row
    <3> QED
      BY <3>1 DEF NamesOf
  <2> QED
    BY <2>1, <2>2
<1>7. /\ req'[x].pc = "add" => req'[x].todo = req[x].todo \ {name}
      /\ req'[x].pc # "add" => req[x].todo \ {name} = {}
  BY <1>1, <1>4, GoesTo, AnswersTo
<1> QED
  BY <1>1, <1>6, <1>7

(* Rows that go while another request inserts are its company's doing. *)
LEMMA RowsKept ==
  ASSUME IInv, [Next]_vars, NEW x \in Requests, req[x].pc \in {"insert", "add"}, ~Removed(x)
  PROVE  rows[ClientOf(x)] \subseteq rows'[ClientOf(x)]
<1> SUFFICES ASSUME NEW r \in rows[ClientOf(x)], r \notin rows'[ClientOf(x)] PROVE FALSE
  OBVIOUS
<1>1. ClientOf(x) \in ClientIDs
  BY ClientOfType
<1>2. PICK y \in Requests : req[y].pc # "idle" /\ Edits(y)
  BY RowsStep
<1>3. req[y].pc \in {"wipe", "commit", "cascade"}
  BY <1>1, <1>2, RowsEffect
<1>4. req[y].pc \in Active /\ req[y].in.op \in {"delete", "set", "remove"}
  BY <1>3 DEF Active, IInv, RequestInv, SoundRequest
<1>5. y \in Concurrent(x)
  BY <1>3, <1>4, RunningIsCompany
<1> QED
  BY <1>4, <1>5 DEF Removed

(* What has been dealt with is there, step by step. *)
LEMMA AddPartStep ==
  ASSUME TInv, [Next]_vars, NEW x \in Requests PROVE AddPart(x)'
<1>1. IInv /\ AddPart(x)
  BY DEF TInv, RInv
<1>2. ASSUME req'[x].pc \in {"insert", "add"}
      PROVE  /\ req[x].pc # "idle" /\ req'[x].in = req[x].in /\ ClientOf(x)' = ClientOf(x)
             /\ Removed(x) => Removed(x)'
  <2>1. req[x].pc # "idle"
    BY <1>1, <1>2, AddFrame DEF CheckClient, InsertClient, AddRow, Runs, Inserts
  <2> QED
    BY <1>1, <2>1, ConcurrentGrows
<1>3. ASSUME req'[x].pc = "insert" PROVE req'[x].todo = Sanitized(req'[x].in.list)
  <2>1. req'[x] = req[x] \/ CheckClient(x)
    BY <1>1, <1>3, AddFrame, InsertClientMoves, AddRowMoves
  <2> QED
    BY <1>1, <1>2, <1>3, <2>1, CheckClientEffect DEF AddPart
<1>4. ASSUME req'[x].pc = "add", ~Removed(x)'
      PROVE  Sanitized(req'[x].in.list) \ req'[x].todo \subseteq NamesOf(rows'[ClientOf(x)'])
  <2> DEFINE list == Sanitized(req[x].in.list)
  <2>1. /\ req'[x].in = req[x].in /\ ClientOf(x)' = ClientOf(x) /\ ~Removed(x)
    BY <1>2, <1>4
  <2>2. CASE req'[x] = req[x]
    <3>1. list \ req[x].todo \subseteq NamesOf(rows[ClientOf(x)])
      BY <1>1, <1>4, <2>1, <2>2 DEF AddPart
    <3>2. NamesOf(rows[ClientOf(x)]) \subseteq NamesOf(rows'[ClientOf(x)])
      BY <1>1, <1>4, <2>1, <2>2, RowsKept DEF NamesOf
    <3> QED
      BY <2>1, <2>2, <3>1, <3>2
  <2>3. CASE CheckClient(x)
    BY <1>1, <1>4, <2>1, <2>3, CheckClientEffect DEF Sanitized
  <2>4. CASE InsertClient(x)
    BY <1>1, <1>4, <2>1, <2>4, InsertClientGoes DEF AddPart
  <2>5. CASE AddRow(x)
    <3>1. PICK name \in Entries :
            /\ req[x].pc = "add"
            /\ {name} \cup NamesOf(rows[ClientOf(x)]) \subseteq NamesOf(rows'[ClientOf(x)])
            /\ req'[x].todo = req[x].todo \ {name}
      BY <1>1, <1>4, <2>5, AddRowEffect
    <3>2. list \ req[x].todo \subseteq NamesOf(rows[ClientOf(x)])
      BY <1>1, <2>1, <3>1 DEF AddPart
    <3> QED
      BY <2>1, <3>1, <3>2
  <2> QED
    BY <1>1, <1>4, <2>2, <2>3, <2>4, <2>5, AddFrame
<1> QED
  BY <1>3, <1>4 DEF AddPart, ClientOf

(* What a removal deletes is in its list. *)
LEMMA RemovePartStep ==
  ASSUME TInv, [Next]_vars, NEW x \in Requests PROVE RemovePart(x)'
<1> SUFFICES ASSUME req'[x].pc = "wipe", req'[x].in.op = "remove", NEW r \in req'[x].seen
             PROVE  r.name \in req'[x].in.list
  BY DEF RemovePart
<1>1. IInv /\ RemovePart(x)
  BY DEF TInv, RInv
<1>2. req'[x].in = req[x].in
  BY <1>1, PutFrame, ConcurrentGrows
<1>3. CASE req'[x] = req[x]
  BY <1>1, <1>3 DEF RemovePart
<1>4. CASE StartDelete(x)
  <2> DEFINE found == {s \in rows[ClientOf(x)] : s.name \in Targets(req[x].in)}
  <2>1. req[x] \in Request /\ req \in [Requests -> Request]
    BY <1>1 DEF IInv, TypeOK
  <2>2. ~Fails(x)
    BY <1>1, FailsTo DEF IInv
  <2>3. req' = [req EXCEPT ![x] = [req[x] EXCEPT !.pc = "wipe", !.seen = found]]
    BY <1>4, <2>2 DEF StartDelete
  <2>4. req'[x].seen = found
    <3> HIDE DEF found
    <3> QED
      BY <2>1, <2>3 DEF Request
  <2> QED
    BY <1>2, <2>4 DEF Targets
<1> QED
  BY <1>1, <1>3, <1>4, PutFrame

(* The strengthened invariant holds in every reachable state. *)
THEOREM TInvariance == Spec => []TInv
<1>1. TInv /\ [Next]_vars /\ RInv' => TInv'
  BY AddPartStep, RemovePartStep DEF TInv
<1> QED
  BY <1>1, TInit, RInvariance, PTL DEF Spec

(* When a series of INSERTs is over, all it was about is there. *)
LEMMA Acknowledged ==
  ASSUME TInv, [Next]_vars, NEW x \in Requests, req[x].pc \in {"insert", "add"},
         req'[x].pc = "reread" \/ (req'[x].pc = "ended" /\ req'[x].status = 201),
         ~Removed(x)
  PROVE  Sanitized(req[x].in.list) \subseteq NamesOf(rows'[ClientOf(x)])
<1>1. IInv /\ AddPart(x) /\ TypeOK
  BY DEF TInv, RInv, IInv
<1>2. ~Crash
  <2> SUFFICES ASSUME Crash PROVE FALSE
    OBVIOUS
  <2>1. req'[x] = Over(x, 0)
    BY DEF Crash, Active
  <2> QED
    BY <2>1 DEF Over
<1>3. InsertClient(x) \/ AddRow(x) \/ BreakDeadlock(x)
  <2>1. req'[x] # req[x]
    OBVIOUS
  <2>2. PICK y \in Requests : Begin(y) \/ Step(y)
    BY <1>2, <2>1 DEF Next, vars
  <2>3. y = x
    BY <1>1, <2>1, <2>2, RequestsStep
  <2> QED
    BY <2>2, <2>3 DEF Begin, Step, CheckClient, StartDelete, WipeRows, RemoveRow, FillRow,
                      Commit, Reread, DeleteClient, Cascade, Runs, Inserts
<1>4. ~BreakDeadlock(x)
  BY <1>1, FailsTo DEF BreakDeadlock
<1>5. CASE InsertClient(x)
  BY <1>1, <1>5, InsertClientGoes, InsertClientMoves DEF AddPart
<1>6. CASE AddRow(x)
  <2>1. PICK name \in Entries :
          /\ req[x].pc = "add" /\ req[x].todo \ {name} = {}
          /\ {name} \cup NamesOf(rows[ClientOf(x)]) \subseteq NamesOf(rows'[ClientOf(x)])
    BY <1>1, <1>6, AddRowEffect
  <2>2. Sanitized(req[x].in.list) \ req[x].todo \subseteq NamesOf(rows[ClientOf(x)])
    BY <1>1, <2>1 DEF AddPart
  <2> QED
    BY <2>1, <2>2
<1> QED
  BY <1>3, <1>4, <1>5, <1>6

(***************************************************************************)
(* What a registration or an addition is acknowledged for is there, except *)
(* for what concurrent requests have removed.                              *)
(* (client_service.go:116-134, 217-243, 294-324)                           *)
(***************************************************************************)
THEOREM AcknowledgedRows == Spec => AcknowledgedIsThere
<1> DEFINE Kept(x) ==
        /\ req[x].pc \in {"insert", "add"}
        /\ req'[x].pc = "reread" \/ (req'[x].pc = "ended" /\ req'[x].status = 201)
        => \/ Sanitized(req[x].in.list) \subseteq NamesOf(rows'[ClientOf(x)])
           \/ \E y \in Concurrent(x) : req[y].in.op \in {"delete", "set", "remove"}
<1>1. ASSUME TInv, [Next]_vars, NEW x \in Requests PROVE Kept(x)
  BY <1>1, Acknowledged DEF Removed
<1>2. TInv /\ [Next]_vars => [\A x \in Requests : Kept(x)]_vars
  BY <1>1
<1> QED
  BY <1>2, TInvariance, PTL DEF Spec, AcknowledgedIsThere
-----------------------------------------------------------------------------
(* The refinement of ClientTable. *)

(* A change of the rows of one client is one of its table. *)
LEMMA OneTable ==
  ASSUME NEW k \in ClientIDs,
         \A j \in ClientIDs \ {k} : (j \in clients' <=> j \in clients) /\ rows'[j] = rows[j]
  PROVE  Tables' = [Tables EXCEPT ![k] =
            [registered |-> k \in clients', uris |-> NamesOf(rows'[k]) \cap URIs,
             scopes |-> NamesOf(rows'[k]) \cap Scopes]]
<1> DEFINE T(j) == [registered |-> j \in clients', uris |-> NamesOf(rows'[j]) \cap URIs,
                    scopes |-> NamesOf(rows'[j]) \cap Scopes]
<1>1. Tables' = [j \in ClientIDs |-> T(j)]
  BY DEF Tables, TableOf
<1>2. ASSUME NEW j \in ClientIDs \ {k} PROVE T(j) = TableOf(j)
  <2>1. j \in ClientIDs \ {k} /\ (j \in clients' <=> j \in clients) /\ rows'[j] = rows[j]
    OBVIOUS
  <2>2. (j \in clients') = (j \in clients)
    BY <2>1
  <2> QED
    BY <2>1, <2>2 DEF TableOf
<1>3. Tables = [j \in ClientIDs |-> TableOf(j)]
  BY DEF Tables
<1> HIDE DEF T
<1>4. Tables' = [Tables EXCEPT ![k] = T(k)]
  BY <1>1, <1>2, <1>3
<1> QED
  BY <1>4 DEF T

(* Rows of one kind that come and go replace one list. *)
LEMMA ReplacesList ==
  ASSUME TypeOK, NEW k \in clients, clients' = clients,
         NEW gone \in SUBSET Row, NEW new \in SUBSET Row, NEW K \in {URIs, Scopes},
         rows' = [rows EXCEPT ![k] = (@ \ gone) \cup new],
         \A r \in gone \cup new : r.name \in K
  PROVE  Table!ReplaceURIs(k) \/ Table!ReplaceScopes(k)
<1> DEFINE uris == NamesOf(rows'[k]) \cap URIs
           scopes == NamesOf(rows'[k]) \cap Scopes
<1>1. k \in ClientIDs /\ rows'[k] = (rows[k] \ gone) \cup new
  BY DEF TypeOK
<1>2. Tables' = [Tables EXCEPT ![k] = [registered |-> TRUE, uris |-> uris, scopes |-> scopes]]
  <2>1. \A j \in ClientIDs \ {k} : (j \in clients' <=> j \in clients) /\ rows'[j] = rows[j]
    BY DEF TypeOK
  <2>2. (k \in clients') = TRUE
    OBVIOUS
  <2> QED
    BY <1>1, <2>1, <2>2, OneTable
<1> DEFINE old == NamesOf(rows[k])
<1>3. /\ Tables[k].registered
      /\ Tables[k].uris = old \cap URIs /\ Tables[k].scopes = old \cap Scopes
  BY <1>1 DEF Tables, TableOf
<1>4. URIs \cap Scopes = {} /\ Scopes \cap URIs = {}
  BY ConstantsAssumption
<1>5. ASSUME NEW L, K \cap L = {} PROVE NamesOf(rows'[k]) \cap L = old \cap L
  <2>1. \A r \in gone \cup new : r.name \notin L
    BY <1>5
  <2>2. ASSUME NEW name \in NamesOf(rows'[k]) \cap L PROVE name \in old
    BY <1>1, <2>1, <2>2 DEF NamesOf
  <2>3. ASSUME NEW name \in old \cap L PROVE name \in NamesOf(rows'[k])
    BY <1>1, <2>1, <2>3 DEF NamesOf
  <2> QED
    BY <2>2, <2>3
<1>6. CASE K = URIs
  <2>1. scopes = Tables[k].scopes /\ uris \in SUBSET URIs
    BY <1>3, <1>4, <1>5, <1>6
  <2> HIDE DEF uris, scopes, old
  <2> QED
    BY <1>2, <1>3, <2>1 DEF Table!ReplaceURIs, Table!Becomes
<1>7. CASE K = Scopes
  <2>1. uris = Tables[k].uris /\ scopes \in SUBSET Scopes
    BY <1>3, <1>4, <1>5, <1>7
  <2> HIDE DEF uris, scopes, old
  <2> QED
    BY <1>2, <1>3, <2>1 DEF Table!ReplaceScopes, Table!Becomes
<1> QED
  BY <1>6, <1>7

(* The kinds of what a removal or a replacement is about. *)
LEMMA KindOf ==
  ASSUME NEW in \in Inputs, in.op \in {"set", "remove"}
  PROVE  /\ OfKind(in.kind) \in {URIs, Scopes}
         /\ in.list \cap Names \subseteq OfKind(in.kind)
<1>1. in.kind \in Kinds \ {"both"}
  BY ConstantsAssumption DEF Input
<1>2. OfKind(in.kind) \in {URIs, Scopes}
  BY <1>1 DEF Kinds, OfKind
<1> QED
  BY <1>2, ConstantsAssumption

(* An INSERT of a row. *)
LEMMA AddRowRefines ==
  ASSUME TInv, NEW x \in Requests, AddRow(x), rows' # rows
  PROVE  \E k \in ClientIDs : Table!ReplaceURIs(k) \/ Table!ReplaceScopes(k)
<1> DEFINE k == ClientOf(x)
<1>1. TypeOK /\ k \in ClientIDs
  <2>1. IInv /\ req[x].pc # "idle"
    BY DEF TInv, RInv, AddRow, Inserts
  <2> QED
    BY <2>1, ClientOfType DEF IInv
<1>2. PICK name \in Entries :
        /\ ~Refused(name) /\ ReferenceHolds(k, name \in NamesOf(rows[k]))
        /\ rows' = [rows EXCEPT ![k] = Plus(@, name, x)]
  BY DEF AddRow
<1>3. name \notin NamesOf(rows[k])
  BY <1>1, <1>2 DEF Plus, TypeOK
<1>4. k \in clients /\ clients' = clients /\ name \in Names
  BY <1>2, <1>3 DEF ReferenceHolds, AddRow, Refused, Entries
<1> DEFINE row == [name |-> name, by |-> x]
<1>5. row \in Row /\ row.name = name
  BY <1>4 DEF Row
<1>6. rows' = [rows EXCEPT ![k] = (@ \ {}) \cup {row}]
  BY <1>2, <1>3 DEF Plus
<1> HIDE DEF row, k
<1>7. {row} \in SUBSET Row /\ {} \in SUBSET Row
  BY <1>5
<1>8. CASE name \in URIs
  <2>1. \A r \in {} \cup {row} : r.name \in URIs
    BY <1>5, <1>8
  <2> QED
    BY <1>1, <1>4, <1>6, <1>7, <2>1, ReplacesList
<1>9. CASE name \in Scopes
  <2>1. \A r \in {} \cup {row} : r.name \in Scopes
    BY <1>5, <1>9
  <2> QED
    BY <1>1, <1>4, <1>6, <1>7, <2>1, ReplacesList
<1> QED
  BY <1>4, <1>8, <1>9 DEF Names

(* A client that has rows is there. *)
LEMMA RowsHaveClient ==
  ASSUME TInv, NEW k \in ClientIDs, rows[k] # {} PROVE k \in clients
  BY DEF TInv, RInv, IInv, NoOrphanRows

(* The DELETE of a row. *)
LEMMA RemoveRowRefines ==
  ASSUME TInv, NEW x \in Requests, RemoveRow(x), rows' # rows
  PROVE  \E k \in ClientIDs : Table!ReplaceURIs(k) \/ Table!ReplaceScopes(k)
<1> DEFINE k == ClientOf(x)
           in == req[x].in
           gone == req[x].seen \cap rows[k]
<1>1. /\ IInv /\ TypeOK /\ RemovePart(x) /\ clients' = clients
      /\ req[x].pc = "wipe" /\ in.op = "remove" /\ rows' = [rows EXCEPT ![k] = @ \ gone]
  BY DEF TInv, RInv, IInv, RemoveRow, Runs
<1>2. in \in Inputs /\ k \in ClientIDs
  BY <1>1, ClientOfType
<1>3. gone # {} /\ gone \in SUBSET Row /\ \A r \in gone : r.name \in in.list \cap Names
  BY <1>1, <1>2 DEF TypeOK, RemovePart, Row
<1>4. k \in clients
  BY <1>2, <1>3, RowsHaveClient
<1>5. OfKind(in.kind) \in {URIs, Scopes} /\ \A r \in gone \cup {} : r.name \in OfKind(in.kind)
  BY <1>1, <1>2, <1>3, KindOf
<1>6. rows' = [rows EXCEPT ![k] = (@ \ gone) \cup {}] /\ {} \in SUBSET Row
  BY <1>1
<1>7. TypeOK /\ clients' = clients
  BY <1>1
<1> DEFINE K == OfKind(in.kind)
<1>8. K \in {URIs, Scopes} /\ gone \in SUBSET Row /\ \A r \in gone \cup {} : r.name \in K
  BY <1>3, <1>5
<1> HIDE DEF gone, k, in, K
<1>9. Table!ReplaceURIs(k) \/ Table!ReplaceScopes(k)
  BY <1>4, <1>6, <1>7, <1>8, ReplacesList
<1> QED
  BY <1>2, <1>9

(* The COMMIT of a replacement. *)
LEMMA CommitRefines ==
  ASSUME TInv, NEW x \in Requests, Commit(x), rows' # rows
  PROVE  \E k \in ClientIDs : Table!ReplaceURIs(k) \/ Table!ReplaceScopes(k)
<1> DEFINE k == ClientOf(x)
           in == req[x].in
           dels == req[x].dels
           ins == req[x].ins
<1>1. /\ IInv /\ TypeOK /\ RequestInv /\ KindInv /\ clients' = clients
      /\ req[x].pc = "commit" /\ rows' = [rows EXCEPT ![k] = (@ \ dels) \cup ins]
  BY DEF TInv, RInv, IInv, Commit, Runs
<1>2. in \in Inputs /\ k \in ClientIDs /\ in.op = "set"
  BY <1>1, ClientOfType DEF RequestInv, SoundRequest
<1>3. dels \in SUBSET Row /\ ins \in SUBSET Row
  BY <1>1 DEF TypeOK, Request
<1>4. k \in clients
  <2>1. CASE ins # {}
    BY <1>1, <2>1 DEF IInv, InsertInv
  <2>2. CASE ins = {}
    <3>1. rows[k] # {}
      BY <1>1, <1>2, <2>2 DEF TypeOK
    <3> QED
      BY <1>2, <3>1, RowsHaveClient
  <2> QED
    BY <2>1, <2>2
<1>5. \A r \in ins : r.name \in in.list \cap Names
  <2>1. NamesOf(ins) \subseteq Sanitized(in.list)
    BY <1>1 DEF RequestInv, SoundRequest
  <2> QED
    BY <1>3, <2>1 DEF NamesOf, Sanitized, Row
<1>6. OfKind(in.kind) \in {URIs, Scopes} /\ \A r \in dels \cup ins : r.name \in OfKind(in.kind)
  BY <1>1, <1>2, <1>5, KindOf DEF KindInv
<1> HIDE DEF k, in, dels, ins
<1> QED
  BY <1>1, <1>2, <1>3, <1>4, <1>6, ReplacesList

(* The INSERT of a client. *)
LEMMA InsertClientRefines ==
  ASSUME TInv, NEW x \in Requests, InsertClient(x), clients' # clients
  PROVE  \E k \in ClientIDs : Table!Insert(k)
<1>1. PICK k \in ClientIDs : k = ClientOf(x)
  <2>1. IInv /\ req[x].pc # "idle"
    BY DEF TInv, RInv, InsertClient, Runs
  <2> QED
    BY <2>1, ClientOfType
<1>2. k \notin clients /\ clients' = clients \cup {k} /\ rows' = rows
  BY <1>1 DEF InsertClient
<1>3. rows[k] = {}
  BY <1>2, RowsHaveClient
<1>4. NamesOf(rows[k]) \cap URIs = {} /\ NamesOf(rows[k]) \cap Scopes = {}
  BY <1>3 DEF NamesOf
<1>5. Table!Becomes(k, {}, {})
  <2>1. \A j \in ClientIDs \ {k} : (j \in clients' <=> j \in clients) /\ rows'[j] = rows[j]
    BY <1>2
  <2>2. (k \in clients') = TRUE
    BY <1>2
  <2> QED
    BY <1>2, <1>4, <2>1, <2>2, OneTable DEF Table!Becomes
<1>6. ~Tables[k].registered
  BY <1>2 DEF Tables, TableOf
<1> QED
  BY <1>5, <1>6 DEF Table!Insert

(* The deletion of a client, with its rows. *)
LEMMA CascadeRefines ==
  ASSUME TInv, NEW x \in Requests, Cascade(x), clients' # clients \/ rows' # rows
  PROVE  \E k \in ClientIDs : Table!Delete(k)
<1>1. PICK k \in ClientIDs : k = ClientOf(x)
  <2>1. IInv /\ req[x].pc # "idle"
    BY DEF TInv, RInv, Cascade, Runs
  <2> QED
    BY <2>1, ClientOfType
<1>2. clients' = clients \ {k} /\ rows' = [rows EXCEPT ![k] = {}]
  BY <1>1 DEF Cascade
<1>3. TypeOK /\ NoOrphanRows
  BY DEF TInv, RInv, IInv
<1>4. k \in clients
  <2> SUFFICES ASSUME k \notin clients PROVE FALSE
    OBVIOUS
  <2>1. rows[k] = {}
    BY <1>3 DEF NoOrphanRows
  <2> QED
    BY <1>2, <1>3, <2>1 DEF TypeOK
<1>5. Tables' = [Tables EXCEPT ![k] = Table!Gone]
  <2>1. \A j \in ClientIDs \ {k} : (j \in clients' <=> j \in clients) /\ rows'[j] = rows[j]
    BY <1>2, <1>3 DEF TypeOK
  <2>2. (k \in clients') = FALSE /\ rows'[k] = {}
    BY <1>2, <1>3 DEF TypeOK
  <2>3. NamesOf(rows'[k]) = {}
    BY <2>2 DEF NamesOf
  <2>4. NamesOf(rows'[k]) \cap URIs = {} /\ NamesOf(rows'[k]) \cap Scopes = {}
    BY <2>3
  <2> QED
    BY <2>1, <2>2, <2>4, OneTable DEF Table!Gone
<1>6. Tables[k].registered
  BY <1>4 DEF Tables, TableOf
<1> QED
  BY <1>5, <1>6 DEF Table!Delete

(***************************************************************************)
(* The registry keeps the tables as their readers expect them: clients and *)
(* lists change one at a time, and a list goes with its client.            *)
(***************************************************************************)
THEOREM TableRefinement == Spec => TableSpec
<1>1. Init => Table!Init
  <2> SUFFICES ASSUME Init, NEW k \in ClientIDs PROVE TableOf(k) \in Table!Client
    BY DEF Table!Init, Tables
  <2> DEFINE uris == NamesOf(rows[k]) \cap URIs
             scopes == NamesOf(rows[k]) \cap Scopes
             there == k \in clients
             r == TableOf(k)
  <2>1. uris \in SUBSET URIs /\ scopes \in SUBSET Scopes /\ there \in BOOLEAN
    OBVIOUS
  <2>2. k \notin clients => NamesOf(rows[k]) = {}
    BY DEF Init, NamesOf
  <2>3. ~there => uris = {} /\ scopes = {}
    BY <2>2
  <2>4. r = [registered |-> there, uris |-> uris, scopes |-> scopes]
    BY DEF TableOf
  <2> HIDE DEF uris, scopes, there, r
  <2>5. r \in [registered: BOOLEAN, uris: SUBSET URIs, scopes: SUBSET Scopes]
    BY <2>1, <2>4
  <2>6. ~r.registered => r.uris = {} /\ r.scopes = {}
    BY <2>3, <2>4
  <2>7. r \in Table!Client
    BY <2>5, <2>6 DEF Table!Client
  <2> QED
    BY <2>7 DEF r
<1>2. TInv /\ [Next]_vars => [Table!Next]_Tables
  <2> SUFFICES ASSUME TInv, [Next]_vars, Tables' # Tables PROVE Table!Next
    OBVIOUS
  <2>1. clients' # clients \/ rows' # rows
    BY DEF Tables, TableOf
  <2>2. PICK x \in Requests :
           \/ InsertClient(x) /\ clients' # clients
           \/ AddRow(x) /\ rows' # rows
           \/ RemoveRow(x) /\ rows' # rows
           \/ Commit(x) /\ rows' # rows
           \/ Cascade(x)
    BY <2>1, ClientsFrame, RowsFrame
  <2>3. \E k \in ClientIDs :
           Table!Insert(k) \/ Table!ReplaceURIs(k) \/ Table!ReplaceScopes(k) \/ Table!Delete(k)
    BY <2>1, <2>2, InsertClientRefines, AddRowRefines, RemoveRowRefines, CommitRefines,
       CascadeRefines
  <2> QED
    BY <2>3 DEF Table!Next
<1> QED
  BY <1>1, <1>2, TInvariance, PTL DEF Spec, TableSpec, Table!Spec
=============================================================================
