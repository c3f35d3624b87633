------------------------ MODULE ClientRegistryProofs ------------------------
(***************************************************************************)
(* Proofs about ClientRegistry, for any number of requests, clients and    *)
(* entries, with and without failing statements.                           *)
(***************************************************************************)
EXTENDS ClientRegistry, TLAPS

(* What request x has established at each point, as far as it knows itself. *)
SoundRequest(x, r) ==
    /\ r.pc = "idle" <=> r.in = None
    /\ r.pc \notin {"fill", "commit"} => r.dels = {} /\ r.ins = {}
    /\ r.pc = "insert" => r.in.op = "register"
    /\ r.pc = "add" => r.in.op \in {"register", "add"}
    /\ r.pc \in {"delete", "cascade"} => r.in.op = "delete"
    /\ r.pc \in {"snap", "wipe"} => r.in.op \in {"set", "remove"}
    /\ r.pc \in {"fill", "commit"} => r.in.op = "set"
    /\ r.pc \in {"snap", "wipe"} /\ r.in.op = "set" => r.todo = Sanitized(r.in.list)
    /\ r.pc \in {"snap", "wipe", "fill", "commit"} /\ r.in.op = "set" => Bad \notin r.in.list
    /\ r.pc \in {"fill", "commit"} =>
          r.todo \subseteq Sanitized(r.in.list) /\ NamesOf(r.ins) \subseteq Sanitized(r.in.list)
    /\ r.pc = "commit" => r.todo = {}
    /\ \A i \in r.ins : i.by = x

RequestInv == \A x \in Requests : SoundRequest(x, req[x])

AfterInv == \A x \in Requests : \A y \in req[x].after : req[y].pc = "ended"

(* Who inserted a row has asked for that client. *)
RowInv ==
    \A k \in ClientIDs : \A r \in rows[k] :
        r.by # None => req[r.by].pc # "idle" /\ ClientOf(r.by) = k

(***************************************************************************)
(* A request that has inserted rows keeps its client from being deleted,   *)
(* and a deletion that has the client keeps others from inserting.         *)
(***************************************************************************)
InsertInv == \A x \in Requests : req[x].ins # {} => ClientOf(x) \in clients

CascadeInv ==
    \A x, y \in Requests :
        /\ x # y /\ req[x].pc = "cascade" /\ req[y].pc # "idle"
        /\ ClientOf(x) = ClientOf(y)
        => req[y].ins = {}

(* A registration that has inserted its client, and has rows to show for it. *)
Owner(x) ==
    /\ req[x].pc # "idle" /\ req[x].in.op = "register"
    /\ req[x].pc = "add" \/ \E r \in rows[ClientOf(x)] : r.by = x

Deleted == \E z \in Requests : req[z].in # None /\ req[z].in.op = "delete"

OwnerInv ==
    ~Deleted =>
        /\ \A x \in Requests : Owner(x) => ClientOf(x) \in clients
        /\ \A x, y \in Requests :
              x # y /\ Owner(x) /\ Owner(y) => ClientOf(x) # ClientOf(y)

(***************************************************************************)
(* While a replacement x is under way: a row it has not deleted and not    *)
(* inserted is of a concurrent request; an entry it has dealt with is      *)
(* there, unless a concurrent request has removed it.                      *)
(***************************************************************************)
Removed(x) == \E y \in Concurrent(x) : req[y].in.op \in {"delete", "set", "remove"}

Foreign(x, S) ==
    \A r \in Committed(ClientOf(x), req[x].in.kind) : r \in S \/ r.by \in Concurrent(x)

SeenPart(x) == req[x].pc = "wipe" /\ req[x].in.op = "set" => Foreign(x, req[x].seen)

DelsPart(x) == req[x].pc \in {"fill", "commit"} => Foreign(x, req[x].dels)

NamesPart(x) ==
    req[x].pc \in {"fill", "commit"} =>
        Removed(x) \/
            \A name \in Sanitized(req[x].in.list) \ req[x].todo :
                name \in NamesOf((rows[ClientOf(x)] \ req[x].dels) \cup req[x].ins)

PutInv == \A x \in Requests : SeenPart(x) /\ DelsPart(x) /\ NamesPart(x)

(* The inductive invariant. *)
IInv ==
    /\ TypeOK /\ RequestInv /\ AfterInv /\ RowInv
    /\ NoOrphanRows /\ InsertInv /\ CascadeInv /\ OwnerInv /\ PutInv
-----------------------------------------------------------------------------
(* The initial states satisfy the invariant. *)
LEMMA InitInv == Init => IInv
<1> SUFFICES ASSUME Init PROVE IInv
  OBVIOUS
<1>1. Idle \in Request
  BY DEF Idle, Request
<1>2. TypeOK
  <2>1. [name: Names, by: {None}] \subseteq Row
    BY DEF Row
  <2> QED
    BY <1>1, <2>1 DEF Init, TypeOK
<1>3. RequestInv /\ AfterInv
  BY DEF Init, Idle, RequestInv, SoundRequest, AfterInv
<1>4. RowInv /\ NoOrphanRows
  BY DEF Init, RowInv, NoOrphanRows
<1>5. InsertInv /\ CascadeInv /\ PutInv
  BY DEF Init, Idle, InsertInv, CascadeInv, PutInv, SeenPart, DelsPart, NamesPart
<1>6. OwnerInv
  BY DEF Init, Idle, OwnerInv, Owner
<1> QED
  BY <1>2, <1>3, <1>4, <1>5, <1>6 DEF IInv
-----------------------------------------------------------------------------
(* A step of request x, which makes it r. *)
Move(x, r) ==
    /\ req' = [req EXCEPT ![x] = r]
    /\ SoundRequest(x, r)
    /\ r.pc # "idle" /\ req[x].pc # "ended"
    /\ req[x].pc = "idle" => r.after = {y \in Requests : req[y].pc = "ended"}
    /\ req[x].pc # "idle" => r.in = req[x].in /\ r.after = req[x].after

(* Moves(x): x takes a step of this kind. *)
Moves(x) == \E r \in Request : Move(x, r)

Statuses == {0, 200, 201, 400, 404, 409, 500}

(* One field of a request at a time. *)
LEMMA RequestFields ==
  ASSUME NEW q \in Request
  PROVE  /\ \A pc \in {"idle", "ended"} \cup Active : [q EXCEPT !.pc = pc] \in Request
         /\ \A in \in Inputs : [q EXCEPT !.in = in] \in Request
         /\ \A todo \in SUBSET Entries : [q EXCEPT !.todo = todo] \in Request
         /\ \A seen \in SUBSET Row : [q EXCEPT !.seen = seen] \in Request
         /\ \A dels \in SUBSET Row : [q EXCEPT !.dels = dels] \in Request
         /\ \A ins \in SUBSET Row : [q EXCEPT !.ins = ins] \in Request
         /\ \A status \in Statuses : [q EXCEPT !.status = status] \in Request
         /\ \A after \in SUBSET Requests : [q EXCEPT !.after = after] \in Request
<1>1. ASSUME NEW pc \in {"idle", "ended"} \cup Active PROVE [q EXCEPT !.pc = pc] \in Request
  BY SMTT(30) DEF Request
<1>2. ASSUME NEW in \in Inputs PROVE [q EXCEPT !.in = in] \in Request
  BY SMTT(30) DEF Request
<1>3. ASSUME NEW todo \in SUBSET Entries PROVE [q EXCEPT !.todo = todo] \in Request
  BY SMTT(30) DEF Request
<1>4. ASSUME NEW seen \in SUBSET Row PROVE [q EXCEPT !.seen = seen] \in Request
  BY SMTT(30) DEF Request
<1>5. ASSUME NEW dels \in SUBSET Row PROVE [q EXCEPT !.dels = dels] \in Request
  BY SMTT(30) DEF Request
<1>6. ASSUME NEW ins \in SUBSET Row PROVE [q EXCEPT !.ins = ins] \in Request
  BY SMTT(30) DEF Request
<1>7. ASSUME NEW status \in Statuses PROVE [q EXCEPT !.status = status] \in Request
  BY SMTT(30) DEF Request, Statuses
<1>8. ASSUME NEW after \in SUBSET Requests PROVE [q EXCEPT !.after = after] \in Request
  BY SMTT(30) DEF Request
<1> QED
  BY <1>1, <1>2, <1>3, <1>4, <1>5, <1>6, <1>7, <1>8

(* The ways an action rewrites a request. *)
LEMMA RequestEdits ==
  ASSUME NEW q \in Request, NEW pc \in Active, NEW todo \in SUBSET Entries,
         NEW seen \in SUBSET Row, NEW dels \in SUBSET Row, NEW ins \in SUBSET Row
  PROVE  /\ [q EXCEPT !.pc = pc, !.todo = todo] \in Request
         /\ [q EXCEPT !.pc = pc, !.seen = seen] \in Request
         /\ [q EXCEPT !.pc = pc, !.dels = dels, !.seen = seen] \in Request
         /\ [q EXCEPT !.pc = pc, !.todo = todo, !.ins = ins] \in Request
         /\ [q EXCEPT !.pc = pc, !.dels = dels, !.ins = ins] \in Request
<1> DEFINE q1 == [q EXCEPT !.pc = pc]
           q2 == [q1 EXCEPT !.todo = todo]
           q3 == [q1 EXCEPT !.dels = dels]
<1>1. q1 \in Request
  BY RequestFields
<1> HIDE DEF q1
<1>2. q2 \in Request /\ q3 \in Request
  BY <1>1, RequestFields
<1>3. [q1 EXCEPT !.seen = seen] \in Request
  BY <1>1, RequestFields
<1> HIDE DEF q2, q3
<1>4. [q3 EXCEPT !.seen = seen] \in Request /\ [q3 EXCEPT !.ins = ins] \in Request
  BY <1>2, RequestFields
<1>5. [q2 EXCEPT !.ins = ins] \in Request
  BY <1>2, RequestFields
<1> QED
  BY <1>2, <1>3, <1>4, <1>5 DEF q1, q2, q3

Begun(q, in, after, pc, status) ==
    [q EXCEPT !.in = in, !.after = after, !.pc = pc, !.status = status]

(* So does Begin. *)
LEMMA RequestBegun ==
  ASSUME NEW q \in Request, NEW in \in Inputs, NEW after \in SUBSET Requests,
         NEW pc \in {"ended", "check"}, NEW status \in {0, 400}
  PROVE  Begun(q, in, after, pc, status) \in Request
<1>1. pc \in {"idle", "ended"} \cup Active /\ status \in Statuses
  BY DEF Active, Statuses
<1> DEFINE q0 == [q EXCEPT !.in = in]
           q1 == [q0 EXCEPT !.after = after]
           q2 == [q1 EXCEPT !.pc = pc]
<1>2. q0 \in Request
  BY RequestFields
<1> HIDE DEF q0
<1>3. q1 \in Request
  BY <1>2, RequestFields
<1> HIDE DEF q1
<1>4. q2 \in Request
  BY <1>1, <1>3, RequestFields
<1> HIDE DEF q2
<1>5. [q2 EXCEPT !.status = status] \in Request
  BY <1>1, <1>4, RequestFields
<1> QED
  BY <1>5 DEF q0, q1, q2, Begun

(* An answer is a move that ends the request. *)
LEMMA AnswersMoves ==
  ASSUME IInv, NEW x \in Requests, NEW status \in Statuses, req[x].pc \in Active,
         Answers(x, status)
  PROVE  Moves(x) /\ req'[x].pc = "ended"
<1> DEFINE r == Over(x, status)
<1>1. req[x].in \in Inputs \cup {None} /\ req[x].after \in SUBSET Requests
  BY DEF IInv, TypeOK, Request
<1>2. /\ r \in Request
      /\ r.pc = "ended" /\ r.in = req[x].in /\ r.after = req[x].after
      /\ r.dels = {} /\ r.ins = {}
  BY <1>1 DEF Over, Request, Statuses
<1>3. req[x].pc \notin {"idle", "ended"} /\ req[x].in # None
  BY DEF IInv, RequestInv, SoundRequest, Active
<1>4. req' = [req EXCEPT ![x] = r]
  BY DEF Answers
<1> HIDE DEF r
<1>5. SoundRequest(x, r)
  BY <1>2, <1>3 DEF SoundRequest
<1>6. req'[x] = r
  BY <1>4 DEF IInv, TypeOK
<1> QED
  BY <1>2, <1>3, <1>4, <1>5, <1>6 DEF Moves, Move

(* So is an error. *)
LEMMA FailsMoves ==
  ASSUME IInv, NEW x \in Requests, req[x].pc \in Active, Fails(x)
  PROVE  Moves(x) /\ req'[x].pc = "ended"
  BY AnswersMoves DEF Fails, ErrorStatus, Statuses

(* What the ways to go on and to answer leave behind. *)
LEMMA GoesTo ==
  ASSUME TypeOK, NEW x \in Requests, NEW pc, NEW todo, Goes(x, pc, todo)
  PROVE  req'[x].pc = pc /\ req'[x].todo = todo
  BY DEF TypeOK, Request, Goes

LEMMA AnswersTo ==
  ASSUME TypeOK, NEW x \in Requests, NEW status, Answers(x, status)
  PROVE  req'[x].pc = "ended" /\ req'[x].status = status
  BY DEF TypeOK, Answers, Over

LEMMA FailsTo ==
  ASSUME TypeOK, NEW x \in Requests, Fails(x)
  PROVE  req'[x].pc = "ended" /\ req'[x].status \in {400, 500}
  BY AnswersTo DEF Fails, ErrorStatus

(* Going on to another statement is a move. *)
LEMMA GoesMoves ==
  ASSUME IInv, NEW x \in Requests, req[x].pc \in Active \ {"fill", "commit"},
         NEW pc \in Active \ {"wipe", "fill", "commit"}, NEW todo \in SUBSET Entries,
         Goes(x, pc, todo),
         pc = "insert" => req[x].in.op = "register",
         pc = "add" => req[x].in.op \in {"register", "add"},
         pc \in {"delete", "cascade"} => req[x].in.op = "delete",
         pc = "snap" =>
            /\ req[x].in.op \in {"set", "remove"}
            /\ req[x].in.op = "set" =>
                  todo = Sanitized(req[x].in.list) /\ Bad \notin req[x].in.list
  PROVE  Moves(x) /\ req'[x].pc = pc
<1> DEFINE r == [req[x] EXCEPT !.pc = pc, !.todo = todo]
<1>1. req[x] \in Request /\ req \in [Requests -> Request]
  BY DEF IInv, TypeOK
<1>2. r \in Request
  BY <1>1, RequestEdits
<1>3. /\ r.pc = pc /\ r.in = req[x].in /\ r.after = req[x].after /\ r.todo = todo
      /\ r.dels = req[x].dels /\ r.ins = req[x].ins
  BY <1>1 DEF Request
<1>4. /\ req[x].pc \notin {"idle", "ended"} /\ req[x].in # None
      /\ req[x].dels = {} /\ req[x].ins = {}
  BY DEF IInv, RequestInv, SoundRequest, Active
<1>5. req' = [req EXCEPT ![x] = r]
  BY DEF Goes
<1>6. pc # "idle" /\ pc \notin {"wipe", "fill", "commit"}
  BY DEF Active
<1> HIDE DEF r
<1>7. SoundRequest(x, r)
  BY <1>3, <1>4, <1>6 DEF SoundRequest
<1>8. req'[x] = r
  BY <1>1, <1>5
<1> QED
  BY <1>2, <1>3, <1>4, <1>5, <1>6, <1>7, <1>8 DEF Moves, Move
-----------------------------------------------------------------------------
(* Every action of a request is a move of it. *)

(* The fields of an input. *)
LEMMA InputTypes ==
  \A in \in Inputs : /\ in.op \in {"register", "delete", "add", "set", "remove"}
                     /\ in.client \in ClientIDs /\ in.list \subseteq Entries
<1>1. ASSUME NEW in \in Input
      PROVE  /\ in.op \in {"register", "delete", "add", "set", "remove"}
             /\ in.client \in ClientIDs /\ in.list \in SUBSET Entries
  BY <1>1 DEF Input
<1>2. Inputs \subseteq Input
  BY ConstantsAssumption
<1> QED
  BY <1>1, <1>2

(* A request begins, or is refused. *)
LEMMA BeginMoves ==
  ASSUME IInv, NEW x \in Requests, Begin(x)
  PROVE  Moves(x) /\ req'[x].pc \in {"ended", "check"}
<1> DEFINE ended == {y \in Requests : req[y].pc = "ended"}
           refused(in) == in.op = "add" /\ in.list = {}
           pcOf(in) == IF refused(in) THEN "ended" ELSE "check"
           statusOf(in) == IF refused(in) THEN 400 ELSE 0
<1>0. PICK in \in Inputs : req' = [req EXCEPT ![x] =
          [@ EXCEPT !.in = in, !.after = ended, !.pc = pcOf(in), !.status = statusOf(in)]]
  BY DEF Begin
<1> DEFINE pc == pcOf(in)
           status == statusOf(in)
           r == Begun(req[x], in, ended, pc, status)
<1>1. pc \in {"ended", "check"} /\ status \in {0, 400}
  OBVIOUS
<1>2. req[x] \in Request /\ req \in [Requests -> Request] /\ req[x].pc = "idle"
  BY DEF Begin, IInv, TypeOK
<1>3. ended \in SUBSET Requests /\ req' = [req EXCEPT ![x] = r]
  BY <1>0 DEF Begun
<1> HIDE DEF ended, pc, status
<1>6. r \in Request
  BY <1>1, <1>2, <1>3, RequestBegun
<1>4. /\ r.pc = pc /\ r.in = in /\ r.after = ended
      /\ r.dels = req[x].dels /\ r.ins = req[x].ins
  BY <1>2 DEF Request, Begun
<1>5. req[x].dels = {} /\ req[x].ins = {}
  BY <1>2 DEF IInv, RequestInv, SoundRequest
<1> HIDE DEF r
<1>7. SoundRequest(x, r)
  BY <1>1, <1>4, <1>5, ConstantsAssumption DEF SoundRequest
<1>8. req'[x] = r
  BY <1>2, <1>3
<1> QED
  BY <1>1, <1>2, <1>3, <1>4, <1>6, <1>7, <1>8 DEF Moves, Move, ended

(* The look for the client, if INSERTs are next. *)
LEMMA CheckClientEffect ==
  ASSUME IInv, NEW x \in Requests, CheckClient(x), req'[x].pc \in {"insert", "add"}
  PROVE  /\ req'[x].pc = "insert" => req'[x].todo = Sanitized(req[x].in.list)
         /\ req'[x].pc = "add" => req'[x].todo = req[x].in.list
<1> DEFINE in == req[x].in
<1>1. TypeOK
  BY DEF IInv
<1>2. \/ Goes(x, "insert", Sanitized(in.list))
      \/ Goes(x, "delete", {})
      \/ Goes(x, "add", in.list)
      \/ Goes(x, "snap", Sanitized(in.list))
      \/ Goes(x, "snap", {})
  BY <1>1, AnswersTo, FailsTo DEF CheckClient
<1> QED
  BY <1>1, <1>2, GoesTo

(* After the look for the client come the statements of the operation. *)
LEMMA CheckClientMoves ==
  ASSUME IInv, NEW x \in Requests, CheckClient(x)
  PROVE  /\ Moves(x)
         /\ req'[x].pc \in {"ended", "insert", "delete", "add", "snap"}
         /\ req'[x].pc = "add" => req[x].in.op = "add"
<1> DEFINE in == req[x].in
<1>1. req[x].pc = "check" /\ req[x].pc \in Active \ {"fill", "commit"}
  BY DEF CheckClient, Runs, Active
<1>2. in \in Inputs
  BY <1>1 DEF IInv, TypeOK, Request, RequestInv, SoundRequest
<1>3. in.list \in SUBSET Entries /\ Sanitized(in.list) \in SUBSET Entries /\ {} \in SUBSET Entries
  BY <1>2, InputTypes DEF Sanitized
<1>4. CASE Answers(x, 409) \/ Answers(x, 404) \/ Answers(x, 400) \/ Fails(x)
  BY <1>1, <1>4, AnswersMoves, FailsMoves DEF Statuses
<1>5. CASE in.op = "register" /\ Goes(x, "insert", Sanitized(in.list))
  BY <1>1, <1>3, <1>5, GoesMoves DEF Active
<1>6. CASE in.op = "delete" /\ Goes(x, "delete", {})
  BY <1>1, <1>3, <1>6, GoesMoves DEF Active
<1>7. CASE in.op = "add" /\ Goes(x, "add", in.list)
  BY <1>1, <1>3, <1>7, GoesMoves DEF Active
<1>8. CASE in.op = "set" /\ Bad \notin in.list /\ Goes(x, "snap", Sanitized(in.list))
  BY <1>1, <1>3, <1>8, GoesMoves DEF Active
<1>9. CASE in.op = "remove" /\ Goes(x, "snap", {})
  BY <1>1, <1>3, <1>9, GoesMoves DEF Active
<1>10. \/ Answers(x, 409) \/ Answers(x, 404) \/ Answers(x, 400) \/ Fails(x)
       \/ in.op = "register" /\ Goes(x, "insert", Sanitized(in.list))
       \/ in.op = "delete" /\ Goes(x, "delete", {})
       \/ in.op = "add" /\ Goes(x, "add", in.list)
       \/ in.op = "set" /\ Bad \notin in.list /\ Goes(x, "snap", Sanitized(in.list))
       \/ in.op = "remove" /\ Goes(x, "snap", {})
  BY DEF CheckClient
<1> QED
  BY <1>4, <1>5, <1>6, <1>7, <1>8, <1>9, <1>10

(* A registration goes on to its rows. *)
LEMMA InsertClientMoves ==
  ASSUME IInv, NEW x \in Requests, InsertClient(x)
  PROVE  Moves(x) /\ req'[x].pc \in {"ended", "add"}
<1>1. req[x].pc = "insert" /\ req[x].pc \in Active \ {"fill", "commit"}
  BY DEF InsertClient, Runs, Active
<1>2. req[x].in.op = "register" /\ req[x].todo \in SUBSET Entries
  BY <1>1 DEF IInv, TypeOK, Request, RequestInv, SoundRequest
<1>3. CASE Answers(x, 201) \/ Fails(x)
  BY <1>1, <1>3, AnswersMoves, FailsMoves DEF Statuses
<1>4. CASE Goes(x, "add", req[x].todo)
  BY <1>1, <1>2, <1>4, GoesMoves DEF Active
<1> QED
  BY <1>3, <1>4 DEF InsertClient

(* The rows of an addition are inserted one by one. *)
LEMMA AddRowMoves ==
  ASSUME IInv, NEW x \in Requests, AddRow(x)
  PROVE  Moves(x) /\ req'[x].pc \in {"ended", "add", "reread"}
<1>1. req[x].pc = "add" /\ req[x].pc \in Active \ {"fill", "commit"}
  BY DEF AddRow, Inserts, Active
<1>2. /\ req[x].in.op \in {"register", "add"}
      /\ {} \in SUBSET Entries /\ \A name : req[x].todo \ {name} \in SUBSET Entries
  BY <1>1 DEF IInv, TypeOK, Request, RequestInv, SoundRequest
<1>3. CASE Answers(x, 400) \/ Answers(x, 201) \/ Fails(x)
  BY <1>1, <1>3, AnswersMoves, FailsMoves DEF Statuses
<1>4. CASE \E name \in Entries : Goes(x, "add", req[x].todo \ {name})
  <2>1. PICK name \in Entries : Goes(x, "add", req[x].todo \ {name})
    BY <1>4
  <2>2. "add" \in Active \ {"wipe", "fill", "commit"} /\ req[x].todo \ {name} \in SUBSET Entries
    BY <1>2 DEF Active
  <2> QED
    BY <1>1, <1>2, <2>1, <2>2, GoesMoves
<1>5. CASE Goes(x, "reread", {})
  BY <1>1, <1>2, <1>5, GoesMoves DEF Active
<1> QED
  BY <1>3, <1>4, <1>5 DEF AddRow

(* A DELETE statement starts. *)
LEMMA StartDeleteMoves ==
  ASSUME IInv, NEW x \in Requests, StartDelete(x)
  PROVE  Moves(x) /\ req'[x].pc \in {"ended", "wipe"}
<1>1. req[x].pc = "snap" /\ req[x].pc \in Active
  BY DEF StartDelete, Runs, Active
<1>2. CASE Fails(x)
  BY <1>1, <1>2, FailsMoves
<1> DEFINE found == {r \in rows[ClientOf(x)] : r.name \in Targets(req[x].in)}
           r == [req[x] EXCEPT !.pc = "wipe", !.seen = found]
<1>3. CASE req' = [req EXCEPT ![x] = r]
  <2>1. req[x] \in Request /\ req \in [Requests -> Request] /\ req[x].in # None
    BY <1>1 DEF IInv, TypeOK, RequestInv, SoundRequest
  <2>2. found \subseteq Row
    <3>1. ClientOf(x) \in ClientIDs
      BY <2>1, InputTypes DEF ClientOf, Request
    <3> QED
      BY <3>1 DEF IInv, TypeOK
  <2> HIDE DEF found
  <2>3. r \in Request
    BY <2>1, <2>2, RequestEdits DEF Active
  <2>4. /\ r.pc = "wipe" /\ r.in = req[x].in /\ r.after = req[x].after
        /\ r.todo = req[x].todo /\ r.dels = req[x].dels /\ r.ins = req[x].ins
    BY <2>1 DEF Request
  <2> HIDE DEF r
  <2>5. SoundRequest(x, r)
    BY <1>1, <2>1, <2>4 DEF IInv, RequestInv, SoundRequest
  <2>6. req'[x] = r
    BY <1>3, <2>1
  <2> QED
    BY <1>1, <1>3, <2>3, <2>4, <2>5, <2>6 DEF Moves, Move
<1> QED
  BY <1>2, <1>3 DEF StartDelete

(* It is over, and a replacement goes on to insert. *)
LEMMA WipeRowsMoves ==
  ASSUME IInv, NEW x \in Requests, WipeRows(x)
  PROVE  Moves(x) /\ req'[x].pc \in {"ended", "fill", "commit"}
<1>1. req[x].pc = "wipe" /\ req[x].pc \in Active /\ req[x].in.op = "set"
  BY DEF WipeRows, Runs, Active
<1>2. CASE Fails(x)
  BY <1>1, <1>2, FailsMoves
<1> DEFINE pc == IF req[x].todo = {} THEN "commit" ELSE "fill"
           gone == req[x].seen \cap rows[ClientOf(x)]
           r == [req[x] EXCEPT !.pc = pc, !.dels = gone, !.seen = {}]
<1>3. CASE req' = [req EXCEPT ![x] = r]
  <2>1. req[x] \in Request /\ req \in [Requests -> Request] /\ req[x].in # None
    BY <1>1 DEF IInv, TypeOK, RequestInv, SoundRequest
  <2>2. gone \in SUBSET Row /\ {} \in SUBSET Row
    BY <2>1 DEF Request
  <2>3. pc \in {"fill", "commit"} /\ (pc = "commit" => req[x].todo = {})
    OBVIOUS
  <2> HIDE DEF gone, pc
  <2>4. r \in Request
    BY <2>1, <2>2, <2>3, RequestEdits DEF Active
  <2>5. /\ r.pc = pc /\ r.in = req[x].in /\ r.after = req[x].after
        /\ r.todo = req[x].todo /\ r.ins = req[x].ins
    BY <2>1 DEF Request
  <2>6. /\ req[x].ins = {} /\ req[x].todo = Sanitized(req[x].in.list)
        /\ Bad \notin req[x].in.list
    BY <1>1 DEF IInv, RequestInv, SoundRequest
  <2> HIDE DEF r
  <2>7. SoundRequest(x, r)
    BY <1>1, <2>1, <2>3, <2>5, <2>6 DEF SoundRequest, NamesOf
  <2>8. req'[x] = r
    BY <1>3, <2>1
  <2> QED
    BY <1>1, <1>3, <2>3, <2>4, <2>5, <2>7, <2>8 DEF Moves, Move
<1> QED
  BY <1>2, <1>3 DEF WipeRows

(* It is over, and a removal ends. *)
LEMMA RemoveRowMoves ==
  ASSUME IInv, NEW x \in Requests, RemoveRow(x)
  PROVE  Moves(x) /\ req'[x].pc = "ended"
<1>1. req[x].pc = "wipe" /\ req[x].pc \in Active
  BY DEF RemoveRow, Runs, Active
<1>2. Answers(x, 200) \/ Fails(x)
  BY DEF RemoveRow
<1> QED
  BY <1>1, <1>2, AnswersMoves, FailsMoves DEF Statuses

(* What the INSERT of one name adds to what its transaction has inserted. *)
Added(x, name) ==
    LET visible == (rows[ClientOf(x)] \ req[x].dels) \cup req[x].ins
    IN  Plus(visible, name, x) \ visible

(* That is one row of the request, or none, and then the name is there. *)
LEMMA AddedRow ==
  ASSUME NEW x \in Requests, NEW name \in Names
  PROVE  /\ \A r \in Added(x, name) : r \in Row /\ r.name = name /\ r.by = x
         /\ name \in NamesOf((rows[ClientOf(x)] \ req[x].dels) \cup req[x].ins \cup Added(x, name))
<1> DEFINE visible == (rows[ClientOf(x)] \ req[x].dels) \cup req[x].ins
           new == [name |-> name, by |-> x]
<1>1. Added(x, name) = IF name \in NamesOf(visible) THEN {} ELSE {new} \ visible
  BY DEF Added, Plus
<1>2. new \in Row /\ new.name = name /\ new.by = x
  BY DEF Row
<1>3. visible \cup Added(x, name) =
         IF name \in NamesOf(visible) THEN visible ELSE visible \cup {new}
  BY <1>1
<1> HIDE DEF visible, new
<1>4. name \in NamesOf(visible \cup Added(x, name))
  BY <1>2, <1>3 DEF NamesOf
<1> QED
  BY <1>1, <1>2, <1>4 DEF visible

(* A replacement inserts another entry. *)
LEMMA FillRowMoves ==
  ASSUME IInv, NEW x \in Requests, FillRow(x)
  PROVE  Moves(x) /\ req'[x].pc \in {"ended", "fill", "commit"}
<1>1. req[x].pc = "fill" /\ req[x].pc \in Active
  BY DEF FillRow, Inserts, Active
<1>2. CASE Fails(x)
  BY <1>1, <1>2, FailsMoves
<1>3. CASE ~Fails(x)
  <2>1. PICK name \in Entries :
          /\ name \in req[x].todo
          /\ req' = [req EXCEPT ![x] =
               [@ EXCEPT !.pc = IF req[x].todo \ {name} = {} THEN "commit" ELSE "fill",
                         !.todo = req[x].todo \ {name},
                         !.ins = req[x].ins \cup Added(x, name)]]
    BY <1>3 DEF FillRow, Inserts, Upcoming, Added
  <2> DEFINE todo == req[x].todo \ {name}
             pc == IF todo = {} THEN "commit" ELSE "fill"
             ins == req[x].ins \cup Added(x, name)
             r == [req[x] EXCEPT !.pc = pc, !.todo = todo, !.ins = ins]
  <2>2. req[x] \in Request /\ req \in [Requests -> Request] /\ req[x].in # None
    BY <1>1 DEF IInv, TypeOK, RequestInv, SoundRequest
  <2>3. /\ req[x].in.op = "set" /\ Bad \notin req[x].in.list
        /\ req[x].todo \subseteq Sanitized(req[x].in.list)
        /\ NamesOf(req[x].ins) \subseteq Sanitized(req[x].in.list)
        /\ \A i \in req[x].ins : i.by = x
    BY <1>1 DEF IInv, RequestInv, SoundRequest
  <2>4. name \in Names /\ name \in Sanitized(req[x].in.list)
    BY <2>1, <2>3 DEF Sanitized, Entries
  <2>5. todo \in SUBSET Entries /\ ins \in SUBSET Row
    <3>1. req[x].todo \in SUBSET Entries /\ req[x].ins \in SUBSET Row
      BY <2>2 DEF Request
    <3> QED
      BY <2>4, <3>1, AddedRow
  <2>6. NamesOf(ins) \subseteq Sanitized(req[x].in.list) /\ \A i \in ins : i.by = x
    BY <2>3, <2>4, AddedRow DEF NamesOf
  <2>7. pc \in {"fill", "commit"} /\ (pc = "commit" => todo = {})
    OBVIOUS
  <2>8. req' = [req EXCEPT ![x] = r] /\ todo \subseteq req[x].todo
    BY <2>1
  <2> HIDE DEF todo, ins, pc
  <2>9. r \in Request
    BY <2>2, <2>5, <2>7, RequestEdits DEF Active
  <2>10. /\ r.pc = pc /\ r.in = req[x].in /\ r.after = req[x].after
         /\ r.todo = todo /\ r.ins = ins
    BY <2>2 DEF Request
  <2> HIDE DEF r
  <2>11. SoundRequest(x, r)
    BY <2>2, <2>3, <2>6, <2>7, <2>8, <2>10 DEF SoundRequest
  <2>12. req'[x] = r
    BY <2>2, <2>8
  <2> QED
    BY <1>1, <2>7, <2>8, <2>9, <2>10, <2>11, <2>12 DEF Moves, Move
<1> QED
  BY <1>2, <1>3

(* A replacement commits. *)
LEMMA CommitMoves ==
  ASSUME IInv, NEW x \in Requests, Commit(x)
  PROVE  Moves(x) /\ req'[x].pc \in {"ended", "reread"}
<1>1. req[x].pc = "commit" /\ req[x].pc \in Active
  BY DEF Commit, Runs, Active
<1>2. CASE Fails(x)
  BY <1>1, <1>2, FailsMoves
<1> DEFINE r == [req[x] EXCEPT !.pc = "reread", !.dels = {}, !.ins = {}]
<1>3. CASE req' = [req EXCEPT ![x] = r]
  <2>1. req[x] \in Request /\ req \in [Requests -> Request] /\ req[x].in # None
    BY <1>1 DEF IInv, TypeOK, RequestInv, SoundRequest
  <2>2. r \in Request
    <3>1. {} \in SUBSET Row
      OBVIOUS
    <3> QED
      BY <2>1, <3>1, RequestEdits DEF Active
  <2>3. /\ r.pc = "reread" /\ r.in = req[x].in /\ r.after = req[x].after
        /\ r.dels = {} /\ r.ins = {}
    BY <2>1 DEF Request
  <2> HIDE DEF r
  <2>4. SoundRequest(x, r)
    BY <2>1, <2>3 DEF SoundRequest
  <2>5. req'[x] = r
    BY <1>3, <2>1
  <2> QED
    BY <1>1, <1>3, <2>2, <2>3, <2>4, <2>5 DEF Moves, Move
<1> QED
  BY <1>2, <1>3 DEF Commit

(* The list is read again for the answer. *)
LEMMA RereadMoves ==
  ASSUME IInv, NEW x \in Requests, Reread(x)
  PROVE  Moves(x) /\ req'[x].pc = "ended"
<1>1. req[x].pc \in Active /\ (Answers(x, 200) \/ Fails(x))
  BY DEF Reread, Runs, Active
<1> QED
  BY <1>1, AnswersMoves, FailsMoves DEF Statuses

(* A deletion locks its client. *)
LEMMA DeleteClientMoves ==
  ASSUME IInv, NEW x \in Requests, DeleteClient(x)
  PROVE  Moves(x) /\ req'[x].pc \in {"ended", "cascade"}
<1>1. req[x].pc = "delete" /\ req[x].pc \in Active \ {"fill", "commit"}
  BY DEF DeleteClient, Runs, Active
<1>2. req[x].in.op = "delete" /\ {} \in SUBSET Entries
  BY <1>1 DEF IInv, RequestInv, SoundRequest
<1>3. CASE Fails(x)
  BY <1>1, <1>3, FailsMoves
<1>4. CASE Goes(x, "cascade", {})
  BY <1>1, <1>2, <1>4, GoesMoves DEF Active
<1> QED
  BY <1>3, <1>4 DEF DeleteClient

(* A deletion commits. *)
LEMMA CascadeMoves ==
  ASSUME IInv, NEW x \in Requests, Cascade(x)
  PROVE  Moves(x) /\ req'[x].pc = "ended"
<1>1. req[x].pc \in Active /\ (Answers(x, 200) \/ Fails(x))
  BY DEF Cascade, Runs, Active
<1> QED
  BY <1>1, AnswersMoves, FailsMoves DEF Statuses

(* A request is ended by the database. *)
LEMMA BreakDeadlockMoves ==
  ASSUME IInv, NEW x \in Requests, BreakDeadlock(x)
  PROVE  Moves(x) /\ req'[x].pc = "ended"
  BY FailsMoves DEF BreakDeadlock

(* The actions by what they lead to. *)
LEMMA StepMoves ==
  ASSUME IInv, NEW x \in Requests, Begin(x) \/ Step(x)
  PROVE  /\ Moves(x)
         /\ req'[x].pc = "cascade" => DeleteClient(x)
         /\ req'[x].pc = "wipe" => StartDelete(x)
         /\ req'[x].pc \in {"fill", "commit"} => WipeRows(x) \/ FillRow(x)
         /\ req'[x].pc = "add" =>
               (CheckClient(x) /\ req[x].in.op = "add") \/ InsertClient(x) \/ AddRow(x)
<1>1. CASE Begin(x)
  BY <1>1, BeginMoves
<1>2. CASE CheckClient(x)
  BY <1>2, CheckClientMoves
<1>3. CASE InsertClient(x) \/ AddRow(x)
  BY <1>3, InsertClientMoves, AddRowMoves
<1>4. CASE StartDelete(x) \/ WipeRows(x) \/ FillRow(x)
  BY <1>4, StartDeleteMoves, WipeRowsMoves, FillRowMoves
<1>5. CASE Commit(x) \/ DeleteClient(x)
  BY <1>5, CommitMoves, DeleteClientMoves
<1>6. CASE RemoveRow(x) \/ Reread(x) \/ Cascade(x) \/ BreakDeadlock(x)
  BY <1>6, RemoveRowMoves, RereadMoves, CascadeMoves, BreakDeadlockMoves
<1> QED
  BY <1>1, <1>2, <1>3, <1>4, <1>5, <1>6 DEF Step

(* What a step leaves of the requests: the other ones, and the facts of its own. *)
Persists ==
    \A y \in Requests :
        /\ req[y].pc # "idle" =>
              req'[y].pc # "idle" /\ req'[y].in = req[y].in /\ req'[y].after = req[y].after
        /\ req[y].pc = "ended" => req'[y].pc = "ended"
        /\ req'[y].pc = "idle" => req'[y] = req[y]
        /\ req[y].pc = "idle" /\ req'[y].pc # "idle" =>
              req'[y].after = {z \in Requests : req[z].pc = "ended"}

RequestsKept ==
    /\ req' \in [Requests -> Request]
    /\ RequestInv'
    /\ Persists

(* A move keeps the facts of all requests, and leaves the other ones alone. *)
LEMMA MovesKeep ==
  ASSUME IInv, NEW x \in Requests, Moves(x)
  PROVE  RequestsKept /\ \A y \in Requests \ {x} : req'[y] = req[y]
<1>1. PICK r \in Request : Move(x, r)
  BY DEF Moves
<1>2. req \in [Requests -> Request]
  BY DEF IInv, TypeOK
<1>3. req'[x] = r /\ \A y \in Requests \ {x} : req'[y] = req[y]
  BY <1>1, <1>2 DEF Move
<1>4. req' \in [Requests -> Request]
  BY <1>1, <1>2 DEF Move
<1>5. \A y \in Requests : SoundRequest(y, req'[y])
  BY <1>1, <1>3 DEF Move, IInv, RequestInv
<1>6. RequestInv'
  BY <1>5 DEF RequestInv, SoundRequest
<1>7. Persists
  BY <1>1, <1>3 DEF Persists, Move
<1> QED
  BY <1>3, <1>4, <1>6, <1>7 DEF RequestsKept

(* A crash ends requests and keeps the facts of the others. *)
LEMMA CrashKeeps ==
  ASSUME IInv, Crash
  PROVE  /\ RequestsKept
         /\ \A y \in Requests : req'[y] = req[y] \/ req'[y].pc = "ended"
<1>1. req \in [Requests -> Request]
  BY DEF IInv, TypeOK
<1>2. \A y \in Requests : req'[y] = IF req[y].pc \in Active THEN Over(y, 0) ELSE req[y]
  BY DEF Crash
<1>3. \A y \in Requests :
        /\ Over(y, 0) \in Request /\ Over(y, 0).pc = "ended"
        /\ Over(y, 0).in = req[y].in /\ Over(y, 0).after = req[y].after
        /\ Over(y, 0).dels = {} /\ Over(y, 0).ins = {}
  <2> TAKE y \in Requests
  <2>1. req[y].in \in Inputs \cup {None} /\ req[y].after \in SUBSET Requests
    BY <1>1 DEF Request
  <2> QED
    BY <2>1 DEF Over, Request
<1>4. req' \in [Requests -> Request]
  BY <1>1, <1>2, <1>3 DEF Crash
<1>5. \A y \in Requests : SoundRequest(y, req'[y])
  BY <1>2, <1>3 DEF IInv, RequestInv, SoundRequest, Active
<1>6. RequestInv'
  BY <1>5 DEF RequestInv, SoundRequest
<1>7. Persists
  BY <1>2, <1>3 DEF Persists, Active
<1> QED
  BY <1>2, <1>3, <1>4, <1>6, <1>7 DEF RequestsKept
-----------------------------------------------------------------------------
(* What the actions do to the tables. *)

Edit(x, gone, new) ==
    /\ rows' = [rows EXCEPT ![ClientOf(x)] = (@ \ gone) \cup new]
    /\ new # {} => ClientOf(x) \in clients /\ req[x].pc \in {"add", "commit"}
    /\ \A r \in new : r.by = x
    /\ gone # {} => req[x].pc \in {"wipe", "commit", "cascade"}

Edits(x) == \E gone, new \in SUBSET Row : Edit(x, gone, new)

(* A request that has begun is for some client. *)
LEMMA ClientOfType ==
  ASSUME IInv, NEW x \in Requests, req[x].pc # "idle"
  PROVE  req[x].in \in Inputs /\ ClientOf(x) \in ClientIDs
<1>1. req[x].in \in Inputs
  BY DEF IInv, TypeOK, RequestInv, SoundRequest, Request
<1> QED
  BY <1>1, InputTypes DEF ClientOf

(* Changing nothing is an edit. *)
LEMMA NoEdit ==
  ASSUME IInv, NEW x \in Requests, rows' = rows
  PROVE  Edits(x)
<1>1. Edit(x, {}, {})
  BY DEF IInv, TypeOK, Edit
<1> QED
  BY <1>1 DEF Edits

(* Inserting a row is an edit. *)
LEMMA AddRowEdits ==
  ASSUME IInv, NEW x \in Requests, AddRow(x)
  PROVE  Edits(x)
<1> DEFINE k == ClientOf(x)
<1>1. req[x].pc = "add"
  BY DEF AddRow, Inserts
<1>2. CASE rows' = rows
  BY <1>2, NoEdit
<1>3. CASE rows' # rows
  <2>1. PICK name \in Entries :
          /\ ~Refused(name) /\ ReferenceHolds(k, name \in NamesOf(rows[k]))
          /\ rows' = [rows EXCEPT ![k] = Plus(@, name, x)]
    BY <1>3 DEF AddRow
  <2> DEFINE new == IF name \in NamesOf(rows[k]) THEN {} ELSE {[name |-> name, by |-> x]}
  <2>2. name \in Names
    BY <2>1 DEF Refused, Entries
  <2>3. new \in SUBSET Row /\ \A r \in new : r.by = x
    BY <2>2 DEF Row
  <2>4. Plus(rows[k], name, x) = (rows[k] \ {}) \cup new
    BY DEF Plus
  <2>5. new # {} => k \in clients
    BY <2>1 DEF ReferenceHolds
  <2> HIDE DEF new
  <2>6. rows' = [rows EXCEPT ![k] = (@ \ {}) \cup new]
    BY <2>1, <2>4
  <2>7. Edit(x, {}, new)
    BY <1>1, <2>3, <2>5, <2>6 DEF Edit
  <2> QED
    BY <2>3, <2>7 DEF Edits
<1> QED
  BY <1>2, <1>3

(* Removing rows is an edit. *)
LEMMA RemoveRowEdits ==
  ASSUME IInv, NEW x \in Requests, RemoveRow(x)
  PROVE  Edits(x)
<1> DEFINE gone == req[x].seen \cap rows[ClientOf(x)]
<1>1. req[x].pc = "wipe"
  BY DEF RemoveRow, Runs
<1>2. gone \in SUBSET Row
  BY DEF IInv, TypeOK, Request
<1>3. CASE rows' = rows
  BY <1>3, NoEdit
<1>4. CASE rows' = [rows EXCEPT ![ClientOf(x)] = @ \ gone]
  <2> HIDE DEF gone
  <2>1. Edit(x, gone, {})
    BY <1>1, <1>4 DEF Edit
  <2> QED
    BY <1>2, <2>1 DEF Edits
<1> QED
  BY <1>3, <1>4 DEF RemoveRow

(* A commit is an edit. *)
LEMMA CommitEdits ==
  ASSUME IInv, NEW x \in Requests, Commit(x)
  PROVE  Edits(x)
<1>1. req[x].pc = "commit"
  BY DEF Commit, Runs
<1>2. req[x].dels \in SUBSET Row /\ req[x].ins \in SUBSET Row
  BY DEF IInv, TypeOK, Request
<1>3. CASE rows' = rows
  BY <1>3, NoEdit
<1>4. CASE rows' = [rows EXCEPT ![ClientOf(x)] = (@ \ req[x].dels) \cup req[x].ins]
  <2>1. Edit(x, req[x].dels, req[x].ins)
    BY <1>1, <1>4 DEF Edit, IInv, InsertInv, RequestInv, SoundRequest
  <2> QED
    BY <1>2, <2>1 DEF Edits
<1> QED
  BY <1>3, <1>4 DEF Commit

(* A cascade is an edit. *)
LEMMA CascadeEdits ==
  ASSUME IInv, NEW x \in Requests, Cascade(x)
  PROVE  Edits(x)
<1>1. req[x].pc = "cascade"
  BY DEF Cascade, Runs
<1>2. CASE rows' = rows
  BY <1>2, NoEdit
<1>3. CASE rows' = [rows EXCEPT ![ClientOf(x)] = {}]
  <2>1. rows[ClientOf(x)] \in SUBSET Row
    BY <1>1, ClientOfType DEF IInv, TypeOK
  <2>2. Edit(x, rows[ClientOf(x)], {})
    BY <1>1, <1>3 DEF Edit
  <2> QED
    BY <2>1, <2>2 DEF Edits
<1> QED
  BY <1>2, <1>3 DEF Cascade

(* Rows that come are of who inserts them, rows that go are deleted. *)
LEMMA RowsEffect ==
  ASSUME IInv, NEW x \in Requests, req[x].pc # "idle", Edits(x)
  PROVE  /\ rows' \in [ClientIDs -> SUBSET Row]
         /\ \A k \in ClientIDs :
              /\ \A r \in rows'[k] \ rows[k] :
                    /\ r.by = x /\ k = ClientOf(x) /\ k \in clients
                    /\ req[x].pc \in {"add", "commit"}
              /\ \A r \in rows[k] \ rows'[k] :
                    /\ k = ClientOf(x)
                    /\ req[x].pc \in {"wipe", "commit", "cascade"}
<1>1. PICK gone, new \in SUBSET Row : Edit(x, gone, new)
  BY DEF Edits
<1>2. rows \in [ClientIDs -> SUBSET Row] /\ ClientOf(x) \in ClientIDs
  BY ClientOfType DEF IInv, TypeOK
<1>3. \A k \in ClientIDs :
         rows'[k] = IF k = ClientOf(x) THEN (rows[k] \ gone) \cup new ELSE rows[k]
  BY <1>1, <1>2 DEF Edit
<1>4. rows' \in [ClientIDs -> SUBSET Row]
  BY <1>1, <1>2 DEF Edit
<1> QED
  BY <1>1, <1>3, <1>4 DEF Edit

(* Four actions change rows. *)
LEMMA RowsFrame ==
  ASSUME [Next]_vars
  PROVE  \/ rows' = rows
         \/ \E x \in Requests : AddRow(x) \/ RemoveRow(x) \/ Commit(x) \/ Cascade(x)
<1>1. ASSUME Crash PROVE rows' = rows
  BY <1>1 DEF Crash
<1>2. ASSUME NEW x \in Requests, Begin(x) PROVE rows' = rows
  BY <1>2 DEF Begin
<1>3. ASSUME NEW x \in Requests, Step(x)
      PROVE  rows' = rows \/ AddRow(x) \/ RemoveRow(x) \/ Commit(x) \/ Cascade(x)
  BY <1>3 DEF Step, CheckClient, InsertClient, StartDelete, WipeRows, FillRow, Reread,
              DeleteClient, BreakDeadlock
<1>4. UNCHANGED vars => rows' = rows
  BY DEF vars
<1> QED
  BY <1>1, <1>2, <1>3, <1>4 DEF Next

(* Each is an edit by a request that has begun. *)
LEMMA RowsStep ==
  ASSUME IInv, [Next]_vars
  PROVE  \/ rows' = rows
         \/ \E x \in Requests :
               /\ AddRow(x) \/ RemoveRow(x) \/ Commit(x) \/ Cascade(x)
               /\ req[x].pc # "idle" /\ Edits(x)
<1>1. ASSUME NEW x \in Requests, AddRow(x) \/ RemoveRow(x) \/ Commit(x) \/ Cascade(x)
      PROVE  req[x].pc # "idle" /\ Edits(x)
  <2>1. req[x].pc # "idle"
    BY <1>1 DEF AddRow, Inserts, RemoveRow, Commit, Cascade, Runs
  <2> QED
    BY <1>1, <2>1, AddRowEdits, RemoveRowEdits, CommitEdits, CascadeEdits
<1> QED
  BY <1>1, RowsFrame

(* Two actions change the clients. *)
LEMMA ClientsFrame ==
  ASSUME [Next]_vars
  PROVE  \/ clients' = clients
         \/ \E x \in Requests : InsertClient(x) \/ Cascade(x)
<1>1. ASSUME Crash PROVE clients' = clients
  BY <1>1 DEF Crash
<1>2. ASSUME NEW x \in Requests, Begin(x) PROVE clients' = clients
  BY <1>2 DEF Begin
<1>3. ASSUME NEW x \in Requests, Step(x)
      PROVE  clients' = clients \/ InsertClient(x) \/ Cascade(x)
  BY <1>3 DEF Step, CheckClient, AddRow, StartDelete, WipeRows, RemoveRow, FillRow, Commit,
              Reread, DeleteClient, BreakDeadlock
<1>4. UNCHANGED vars => clients' = clients
  BY DEF vars
<1> QED
  BY <1>1, <1>2, <1>3, <1>4 DEF Next

(* A client goes by a cascade, with its rows. *)
LEMMA ClientsShrink ==
  ASSUME IInv, [Next]_vars, NEW k \in clients, k \notin clients'
  PROVE  /\ rows'[k] = {}
         /\ \E x \in Requests : Cascade(x) /\ k = ClientOf(x)
<1>1. PICK x \in Requests : InsertClient(x) \/ Cascade(x)
  BY ClientsFrame
<1>2. ~InsertClient(x)
  BY DEF InsertClient
<1>3. Cascade(x) /\ clients' = clients \ {ClientOf(x)} /\ rows' = [rows EXCEPT ![ClientOf(x)] = {}]
  BY <1>1, <1>2 DEF Cascade
<1>4. k = ClientOf(x) /\ k \in ClientIDs /\ rows \in [ClientIDs -> SUBSET Row]
  BY <1>3 DEF IInv, TypeOK
<1> QED
  BY <1>3, <1>4

(* A request stays as it is, or ends, or takes a step of its own, alone. *)
LEMMA RequestsStep ==
  ASSUME IInv, [Next]_vars
  PROVE  /\ RequestsKept
         /\ \A y \in Requests :
               \/ req'[y] = req[y]
               \/ req'[y].pc = "ended"
               \/ Begin(y) \/ Step(y)
         /\ \A x, y \in Requests : (Begin(x) \/ Step(x)) /\ x # y => req'[y] = req[y]
<1>1. ASSUME NEW x \in Requests, Begin(x) \/ Step(x)
      PROVE  RequestsKept /\ \A y \in Requests \ {x} : req'[y] = req[y]
  BY <1>1, StepMoves, MovesKeep
<1>2. CASE \E x \in Requests : Begin(x) \/ Step(x)
  BY <1>1, <1>2
<1>3. CASE Crash
  BY <1>1, <1>3, CrashKeeps
<1>4. CASE UNCHANGED vars
  <2>1. req' = req
    BY <1>4 DEF vars
  <2>2. RequestsKept
    BY <2>1 DEF RequestsKept, Persists, IInv, TypeOK, RequestInv, SoundRequest
  <2> QED
    BY <1>1, <2>1, <2>2
<1> QED
  BY <1>2, <1>3, <1>4 DEF Next
-----------------------------------------------------------------------------
(* The parts of the invariant, one by one. *)

(* Every step keeps the types. *)
LEMMA TypeOKStep == ASSUME IInv, [Next]_vars PROVE TypeOK'
<1>1. req' \in [Requests -> Request]
  BY RequestsStep DEF RequestsKept
<1>2. rows' \in [ClientIDs -> SUBSET Row]
  BY RowsStep, RowsEffect DEF IInv, TypeOK
<1>3. clients' \subseteq ClientIDs
  <2>1. ASSUME NEW x \in Requests, InsertClient(x) \/ Cascade(x)
        PROVE  clients' \subseteq clients \cup {ClientOf(x)} /\ ClientOf(x) \in ClientIDs
    <3>1. clients' \subseteq clients \cup {ClientOf(x)} /\ req[x].pc # "idle"
      BY <2>1 DEF InsertClient, Cascade, Runs
    <3> QED
      BY <3>1, ClientOfType
  <2> QED
    BY <2>1, ClientsFrame DEF IInv, TypeOK
<1> QED
  BY <1>1, <1>2, <1>3 DEF TypeOK

(* Who had ended when a request began is still over. *)
LEMMA AfterInvStep == ASSUME IInv, [Next]_vars PROVE AfterInv'
<1> SUFFICES ASSUME NEW x \in Requests, NEW y \in req'[x].after
             PROVE  req'[y].pc = "ended"
  BY DEF AfterInv
<1>1. Persists /\ y \in Requests
  BY RequestsStep DEF RequestsKept, Request
<1>2. y \in req[x].after \/ req[y].pc = "ended"
  BY <1>1 DEF Persists
<1> QED
  BY <1>1, <1>2 DEF IInv, AfterInv, Persists

(* Rows are inserted into the client asked for. *)
LEMMA RowInvStep == ASSUME IInv, [Next]_vars PROVE RowInv'
<1> SUFFICES ASSUME NEW k \in ClientIDs, NEW r \in rows'[k], r.by # None
             PROVE  req'[r.by].pc # "idle" /\ req'[r.by].in.client = k
  BY DEF RowInv, ClientOf
<1>1. r.by \in Requests /\ Persists
  BY TypeOKStep, RequestsStep DEF TypeOK, Row, RequestsKept
<1>2. req[r.by].pc # "idle" /\ ClientOf(r.by) = k
  <2>1. CASE r \in rows[k]
    BY <2>1 DEF IInv, RowInv
  <2>2. CASE r \notin rows[k]
    BY <2>2, RowsStep, RowsEffect
  <2> QED
    BY <2>1, <2>2
<1> QED
  BY <1>1, <1>2 DEF Persists, ClientOf

(* A row comes to a client that is there, and goes with it. *)
LEMMA NoOrphanRowsStep == ASSUME IInv, [Next]_vars PROVE NoOrphanRows'
<1> SUFFICES ASSUME NEW k \in ClientIDs, k \notin clients', NEW r \in rows'[k]
             PROVE  FALSE
  BY DEF NoOrphanRows
<1>1. k \notin clients
  BY ClientsShrink
<1>2. r \notin rows[k]
  BY <1>1 DEF IInv, NoOrphanRows
<1> QED
  BY <1>1, <1>2, RowsStep, RowsEffect

(* The one action that inserts into a transaction. *)
LEMMA FillRowEffect ==
  ASSUME IInv, NEW x \in Requests, FillRow(x), req'[x].pc # "ended"
  PROVE  /\ req[x].pc = "fill" /\ UNCHANGED <<clients, rows>>
         /\ \E name \in Names :
               /\ \A y \in Requests : ~InsertWaits(x, y, name)
               /\ req'[x].ins = req[x].ins \cup Added(x, name)
               /\ req'[x].dels = req[x].dels
               /\ name \in req[x].todo /\ req'[x].todo = req[x].todo \ {name}
               /\ req'[x].pc = "fill" => req'[x].todo # {}
               /\ Added(x, name) # {} => ClientOf(x) \in clients
<1>1. /\ req[x].pc = "fill" /\ UNCHANGED <<clients, rows>>
      /\ req[x] \in Request /\ req \in [Requests -> Request]
  BY DEF FillRow, Inserts, IInv, TypeOK
<1>2. ~Fails(x)
  BY <1>1, FailsMoves DEF Active
<1> DEFINE k == ClientOf(x)
           visible == (rows[k] \ req[x].dels) \cup req[x].ins
<1>3. PICK name \in Entries :
        /\ name \in req[x].todo
        /\ \A y \in Requests : ~InsertWaits(x, y, name)
        /\ ReferenceHolds(k, name \in NamesOf(visible))
        /\ req' = [req EXCEPT ![x] =
             [@ EXCEPT !.pc = IF req[x].todo \ {name} = {} THEN "commit" ELSE "fill",
                       !.todo = req[x].todo \ {name},
                       !.ins = req[x].ins \cup Added(x, name)]]
  BY <1>2 DEF FillRow, Inserts, Upcoming, Added
<1>4. name \in Names
  BY <1>1, <1>3 DEF IInv, RequestInv, SoundRequest, Sanitized, Entries
<1>5. Added(x, name) # {} => k \in clients
  BY <1>3 DEF ReferenceHolds, Added, Plus
<1>6. /\ req'[x].ins = req[x].ins \cup Added(x, name)
      /\ req'[x].dels = req[x].dels
      /\ req'[x].todo = req[x].todo \ {name}
  BY <1>1, <1>3 DEF Request
<1>7. req'[x].pc = "fill" => req[x].todo \ {name} # {}
  BY <1>1, <1>3 DEF Request
<1> QED
  BY <1>1, <1>3, <1>4, <1>5, <1>6, <1>7

(* The DELETE of a replacement. *)
LEMMA WipeRowsEffect ==
  ASSUME IInv, NEW x \in Requests, WipeRows(x), req'[x].pc # "ended"
  PROVE  /\ req[x].pc = "wipe" /\ req[x].in.op = "set" /\ UNCHANGED <<clients, rows>>
         /\ req'[x].dels = req[x].seen \cap rows[ClientOf(x)]
         /\ req'[x].ins = req[x].ins
         /\ req'[x].todo = req[x].todo
         /\ req'[x].pc = "fill" => req[x].todo # {}
<1>1. /\ req[x].pc = "wipe" /\ req[x].in.op = "set" /\ UNCHANGED <<clients, rows>>
      /\ req[x] \in Request /\ req \in [Requests -> Request]
  BY DEF WipeRows, Runs, IInv, TypeOK
<1> DEFINE pc == IF req[x].todo = {} THEN "commit" ELSE "fill"
           gone == req[x].seen \cap rows[ClientOf(x)]
<1>2. ~Fails(x)
  BY <1>1, FailsMoves DEF Active
<1>3. req' = [req EXCEPT ![x] = [req[x] EXCEPT !.pc = pc, !.dels = gone, !.seen = {}]]
  BY <1>2 DEF WipeRows
<1> HIDE DEF pc
<1>4. /\ req'[x].dels = gone
      /\ req'[x].ins = req[x].ins
      /\ req'[x].todo = req[x].todo
      /\ req'[x].pc = pc
  <2> HIDE DEF gone
  <2> QED
    BY <1>1, <1>3 DEF Request
<1>5. pc = "fill" => req[x].todo # {}
  BY DEF pc
<1> QED
  BY <1>1, <1>4, <1>5

(* Whose transaction has inserted rows after a step. *)
LEMMA InsertsFrame ==
  ASSUME IInv, [Next]_vars, NEW x \in Requests, req'[x].ins # {}
  PROVE  \/ req'[x] = req[x]
         \/ FillRow(x) /\ req'[x].pc # "ended"
<1>1. req'[x].pc \in {"fill", "commit"}
  BY RequestsStep DEF RequestsKept, RequestInv, SoundRequest
<1>2. CASE Begin(x) \/ Step(x)
  <2>1. WipeRows(x) \/ FillRow(x)
    BY <1>1, <1>2, StepMoves
  <2>2. ~WipeRows(x)
    <3> SUFFICES ASSUME WipeRows(x) PROVE FALSE
      OBVIOUS
    <3>1. req'[x].ins = req[x].ins /\ req[x].pc = "wipe"
      BY <1>1, WipeRowsEffect
    <3> QED
      BY <3>1 DEF IInv, RequestInv, SoundRequest
  <2> QED
    BY <1>1, <2>1, <2>2
<1> QED
  BY <1>1, <1>2, RequestsStep

(* No client goes from under uncommitted rows. *)
LEMMA InsertInvStep == ASSUME IInv, [Next]_vars PROVE InsertInv'
<1> SUFFICES ASSUME NEW x \in Requests, req'[x].ins # {}
             PROVE  req'[x].in.client \in clients'
  BY DEF InsertInv, ClientOf
<1>1. CASE req'[x] = req[x]
  <2>1. ClientOf(x) \in clients /\ req[x].pc \in {"fill", "commit"}
    BY <1>1 DEF IInv, InsertInv, RequestInv, SoundRequest
  <2>2. ASSUME ClientOf(x) \notin clients' PROVE FALSE
    <3>1. PICK y \in Requests : Cascade(y) /\ ClientOf(y) = ClientOf(x)
      BY <2>1, <2>2, ClientsShrink
    <3>2. req[y].pc = "cascade"
      BY <3>1 DEF Cascade, Runs
    <3> QED
      BY <1>1, <2>1, <3>1, <3>2 DEF IInv, CascadeInv
  <2> QED
    BY <1>1, <2>2 DEF ClientOf
<1>2. CASE FillRow(x) /\ req'[x].pc # "ended"
  <2>1. req[x].pc = "fill" /\ clients' = clients /\ ClientOf(x) \in clients
    BY <1>2, FillRowEffect DEF IInv, InsertInv
  <2>2. req'[x].in = req[x].in
    BY <2>1, RequestsStep DEF RequestsKept, Persists
  <2> QED
    BY <2>1, <2>2 DEF ClientOf
<1> QED
  BY <1>1, <1>2, InsertsFrame

(* No deletion holds a client that has uncommitted rows. *)
LEMMA CascadeInvStep == ASSUME IInv, [Next]_vars PROVE CascadeInv'
<1> SUFFICES ASSUME NEW x \in Requests, NEW y \in Requests, x # y,
                    req'[x].pc = "cascade", req'[y].in.client = req'[x].in.client,
                    req'[y].ins # {}
             PROVE  FALSE
  BY DEF CascadeInv, ClientOf
<1>1. req[x] = req'[x] \/ DeleteClient(x)
  BY StepMoves, RequestsStep
<1>2. req[x].pc \in {"delete", "cascade"} /\ req[x].pc # "idle"
  BY <1>1 DEF DeleteClient, Runs
<1>3. CASE req'[y] = req[y]
  <2>1. req[y].pc # "idle"
    BY <1>3 DEF IInv, RequestInv, SoundRequest
  <2>2. ClientOf(x) = ClientOf(y)
    BY <1>2, <1>3, RequestsStep DEF RequestsKept, Persists, ClientOf
  <2>3. CASE req[x] = req'[x]
    BY <1>3, <2>1, <2>2, <2>3 DEF IInv, CascadeInv
  <2>4. CASE DeleteClient(x)
    <3>1. Waits(x, y)
      BY <1>3, <2>1, <2>2, <2>4 DEF Waits, DeleteClient, Runs, Active
    <3> QED
      BY <2>4, <3>1 DEF DeleteClient, Runs
  <2> QED
    BY <1>1, <2>3, <2>4
<1>4. CASE FillRow(y) /\ req'[y].pc # "ended"
  <2>1. PICK name \in Names :
          /\ \A z \in Requests : ~InsertWaits(y, z, name)
          /\ req'[y].ins = req[y].ins \cup Added(y, name)
    BY <1>4, FillRowEffect
  <2>2. req[y].pc = "fill" /\ req'[x] = req[x]
    BY <1>4, FillRowEffect, RequestsStep DEF Step
  <2>3. ClientOf(x) = ClientOf(y)
    BY <2>2, RequestsStep DEF RequestsKept, Persists, ClientOf
  <2>4. req[y].ins = {}
    BY <2>2, <2>3 DEF IInv, CascadeInv
  <2>5. name \notin NamesOf(rows[ClientOf(y)] \ req[y].dels)
    BY <2>1, <2>4 DEF Added, Plus
  <2>6. InsertWaits(y, x, name)
    BY <2>2, <2>3, <2>5 DEF InsertWaits
  <2> QED
    BY <2>1, <2>6
<1> QED
  BY <1>3, <1>4, InsertsFrame

(* A registration goes on only if its client was not there. *)
LEMMA InsertClientEffect ==
  ASSUME IInv, NEW x \in Requests, InsertClient(x), req'[x].pc = "add"
  PROVE  ClientOf(x) \notin clients /\ ClientOf(x) \in clients'
<1>1. req[x].pc = "insert"
  BY DEF InsertClient, Runs
<1>2. ~Fails(x)
  BY <1>1, FailsMoves DEF Active
<1> QED
  BY <1>2 DEF InsertClient

(* A second registration of a client does not get past its INSERT. *)
LEMMA OwnerInvStep == ASSUME IInv, [Next]_vars PROVE OwnerInv'
<1> SUFFICES ASSUME ~Deleted'
             PROVE  /\ \A x \in Requests : Owner(x)' => ClientOf(x)' \in clients'
                    /\ \A x, y \in Requests :
                          x # y /\ Owner(x)' /\ Owner(y)' => ClientOf(x)' # ClientOf(y)'
  BY DEF OwnerInv
<1>1. Persists
  BY RequestsStep DEF RequestsKept
<1>2. \A z \in Requests : req[z].pc # "idle" => req[z].in.op # "delete"
  <2>1. \A z \in Requests : req[z].pc # "idle" => req[z].in # None
    BY DEF IInv, RequestInv, SoundRequest
  <2> QED
    BY <1>1, <2>1 DEF Deleted, Persists
<1>3. ~Deleted
  BY <1>2 DEF Deleted, IInv, RequestInv, SoundRequest
<1>4. clients \subseteq clients'
  <2> SUFFICES ASSUME NEW k \in clients, k \notin clients' PROVE FALSE
    OBVIOUS
  <2>1. PICK x \in Requests : Cascade(x)
    BY ClientsShrink
  <2>2. req[x].pc = "cascade"
    BY <2>1 DEF Cascade, Runs
  <2> QED
    BY <1>2, <2>2 DEF IInv, RequestInv, SoundRequest
<1>5. \A x \in Requests : Owner(x) => ClientOf(x) \in clients
  BY <1>3 DEF IInv, OwnerInv
<1>6. \A x, y \in Requests : x # y /\ Owner(x) /\ Owner(y) => ClientOf(x) # ClientOf(y)
  BY <1>3 DEF IInv, OwnerInv
<1>7. ASSUME NEW x \in Requests, Owner(x)'
      PROVE  /\ Owner(x) \/ (InsertClient(x) /\ ClientOf(x) \notin clients)
             /\ ClientOf(x)' = ClientOf(x) /\ ClientOf(x) \in clients'
  <2>1. /\ req'[x].pc # "idle" /\ req'[x].in.op = "register"
        /\ req'[x].pc = "add" \/ \E r \in rows'[req'[x].in.client] : r.by = x
    BY <1>7 DEF Owner, ClientOf
  <2>2. ASSUME req[x].pc # "idle"
        PROVE  ClientOf(x)' = ClientOf(x) /\ req[x].in = req'[x].in
    BY <1>1, <2>2 DEF Persists, ClientOf
  <2>3. CASE req'[x].pc = "add"
    <3>1. \/ req'[x] = req[x]
          \/ CheckClient(x) /\ req[x].in.op = "add"
          \/ InsertClient(x)
          \/ AddRow(x)
      BY <2>3, StepMoves, RequestsStep
    <3>2. req[x].pc \in {"check", "insert", "add"}
      BY <2>3, <3>1 DEF CheckClient, InsertClient, AddRow, Runs, Inserts
    <3>3. req[x].in.op = "register" /\ ClientOf(x)' = ClientOf(x)
      BY <2>1, <2>2, <3>2
    <3>4. CASE InsertClient(x)
      BY <2>3, <3>3, <3>4, InsertClientEffect
    <3>5. CASE req[x].pc = "add"
      <4>1. Owner(x)
        BY <3>3, <3>5 DEF Owner
      <4> QED
        BY <1>4, <1>5, <3>3, <4>1
    <3> QED
      BY <2>3, <3>1, <3>3, <3>4, <3>5 DEF AddRow, Inserts
  <2>4. CASE \E r \in rows'[req'[x].in.client] : r.by = x
    <3>1. PICK r \in rows'[req'[x].in.client] : r.by = x
      BY <2>4
    <3>2. req'[x].in.client \in ClientIDs
      BY <2>1, TypeOKStep, RequestsStep, InputTypes
         DEF RequestsKept, RequestInv, SoundRequest, TypeOK, Request
    <3>3. CASE r \in rows[req'[x].in.client]
      <4>1. req[x].pc # "idle" /\ r \in rows[ClientOf(x)]
        BY <3>1, <3>2, <3>3, ConstantsAssumption DEF IInv, RowInv
      <4>2. Owner(x)
        BY <2>1, <2>2, <3>1, <4>1 DEF Owner
      <4> QED
        BY <1>4, <1>5, <2>2, <4>1, <4>2
    <3>4. CASE r \notin rows[req'[x].in.client]
      <4>1. req[x].pc \in {"add", "commit"}
        BY <3>1, <3>2, <3>4, RowsStep, RowsEffect
      <4>2. req[x].in.op = "register"
        BY <2>1, <2>2, <4>1
      <4>3. req[x].pc = "add"
        BY <4>1, <4>2 DEF IInv, RequestInv, SoundRequest
      <4>4. Owner(x)
        BY <4>2, <4>3 DEF Owner
      <4> QED
        BY <1>4, <1>5, <2>2, <4>1, <4>4
    <3> QED
      BY <3>3, <3>4
  <2> QED
    BY <2>1, <2>3, <2>4
<1>8. ASSUME NEW x \in Requests, NEW y \in Requests, x # y, Owner(x)', Owner(y)',
             ClientOf(x)' = ClientOf(y)'
      PROVE  FALSE
  <2>1. ClientOf(x) = ClientOf(y)
    BY <1>7, <1>8
  <2>2. CASE Owner(x) /\ Owner(y)
    BY <1>6, <1>8, <2>1, <2>2
  <2>3. CASE Owner(x) /\ ~Owner(y)
    BY <1>5, <1>7, <1>8, <2>1, <2>3
  <2>4. CASE ~Owner(x) /\ Owner(y)
    BY <1>5, <1>7, <1>8, <2>1, <2>4
  <2>5. CASE ~Owner(x) /\ ~Owner(y)
    <3>1. InsertClient(x) /\ InsertClient(y)
      BY <1>7, <1>8, <2>5
    <3>2. Owner(x)' /\ req'[y] = req[y] /\ req[y].pc = "insert"
      BY <1>8, <3>1, RequestsStep DEF Step, InsertClient, Runs
    <3>3. \E r \in rows'[ClientOf(y)'] : r.by = y
      BY <1>8, <3>2 DEF Owner
    <3>4. rows' = rows /\ req[y].pc # "idle"
      BY <3>1, <3>2 DEF InsertClient
    <3> QED
      BY <1>7, <1>8, <2>5, <3>2, <3>3, <3>4 DEF Owner, ClientOf
  <2> QED
    BY <2>2, <2>3, <2>4, <2>5
<1> QED
  BY <1>7, <1>8

(* The company of a request only grows, and two that run are company. *)
LEMMA ConcurrentGrows ==
  ASSUME IInv, [Next]_vars, NEW x \in Requests, req[x].pc # "idle"
  PROVE  /\ \A y \in Concurrent(x) : y \in Concurrent(x)' /\ req'[y].in = req[y].in
         /\ Removed(x) => Removed(x)'
         /\ req'[x].in = req[x].in /\ ClientOf(x)' = ClientOf(x)
<1>1. Persists
  BY RequestsStep DEF RequestsKept
<1>2. \A y \in Concurrent(x) : y \in Concurrent(x)' /\ req'[y].in = req[y].in
  BY <1>1 DEF Persists, Concurrent
<1>3. Removed(x) => Removed(x)'
  BY <1>2 DEF Removed
<1>4. req'[x].in = req[x].in
  BY <1>1 DEF Persists
<1> QED
  BY <1>2, <1>3, <1>4 DEF ClientOf

(* Two requests that run at once are company. *)
LEMMA RunningIsCompany ==
  ASSUME IInv, NEW x \in Requests, NEW y \in Requests, x # y, req[y].pc \in Active
  PROVE  y \in Concurrent(x)
<1>1. req[y].pc \notin {"idle", "ended"}
  BY DEF Active
<1> QED
  BY <1>1 DEF IInv, AfterInv, Concurrent

(* A row that comes or goes while a replacement waits is its company's doing. *)
LEMMA RowsOfOthers ==
  ASSUME IInv, [Next]_vars, NEW x \in Requests, req'[x] = req[x],
         req[x].pc \in {"wipe", "fill", "commit"}
  PROVE  /\ \A r \in rows'[ClientOf(x)] \ rows[ClientOf(x)] : r.by \in Concurrent(x)
         /\ ~(rows[ClientOf(x)] \subseteq rows'[ClientOf(x)]) => Removed(x)
<1>1. CASE rows' = rows
  BY <1>1
<1>2. ASSUME NEW y \in Requests,
             AddRow(y) \/ RemoveRow(y) \/ Commit(y) \/ Cascade(y),
             req[y].pc # "idle", Edits(y)
      PROVE  /\ \A r \in rows'[ClientOf(x)] \ rows[ClientOf(x)] : r.by \in Concurrent(x)
             /\ ~(rows[ClientOf(x)] \subseteq rows'[ClientOf(x)]) => Removed(x)
  <2>1. x # y
    BY <1>2, RemoveRowMoves, CommitMoves DEF AddRow, Inserts, Cascade, Runs
  <2>2. y \in Concurrent(x)
    <3>1. req[y].pc \in Active
      BY <1>2 DEF AddRow, Inserts, RemoveRow, Commit, Cascade, Runs, Active
    <3> QED
      BY <2>1, <3>1, RunningIsCompany
  <2>3. ClientOf(x) \in ClientIDs
    BY ClientOfType
  <2>4. req[y].pc \in {"wipe", "commit", "cascade"} =>
           req[y].in.op \in {"delete", "set", "remove"}
    BY DEF IInv, RequestInv, SoundRequest
  <2> QED
    BY <1>2, <2>2, <2>3, <2>4, RowsEffect DEF Removed
<1> QED
  BY <1>1, <1>2, RowsStep

(* What a DELETE statement sees. *)
LEMMA StartDeleteEffect ==
  ASSUME IInv, NEW x \in Requests, StartDelete(x), req'[x].pc # "ended"
  PROVE  /\ req[x].pc = "snap" /\ rows' = rows /\ req'[x].seen \subseteq rows[ClientOf(x)]
         /\ req[x].in.op = "set" => req'[x].seen = Committed(ClientOf(x), req[x].in.kind)
<1>1. /\ req[x].pc = "snap" /\ rows' = rows
      /\ req[x] \in Request /\ req \in [Requests -> Request]
  BY DEF StartDelete, Runs, IInv, TypeOK
<1> DEFINE found == {r \in rows[ClientOf(x)] : r.name \in Targets(req[x].in)}
<1>2. ~Fails(x)
  BY <1>1, FailsMoves DEF Active
<1>3. req' = [req EXCEPT ![x] = [req[x] EXCEPT !.pc = "wipe", !.seen = found]]
  BY <1>2 DEF StartDelete
<1>4. req'[x].seen = found
  <2> HIDE DEF found
  <2> QED
    BY <1>1, <1>3 DEF Request
<1>5. req[x].in.op = "set" => found = Committed(ClientOf(x), req[x].in.kind)
  BY DEF Targets, Committed
<1> QED
  BY <1>1, <1>4, <1>5

(* Where a replacement comes from. *)
LEMMA PutFrame ==
  ASSUME IInv, [Next]_vars, NEW x \in Requests, req'[x].pc \in {"wipe", "fill", "commit"}
  PROVE  /\ req[x].pc # "idle"
         /\ \/ req'[x] = req[x]
            \/ req'[x].pc = "wipe" /\ StartDelete(x)
            \/ req'[x].pc \in {"fill", "commit"} /\ (WipeRows(x) \/ FillRow(x))
<1>1. \/ req'[x] = req[x]
      \/ req'[x].pc = "wipe" /\ StartDelete(x)
      \/ req'[x].pc \in {"fill", "commit"} /\ (WipeRows(x) \/ FillRow(x))
  BY RequestsStep, StepMoves
<1>2. StartDelete(x) \/ WipeRows(x) \/ FillRow(x) => req[x].pc # "idle"
  BY DEF StartDelete, WipeRows, FillRow, Runs, Inserts
<1> QED
  BY <1>1, <1>2

(* While a replacement waits, what it did not see comes from its company. *)
LEMMA ForeignKept ==
  ASSUME IInv, [Next]_vars, NEW x \in Requests, NEW S,
         req[x].pc \in {"wipe", "fill", "commit"}, req'[x] = req[x], Foreign(x, S),
         NEW r \in rows'[ClientOf(x)], r.name \in OfKind(req[x].in.kind)
  PROVE  r \in S \/ r.by \in Concurrent(x)'
<1>1. r.by \in Concurrent(x) => r.by \in Concurrent(x)'
  BY ConcurrentGrows
<1>2. CASE r \in rows[ClientOf(x)]
  BY <1>1, <1>2 DEF Foreign, Committed
<1>3. CASE r \notin rows[ClientOf(x)]
  BY <1>1, <1>3, RowsOfOthers
<1> QED
  BY <1>2, <1>3

(* The DELETE of a replacement has seen what is not of its company. *)
LEMMA SeenPartStep ==
  ASSUME IInv, [Next]_vars, NEW x \in Requests PROVE SeenPart(x)'
<1> SUFFICES ASSUME req'[x].pc = "wipe", req'[x].in.op = "set",
                    NEW r \in rows'[ClientOf(x)'], r.name \in OfKind(req'[x].in.kind)
             PROVE  r \in req'[x].seen \/ r.by \in Concurrent(x)'
  BY DEF SeenPart, Foreign, Committed
<1>1. req[x].pc # "idle" /\ req'[x].in = req[x].in /\ ClientOf(x)' = ClientOf(x)
  BY PutFrame, ConcurrentGrows
<1>2. CASE req'[x] = req[x]
  <2>1. Foreign(x, req[x].seen)
    BY <1>2 DEF IInv, PutInv, SeenPart
  <2> QED
    BY <1>1, <1>2, <2>1, ForeignKept
<1>3. CASE StartDelete(x)
  BY <1>1, <1>3, StartDeleteEffect DEF Committed
<1> QED
  BY <1>2, <1>3, PutFrame

(* It has deleted what is not of its company. *)
LEMMA DelsPartStep ==
  ASSUME IInv, [Next]_vars, NEW x \in Requests PROVE DelsPart(x)'
<1> SUFFICES ASSUME req'[x].pc \in {"fill", "commit"},
                    NEW r \in rows'[ClientOf(x)'], r.name \in OfKind(req'[x].in.kind)
             PROVE  r \in req'[x].dels \/ r.by \in Concurrent(x)'
  BY DEF DelsPart, Foreign, Committed
<1>1. /\ req[x].pc # "idle" /\ req'[x].in = req[x].in /\ ClientOf(x)' = ClientOf(x)
      /\ r.by \in Concurrent(x) => r.by \in Concurrent(x)'
  BY PutFrame, ConcurrentGrows
<1>2. CASE req'[x] = req[x]
  <2>1. Foreign(x, req[x].dels)
    BY <1>2 DEF IInv, PutInv, DelsPart
  <2> QED
    BY <1>1, <1>2, <2>1, ForeignKept
<1>3. CASE WipeRows(x)
  <2>1. /\ req[x].pc = "wipe" /\ req[x].in.op = "set" /\ rows' = rows
        /\ req'[x].dels = req[x].seen \cap rows[ClientOf(x)]
    BY <1>3, WipeRowsEffect
  <2>2. Foreign(x, req[x].seen)
    BY <2>1 DEF IInv, PutInv, SeenPart
  <2> QED
    BY <1>1, <2>1, <2>2 DEF Foreign, Committed
<1>4. CASE FillRow(x)
  <2>1. req[x].pc = "fill" /\ rows' = rows /\ req'[x].dels = req[x].dels
    BY <1>4, FillRowEffect
  <2>2. Foreign(x, req[x].dels)
    BY <2>1 DEF IInv, PutInv, DelsPart
  <2> QED
    BY <1>1, <2>1, <2>2 DEF Foreign, Committed
<1> QED
  BY <1>2, <1>3, <1>4, PutFrame

(* Its entries are there once it has dealt with them. *)
LEMMA NamesPartStep ==
  ASSUME IInv, [Next]_vars, NEW x \in Requests PROVE NamesPart(x)'
<1> SUFFICES ASSUME req'[x].pc \in {"fill", "commit"}, ~Removed(x)',
                    NEW name \in Sanitized(req'[x].in.list) \ req'[x].todo
             PROVE  name \in NamesOf((rows'[ClientOf(x)'] \ req'[x].dels) \cup req'[x].ins)
  BY DEF NamesPart
<1>1. /\ req[x].pc # "idle" /\ req'[x].in = req[x].in /\ ClientOf(x)' = ClientOf(x)
      /\ ~Removed(x)
  BY PutFrame, ConcurrentGrows
<1> DEFINE there == (rows[ClientOf(x)] \ req[x].dels) \cup req[x].ins
<1>2. CASE req'[x] = req[x]
  <2>1. name \in NamesOf(there)
    BY <1>1, <1>2 DEF IInv, PutInv, NamesPart
  <2>2. rows[ClientOf(x)] \subseteq rows'[ClientOf(x)]
    BY <1>1, <1>2, RowsOfOthers
  <2> QED
    BY <1>1, <1>2, <2>1, <2>2 DEF NamesOf
<1>3. CASE WipeRows(x)
  <2>1. req[x].pc = "wipe" /\ req[x].in.op = "set" /\ req'[x].todo = req[x].todo
    BY <1>3, WipeRowsEffect
  <2>2. req[x].todo = Sanitized(req[x].in.list)
    BY <2>1 DEF IInv, RequestInv, SoundRequest
  <2> QED
    BY <1>1, <2>1, <2>2
<1>4. CASE FillRow(x)
  <2>1. PICK new \in Names :
          /\ req[x].pc = "fill" /\ rows' = rows
          /\ req'[x].ins = req[x].ins \cup Added(x, new)
          /\ req'[x].dels = req[x].dels
          /\ req'[x].todo = req[x].todo \ {new}
    BY <1>4, FillRowEffect
  <2>2. (rows'[ClientOf(x)'] \ req'[x].dels) \cup req'[x].ins = there \cup Added(x, new)
    BY <1>1, <2>1
  <2>3. CASE name = new
    BY <2>2, <2>3, AddedRow
  <2>4. CASE name # new
    <3>1. name \in NamesOf(there)
      BY <1>1, <2>1, <2>4 DEF IInv, PutInv, NamesPart
    <3> HIDE DEF there
    <3> QED
      BY <2>2, <3>1 DEF NamesOf
  <2> QED
    BY <2>3, <2>4
<1> QED
  BY <1>2, <1>3, <1>4, PutFrame
-----------------------------------------------------------------------------
(* Every step keeps the invariant. *)
LEMMA NextInv == ASSUME IInv, [Next]_vars PROVE IInv'
<1>1. TypeOK' /\ RequestInv'
  BY TypeOKStep, RequestsStep DEF RequestsKept
<1>2. AfterInv' /\ RowInv' /\ NoOrphanRows'
  BY AfterInvStep, RowInvStep, NoOrphanRowsStep
<1>3. InsertInv' /\ CascadeInv' /\ OwnerInv'
  BY InsertInvStep, CascadeInvStep, OwnerInvStep
<1>4. PutInv'
  BY SeenPartStep, DelsPartStep, NamesPartStep DEF PutInv
<1> QED
  BY <1>1, <1>2, <1>3, <1>4 DEF IInv

(* The invariant holds in every reachable state. *)
THEOREM Invariance == Spec => []IInv
  BY InitInv, NextInv, PTL DEF Spec

(* The state is what its declaration says. *)
THEOREM TypeCorrect == Spec => []TypeOK
<1>1. IInv => TypeOK
  BY DEF IInv
<1> QED
  BY <1>1, Invariance, PTL

(***************************************************************************)
(* A client that is deleted leaves no redirect URI and no scope behind,    *)
(* because of the foreign keys and the locks they take.                    *)
(* (V2__create_oauth_clients_tables.sql:24-39)                             *)
(***************************************************************************)
THEOREM NoOrphans == Spec => []NoOrphanRows
<1>1. IInv => NoOrphanRows
  BY DEF IInv
<1> QED
  BY <1>1, Invariance, PTL

(***************************************************************************)
(* Two registrations of one client_id do not mix in one client: it is the  *)
(* primary key that decides.  (client_service.go:62-68, 117-134)           *)
(***************************************************************************)
THEOREM RegistrationsApart == Spec => []RegistrationsDoNotMix
<1>1. ASSUME IInv PROVE RegistrationsDoNotMix
  <2> SUFFICES ASSUME NEW k \in ClientIDs, NEW r \in rows[k], NEW s \in rows[k],
                      r.by # None, s.by # None, r.by # s.by,
                      req[r.by].in.op = "register", req[s.by].in.op = "register"
               PROVE  Deleted
    BY DEF RegistrationsDoNotMix, Deleted
  <2>1. r.by \in Requests /\ s.by \in Requests
    BY <1>1 DEF IInv, TypeOK, Row
  <2>2. /\ req[r.by].pc # "idle" /\ ClientOf(r.by) = k
        /\ req[s.by].pc # "idle" /\ ClientOf(s.by) = k
    BY <1>1 DEF IInv, RowInv
  <2>3. Owner(r.by) /\ Owner(s.by)
    BY <2>2 DEF Owner
  <2> QED
    BY <1>1, <2>1, <2>2, <2>3 DEF IInv, OwnerInv
<1> QED
  BY <1>1, Invariance, PTL

(* What a replacement commits. *)
LEMMA CommitEffect ==
  ASSUME IInv, [Next]_vars, NEW x \in Requests,
         req[x].pc = "commit", req'[x].pc = "reread"
  PROVE  rows'[ClientOf(x)] = (rows[ClientOf(x)] \ req[x].dels) \cup req[x].ins
<1>1. Begin(x) \/ Step(x)
  BY RequestsStep
<1>2. Commit(x) \/ BreakDeadlock(x)
  BY <1>1 DEF Begin, Step, CheckClient, InsertClient, AddRow, StartDelete, WipeRows, RemoveRow,
              FillRow, Reread, DeleteClient, Cascade, Runs, Inserts
<1>3. Commit(x) /\ ~Fails(x)
  BY <1>2, BreakDeadlockMoves, FailsMoves DEF Active
<1>4. rows \in [ClientIDs -> SUBSET Row] /\ ClientOf(x) \in ClientIDs
  BY ClientOfType DEF IInv, TypeOK
<1> QED
  BY <1>3, <1>4 DEF Commit

(***************************************************************************)
(* When a PUT commits, what is there beyond its list is of concurrent      *)
(* requests, and what is missing of it they have removed.                  *)
(* (client_repository.go:196-217, 284-305)                                 *)
(***************************************************************************)
THEOREM Overwrites == Spec => SetOverwrites
<1> DEFINE Overwrite(x) ==
        req[x].pc = "commit" /\ req'[x].pc = "reread" =>
              LET k == ClientOf(x)
                  list == Sanitized(req[x].in.list)
                  now == Committed(k, req[x].in.kind)'
              IN /\ \A r \in now : r.name \in list \/ r.by \in Concurrent(x)
                 /\ list \subseteq NamesOf(now) \/
                       \E y \in Concurrent(x) : req[y].in.op \in {"delete", "set", "remove"}
<1>1. ASSUME IInv, [Next]_vars, NEW x \in Requests PROVE Overwrite(x)
  <2> SUFFICES ASSUME req[x].pc = "commit", req'[x].pc = "reread" PROVE Overwrite(x)
    OBVIOUS
  <2> DEFINE list == Sanitized(req[x].in.list)
             now == {r \in rows'[ClientOf(x)] : r.name \in OfKind(req[x].in.kind)}
  <2>1. /\ req'[x].in = req[x].in /\ ClientOf(x)' = ClientOf(x)
        /\ Committed(ClientOf(x), req[x].in.kind)' = now
    <3>1. req'[x].in = req[x].in /\ ClientOf(x)' = ClientOf(x)
      BY <1>1, ConcurrentGrows
    <3> QED
      BY <3>1 DEF Committed
  <2>2. rows'[ClientOf(x)] = (rows[ClientOf(x)] \ req[x].dels) \cup req[x].ins
    BY <1>1, CommitEffect
  <2>3. \A r \in now : r.name \in list \/ r.by \in Concurrent(x)
    <3> SUFFICES ASSUME NEW r \in now PROVE r.name \in list \/ r.by \in Concurrent(x)
      OBVIOUS
    <3>1. CASE r \in req[x].ins
      BY <1>1, <3>1 DEF IInv, RequestInv, SoundRequest, NamesOf
    <3>2. CASE r \in rows[ClientOf(x)] \ req[x].dels
      BY <1>1, <3>2 DEF IInv, PutInv, DelsPart, Foreign, Committed
    <3> QED
      BY <2>2, <3>1, <3>2
  <2>4. list \subseteq NamesOf(now) \/ Removed(x)
    <3> SUFFICES ASSUME NEW name \in list, ~Removed(x) PROVE name \in NamesOf(now)
      OBVIOUS
    <3>1. name \in NamesOf(rows'[ClientOf(x)])
      BY <1>1, <2>2 DEF IInv, PutInv, NamesPart, RequestInv, SoundRequest
    <3>2. name \in OfKind(req[x].in.kind)
      <4>1. req[x].in \in Inputs /\ Bad \notin req[x].in.list
        BY <1>1, ClientOfType DEF IInv, RequestInv, SoundRequest
      <4> QED
        BY <4>1, ConstantsAssumption DEF Sanitized
    <3> QED
      BY <3>1, <3>2 DEF NamesOf
  <2> HIDE DEF now
  <2> QED
    BY <2>1, <2>3, <2>4 DEF Removed
<1>2. IInv /\ [Next]_vars => [\A x \in Requests : Overwrite(x)]_vars
  BY <1>1
<1> QED
  BY <1>2, Invariance, PTL DEF Spec, SetOverwrites
=============================================================================
