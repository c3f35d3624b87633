----------------------------- MODULE RbacProofs -----------------------------
(***************************************************************************)
(* Theorems about Rbac, for any number of requests, users, roles and       *)
(* permissions, with failures and crashes.                                 *)
(***************************************************************************)
EXTENDS Rbac, TLAPS

(* What the control state of a request says of its other fields. *)
Sound(r) ==
    /\ r \in Request
    /\ r.pc = "idle" => r.in = None
    /\ r.pc # "idle" => r.in \in Inputs
    /\ r.pc \in {"look", "insert"} => r.in.op = "create" /\ Normal[r.in.text] \in Things
    /\ r.pc \in {"holder", "item", "assign"} => r.in.op = "assign"
    /\ r.pc = "remove" => r.in.op = "remove"
    /\ r.pc \in {"read", "roles", "permissions"} => r.in.op = "report"
    /\ r.pc = "roles" => r.in.holder \in Users
    /\ r.pc # "ended" => ~r.cut /\ r.status = 0
    /\ r.pc \notin {"permissions", "ended"} => r.todo = {} /\ r.listed = {}
    /\ r.status = 200 => r.todo = {}

RequestInv == \A x \in Requests : Sound(req[x])

AfterInv == \A x \in Requests : \A y \in req[x].after : req[y].pc = "ended"

(* The rows of the join tables reference rows. *)
LinkInv == \A l \in links : Ends(l) \subseteq things

(* A name that was found or inserted is there. *)
NameInv ==
    \A x \in Requests :
        Op(x, "create") /\ req[x].status \in {201, 409} => NameOf(x) \in things

(* y alone has edited its link since it began. *)
Sole(y) ==
    \A z \in Requests \ {y} :
        Edits(z) /\ req[z].in.link = req[y].in.link => z \in req[y].after

Edited(y) == Edits(y) /\ req[y].status = 200

(* What an edit has acknowledged holds until the next one begins. *)
EditInv ==
    \A y \in Requests : Edited(y) =>
        /\ Ends(req[y].in.link) \subseteq things
        /\ Sole(y) => (req[y].in.link \in links <=> Op(y, "assign"))

(* A report that is under way, or was answered, has read lists. *)
Reading(x) ==
    /\ Op(x, "report") /\ ~req[x].cut
    /\ req[x].pc = "permissions" \/ req[x].status = 200

(* It has what was settled before it began of all it has read. *)
Settled(x, y) ==
    LET l == req[y].in.link IN
    Edited(y) /\ Concerns(x, l) /\ LastEdit(y, x) =>
        \/ l[1] \in req[x].todo
        \/ l \in req[x].listed <=> Op(y, "assign")

ReportInv == \A x \in Requests : Reading(x) => \A y \in req[x].after : Settled(x, y)

(* Nothing is listed yet of a role that is still to be read. *)
TodoInv == \A x \in Requests : \A l \in req[x].listed : l[1] \notin req[x].todo

(* The inductive invariant. *)
IInv ==
    /\ TypeOK /\ RequestInv /\ AfterInv /\ LinkInv /\ NameInv /\ EditInv
    /\ TodoInv /\ ReportInv /\ CreatedOnce
-----------------------------------------------------------------------------
(* The initial states satisfy the invariant. *)
LEMMA InitInv == Init => IInv
<1> SUFFICES ASSUME Init PROVE IInv
  OBVIOUS
<1>1. TypeOK /\ RequestInv
  BY DEF Init, TypeOK, RequestInv, Sound, Request, Active, Statuses
<1>2. AfterInv /\ LinkInv /\ TodoInv
  BY DEF Init, AfterInv, LinkInv, TodoInv
<1>3. NameInv /\ EditInv /\ ReportInv /\ CreatedOnce
  BY DEF Init, NameInv, EditInv, Edited, Edits, ReportInv, Reading, CreatedOnce, Created, Op
<1> QED
  BY <1>1, <1>2, <1>3 DEF IInv
-----------------------------------------------------------------------------
(* A step of request x, which makes it r. *)
Move(x, r) ==
    /\ req' = [req EXCEPT ![x] = r]
    /\ Sound(r) /\ r.pc # "idle" /\ req[x].pc # "ended"
    /\ req[x].pc = "idle" =>
          /\ r.status \in {0, 400} /\ r.pc # "permissions"
          /\ r.after = {y \in Requests : req[y].pc = "ended"}
    /\ req[x].pc # "idle" => r.in = req[x].in /\ r.after = req[x].after

Moves(x) == \E r \in Request : Move(x, r)

(* An edit of some fields of a request leaves a request. *)
LEMMA RequestEdits ==
  ASSUME NEW r \in Request
  PROVE  /\ \A pc \in {"ended"} \cup Active : [r EXCEPT !.pc = pc] \in Request
         /\ \A status \in Statuses : [r EXCEPT !.pc = "ended", !.status = status] \in Request
         /\ [r EXCEPT !.pc = "ended", !.status = 200, !.cut = TRUE] \in Request
<1>1. ASSUME NEW pc \in {"ended"} \cup Active PROVE [r EXCEPT !.pc = pc] \in Request
  BY DEF Request
<1>2. ASSUME NEW status \in Statuses
      PROVE  [r EXCEPT !.pc = "ended", !.status = status] \in Request
  BY DEF Request
<1>3. ASSUME NEW status \in Statuses
      PROVE  [r EXCEPT !.pc = "ended", !.status = status, !.cut = TRUE] \in Request
  BY DEF Request
<1>4. 200 \in Statuses
  BY DEF Statuses
<1> QED
  BY <1>1, <1>2, <1>3, <1>4

(* What inputs are made of. *)
LEMMA InputTypes ==
  ASSUME NEW in \in Inputs
  PROVE  /\ in.op = "create" => Normal[in.text] \in Things \cup {Invalid}
         /\ in.op \in {"assign", "remove"} => in.link \in Links
         /\ in.op = "report" => in.holder \in Users \cup Roles \cup {None}
         /\ in # None
  BY ConstantsAssumption DEF Input

(* What a request that has begun keeps for its answer. *)
SameLists(x) ==
    /\ req'[x].todo = req[x].todo /\ req'[x].listed = req[x].listed
    /\ req'[x].cut = req[x].cut

(* An answer moves a request that is not over. *)
LEMMA AnswersMoves ==
  ASSUME TypeOK, RequestInv, NEW x \in Requests, NEW status \in Statuses,
         req[x].pc \in Active, status = 200 => req[x].todo = {}, Answers(x, status)
  PROVE  Moves(x) /\ SameLists(x) /\ req'[x].pc = "ended" /\ req'[x].status = status
<1> DEFINE r == [req[x] EXCEPT !.pc = "ended", !.status = status]
<1>1. Sound(req[x]) /\ req \in [Requests -> Request]
  BY DEF RequestInv, TypeOK
<1>2. r \in Request
  BY <1>1, RequestEdits DEF Sound
<1>3. /\ r.pc = "ended" /\ r.in = req[x].in /\ r.after = req[x].after
      /\ r.status = status /\ r.todo = req[x].todo
      /\ r.listed = req[x].listed /\ r.cut = req[x].cut
  BY <1>1 DEF Sound, Request
<1>4. req' = [req EXCEPT ![x] = r]
  BY DEF Answers
<1> HIDE DEF r
<1>5. Sound(r)
  BY <1>1, <1>2, <1>3 DEF Sound, Active
<1>6. req'[x] = r
  BY <1>1, <1>4
<1>7. Moves(x)
  BY <1>2, <1>3, <1>4, <1>5 DEF Moves, Move, Active
<1> QED
  BY <1>3, <1>6, <1>7 DEF SameLists

(* An error is an answer, and never 200. *)
LEMMA FailsMoves ==
  ASSUME TypeOK, RequestInv, NEW x \in Requests, req[x].pc \in Active, Fails(x)
  PROVE  Moves(x) /\ SameLists(x) /\ req'[x].pc = "ended" /\ req'[x].status \in {400, 500}
  BY AnswersMoves DEF Fails, Statuses

(* A request that goes on keeps its input. *)
LEMMA GoesMoves ==
  ASSUME TypeOK, RequestInv, NEW x \in Requests,
         NEW pc \in {"insert", "item", "assign", "roles"}, Goes(x, pc),
         req[x].pc \in Active \ {"permissions"},
         pc = "insert" => req[x].pc = "look",
         pc \in {"item", "assign"} => req[x].pc \in {"holder", "item"},
         pc = "roles" => req[x].pc = "read" /\ req[x].in.holder \in Users
  PROVE  Moves(x) /\ SameLists(x) /\ req'[x].pc = pc /\ req'[x].status = 0
<1> DEFINE r == [req[x] EXCEPT !.pc = pc]
<1>1. Sound(req[x]) /\ req \in [Requests -> Request]
  BY DEF RequestInv, TypeOK
<1>2. r \in Request
  BY <1>1, RequestEdits DEF Sound, Active
<1>3. /\ r.pc = pc /\ r.in = req[x].in /\ r.after = req[x].after
      /\ r.status = req[x].status /\ r.todo = req[x].todo
      /\ r.listed = req[x].listed /\ r.cut = req[x].cut
  BY <1>1 DEF Sound, Request
<1>4. req' = [req EXCEPT ![x] = r]
  BY DEF Goes
<1> HIDE DEF r
<1>5. Sound(r)
  BY <1>1, <1>2, <1>3 DEF Sound, Active
<1>6. req'[x] = r
  BY <1>1, <1>4
<1>7. Moves(x)
  BY <1>2, <1>3, <1>4, <1>5 DEF Moves, Move, Active
<1> QED
  BY <1>1, <1>3, <1>6, <1>7 DEF SameLists, Sound, Active

(* A report lists links, and has roles still to read. *)
LEMMA ReportsMoves ==
  ASSUME TypeOK, RequestInv, NEW x \in Requests, NEW todo \in SUBSET Roles,
         NEW listed \in SUBSET Links, Reports(x, todo, listed),
         req[x].pc \in {"read", "roles", "permissions"}
  PROVE  /\ Moves(x) /\ req'[x].todo = todo /\ req'[x].listed = listed
         /\ req'[x].status \in {0, 200}
<1> DEFINE r == [pc |-> IF todo = {} THEN "ended" ELSE "permissions", in |-> req[x].in,
                 todo |-> todo, listed |-> listed, cut |-> FALSE,
                 status |-> IF todo = {} THEN 200 ELSE 0, after |-> req[x].after]
<1>1. Sound(req[x]) /\ req \in [Requests -> Request]
  BY DEF RequestInv, TypeOK
<1>2. r \in Request
  BY <1>1 DEF Sound, Request, Active, Statuses
<1>3. /\ r.pc = (IF todo = {} THEN "ended" ELSE "permissions")
      /\ r.in = req[x].in /\ r.after = req[x].after
      /\ r.status = (IF todo = {} THEN 200 ELSE 0)
      /\ r.todo = todo /\ r.listed = listed /\ r.cut = FALSE
  OBVIOUS
<1>4. req' = [req EXCEPT ![x] = r]
  BY DEF Reports
<1> HIDE DEF r
<1>5. Sound(r)
  BY <1>1, <1>2, <1>3 DEF Sound, Active
<1>6. req'[x] = r
  BY <1>1, <1>4
<1>7. Moves(x)
  BY <1>2, <1>3, <1>4, <1>5 DEF Moves, Move, Active
<1> QED
  BY <1>3, <1>6, <1>7

(* What a SELECT of a list leaves x with. *)
Listing(x, todo, listed) ==
    /\ Moves(x)
    /\ req'[x].status \notin {201, 409}
    /\ \/ req'[x].todo = todo /\ req'[x].listed = listed
       \/ req'[x].todo = {} /\ req'[x].listed = {} /\ ~Reading(x)'

(* A list that was read, cut short or not, is one of these. *)
LEMMA ListsMoves ==
  ASSUME TypeOK, RequestInv, NEW x \in Requests, NEW todo \in SUBSET Roles,
         NEW listed \in SUBSET Links, Lists(x, todo, listed),
         req[x].pc \in {"read", "roles"}
  PROVE  Listing(x, todo, listed)
<1> USE DEF Listing
<1>1. Sound(req[x]) /\ req \in [Requests -> Request]
  BY DEF RequestInv, TypeOK
<1>2. CASE Reports(x, todo, listed)
  BY <1>2, ReportsMoves
<1>3. CASE Fails(x)
  BY <1>1, <1>3, FailsMoves DEF Active, SameLists, Sound, Reading
<1>4. CASE req' = [req EXCEPT ![x] = [@ EXCEPT !.pc = "ended", !.status = 200, !.cut = TRUE]]
  <2> DEFINE r == [req[x] EXCEPT !.pc = "ended", !.status = 200, !.cut = TRUE]
  <2>1. r \in Request
    BY <1>1, RequestEdits DEF Sound
  <2>2. /\ r.pc = "ended" /\ r.in = req[x].in /\ r.after = req[x].after
        /\ r.todo = req[x].todo /\ r.listed = req[x].listed
    BY <1>1 DEF Sound, Request
  <2>3. r.status = 200 /\ r.cut = TRUE
    BY <1>1 DEF Sound, Request
  <2>4. req' = [req EXCEPT ![x] = r]
    BY <1>4
  <2> HIDE DEF r
  <2>5. Sound(r)
    BY <1>1, <2>1, <2>2, <2>3 DEF Sound, Active
  <2>6. req'[x] = r
    BY <1>1, <2>4
  <2>7. Moves(x)
    BY <2>1, <2>2, <2>4, <2>5 DEF Moves, Move, Active
  <2> QED
    BY <1>1, <2>2, <2>3, <2>6, <2>7 DEF Reading, Sound
<1> QED
  BY <1>2, <1>3, <1>4 DEF Lists
-----------------------------------------------------------------------------
(* What the actions do, besides moving a request. *)

(* Rows of users, roles and permissions only come; one link is edited. *)
TableEffect(x) ==
    LET link == req[x].in.link IN
    /\ things \subseteq things' /\ things' \subseteq Things
    /\ \/ links' = links
       \/ /\ Edits(x) /\ req[x].pc \in Active
          /\ \/ links' = links \cup {link} /\ Ends(link) \subseteq things
             \/ links' = links \ {link}

(* What an answer tells is so. *)
AnswerEffect(x) ==
    LET link == req[x].in.link IN
    /\ req'[x].status = 201 => NameOf(x) \notin things /\ NameOf(x) \in things'
    /\ req'[x].status = 409 => NameOf(x) \in things
    /\ Edits(x) /\ req'[x].status = 200 =>
          Ends(link) \subseteq things /\ (link \in links' <=> Op(x, "assign"))

Reads(x) ==
    LET holder == req[x].in.holder
        todo == req'[x].todo
        listed == req'[x].listed
    IN
    \/ holder = None /\ todo = things \cap Roles /\ listed = {}
    \/ holder \in things \cap Roles /\ todo = {holder} /\ listed = {}
    \/ /\ holder \in Users
       /\ todo = {l[2] : l \in LinksOf(holder)} /\ listed = LinksOf(holder)
    \/ /\ req[x].pc = "permissions"
       /\ \E r \in req[x].todo :
             todo = req[x].todo \ {r} /\ listed = req[x].listed \cup LinksOf(r)

(* Lists are read, or stay. *)
ListEffect(x) ==
    \/ Op(x, "report") /\ req[x].pc \in Active /\ Reads(x)
    \/ /\ ~Reading(x)'
       /\ \/ req'[x].todo = req[x].todo /\ req'[x].listed = req[x].listed
          \/ req'[x].todo = {} /\ req'[x].listed = {}

Effect(x) == TableEffect(x) /\ AnswerEffect(x) /\ ListEffect(x)

(* A request begins. *)
LEMMA BeginsMoves ==
  ASSUME TypeOK, RequestInv, NEW x \in Requests, NEW in \in Inputs,
         NEW pc \in {"ended", "look", "holder", "remove", "read"}, NEW status \in {0, 400},
         req[x].pc = "idle", Begins(x, in, pc, status),
         pc # "ended" => status = 0,
         pc = "look" => in.op = "create" /\ Normal[in.text] \in Things,
         pc = "holder" => in.op = "assign",
         pc = "remove" => in.op = "remove",
         pc = "read" => in.op = "report"
  PROVE  /\ Moves(x) /\ req'[x].status = status /\ req'[x].pc = pc
         /\ req'[x].todo = {} /\ req'[x].listed = {}
<1> DEFINE r == [pc |-> pc, in |-> in, todo |-> {}, listed |-> {}, cut |-> FALSE,
                 status |-> status, after |-> {y \in Requests : req[y].pc = "ended"}]
<1>1. req \in [Requests -> Request]
  BY DEF TypeOK
<1>2. r \in Request
  BY DEF Request, Active, Statuses
<1>3. /\ r.pc = pc /\ r.in = in /\ r.after = {y \in Requests : req[y].pc = "ended"}
      /\ r.status = status /\ r.todo = {} /\ r.listed = {} /\ r.cut = FALSE
  OBVIOUS
<1>4. req' = [req EXCEPT ![x] = r]
  BY DEF Begins
<1> HIDE DEF r
<1>5. Sound(r)
  BY <1>2, <1>3 DEF Sound, Active
<1>6. req'[x] = r
  BY <1>1, <1>4
<1>7. Moves(x)
  BY <1>2, <1>3, <1>4, <1>5 DEF Moves, Move
<1> QED
  BY <1>3, <1>6, <1>7

(* The first step of a request. *)
LEMMA BeginMoves ==
  ASSUME IInv, NEW x \in Requests, Begin(x)
  PROVE  Moves(x) /\ Effect(x)
<1>1. TypeOK /\ RequestInv
  BY DEF IInv
<1>2. PICK in \in Inputs :
          \/ in.op = "create" /\ Normal[in.text] = Invalid /\ Begins(x, in, "ended", 400)
          \/ in.op = "create" /\ Normal[in.text] # Invalid /\ Begins(x, in, "look", 0)
          \/ in.op = "assign" /\ Begins(x, in, "holder", 0)
          \/ in.op = "remove" /\ Begins(x, in, "remove", 0)
          \/ in.op = "report" /\ Begins(x, in, "read", 0)
  BY DEF Begin
<1>3. /\ Moves(x) /\ req'[x].todo = {} /\ req'[x].listed = {}
      /\ req'[x].status \in {0, 400} /\ req'[x].pc # "permissions"
  BY <1>1, <1>2, BeginsMoves, InputTypes DEF Begin
<1>4. ~Edits(x)
  BY <1>1 DEF Begin, Edits, Op, RequestInv, Sound
<1>5. TableEffect(x)
  BY <1>1 DEF Begin, TableEffect, TypeOK
<1>6. AnswerEffect(x) /\ ListEffect(x)
  BY <1>3, <1>4 DEF AnswerEffect, ListEffect, Reading
<1> QED
  BY <1>3, <1>5, <1>6 DEF Effect

(* An action that leaves the tables alone, or inserts a name. *)
LEMMA NoTableEffect ==
  ASSUME TypeOK, NEW x \in Requests, UNCHANGED <<things, links>>
  PROVE  TableEffect(x)
  BY DEF TypeOK, TableEffect

(* The steps of a creation. *)
LEMMA LookMoves ==
  ASSUME IInv, NEW x \in Requests, Look(x)
  PROVE  Moves(x) /\ Effect(x)
<1>1. TypeOK /\ RequestInv /\ Sound(req[x]) /\ req[x].pc = "look"
  BY DEF IInv, RequestInv, Look
<1>2. ~Edits(x)
  BY <1>1 DEF Sound, Edits, Op
<1>3. TableEffect(x)
  BY <1>1, NoTableEffect DEF Look
<1>4. CASE NameOf(x) \in things /\ Answers(x, 409)
  BY <1>1, <1>2, <1>3, <1>4, AnswersMoves
     DEF Active, Statuses, Effect, AnswerEffect, ListEffect, SameLists, Reading
<1>5. CASE Goes(x, "insert")
  BY <1>1, <1>2, <1>3, <1>5, GoesMoves
     DEF Active, Effect, AnswerEffect, ListEffect, SameLists, Reading
<1>6. CASE Fails(x)
  BY <1>1, <1>2, <1>3, <1>6, FailsMoves
     DEF Active, Effect, AnswerEffect, ListEffect, SameLists, Reading
<1> QED
  BY <1>4, <1>5, <1>6 DEF Look

(* The INSERT of a creation. *)
LEMMA InsertMoves ==
  ASSUME IInv, NEW x \in Requests, Insert(x)
  PROVE  Moves(x) /\ Effect(x)
<1>1. TypeOK /\ RequestInv /\ Sound(req[x]) /\ req[x].pc = "insert"
  BY DEF IInv, RequestInv, Insert
<1>2. ~Edits(x)
  BY <1>1 DEF Sound, Edits, Op
<1>3. NameOf(x) \in Things
  BY <1>1 DEF Sound, NameOf
<1>4. TableEffect(x)
  BY <1>1, <1>3 DEF Insert, TableEffect, TypeOK
<1>5. CASE NameOf(x) \notin things /\ things' = things \cup {NameOf(x)} /\ Answers(x, 201)
  <2>1. /\ Moves(x) /\ SameLists(x) /\ req'[x].pc = "ended" /\ req'[x].status = 201
    BY <1>1, <1>5, AnswersMoves DEF Active, Statuses
  <2>2. AnswerEffect(x) /\ ListEffect(x)
    BY <1>2, <1>5, <2>1 DEF AnswerEffect, ListEffect, SameLists, Reading
  <2> QED
    BY <1>4, <2>1, <2>2 DEF Effect
<1>6. CASE Fails(x)
  BY <1>1, <1>2, <1>4, <1>6, FailsMoves
     DEF Active, Effect, AnswerEffect, ListEffect, SameLists, Reading
<1> QED
  BY <1>5, <1>6 DEF Insert

(* The look-ups of an assignment. *)
LEMMA FindMoves ==
  ASSUME IInv, NEW x \in Requests, FindHolder(x) \/ FindItem(x)
  PROVE  Moves(x) /\ Effect(x)
<1>1. TypeOK /\ RequestInv /\ Sound(req[x]) /\ req[x].pc \in {"holder", "item"}
  BY DEF IInv, RequestInv, FindHolder, FindItem
<1>2. TableEffect(x)
  BY <1>1, NoTableEffect DEF FindHolder, FindItem
<1>3. CASE Answers(x, 404)
  BY <1>1, <1>2, <1>3, AnswersMoves
     DEF Active, Statuses, Effect, AnswerEffect, ListEffect, SameLists, Reading
<1>4. CASE Goes(x, "item") \/ Goes(x, "assign")
  BY <1>1, <1>2, <1>4, GoesMoves
     DEF Active, Effect, AnswerEffect, ListEffect, SameLists, Reading
<1>5. CASE Fails(x)
  BY <1>1, <1>2, <1>5, FailsMoves
     DEF Active, Effect, AnswerEffect, ListEffect, SameLists, Reading
<1> QED
  BY <1>3, <1>4, <1>5 DEF FindHolder, FindItem

(* The INSERT of an assignment. *)
LEMMA AssignMoves ==
  ASSUME IInv, NEW x \in Requests, Assign(x)
  PROVE  Moves(x) /\ Effect(x)
<1> DEFINE link == req[x].in.link
<1>1. TypeOK /\ RequestInv /\ Sound(req[x]) /\ req[x].pc = "assign"
  BY DEF IInv, RequestInv, Assign
<1>2. Op(x, "assign") /\ Edits(x)
  BY <1>1, InputTypes DEF Sound, Edits, Op
<1>3. TableEffect(x)
  BY <1>1, <1>2 DEF Assign, TableEffect, TypeOK, Active
<1>4. CASE Ends(link) \subseteq things /\ links' = links \cup {link} /\ Answers(x, 200)
  <2>1. Moves(x) /\ SameLists(x) /\ req'[x].pc = "ended" /\ req'[x].status = 200
    BY <1>1, <1>4, AnswersMoves DEF Active, Statuses, Sound
  <2>2. ~Reading(x)'
    <3>1. req'[x].in = req[x].in
      BY <1>1, <2>1 DEF Moves, Move, TypeOK
    <3> QED
      BY <1>2, <3>1 DEF Reading, Op
  <2>3. AnswerEffect(x) /\ ListEffect(x)
    BY <1>2, <1>4, <2>1, <2>2 DEF AnswerEffect, ListEffect, SameLists
  <2> QED
    BY <1>3, <2>1, <2>3 DEF Effect
<1>5. CASE Fails(x)
  BY <1>1, <1>3, <1>5, FailsMoves
     DEF Active, Effect, AnswerEffect, ListEffect, SameLists, Reading
<1> QED
  BY <1>4, <1>5 DEF Assign

(* The DELETE of a removal. *)
LEMMA RemoveMoves ==
  ASSUME IInv, NEW x \in Requests, Remove(x)
  PROVE  Moves(x) /\ Effect(x)
<1> DEFINE link == req[x].in.link
<1>1. TypeOK /\ RequestInv /\ Sound(req[x]) /\ req[x].pc = "remove"
  BY DEF IInv, RequestInv, Remove
<1>2. Op(x, "remove") /\ Edits(x) /\ ~Op(x, "assign")
  BY <1>1, InputTypes DEF Sound, Edits, Op
<1>3. TableEffect(x)
  BY <1>1, <1>2 DEF Remove, TableEffect, TypeOK, Active
<1>4. CASE link \in links /\ links' = links \ {link} /\ Answers(x, 200)
  <2>1. Moves(x) /\ SameLists(x) /\ req'[x].pc = "ended" /\ req'[x].status = 200
    BY <1>1, <1>4, AnswersMoves DEF Active, Statuses, Sound
  <2>2. ~Reading(x)'
    <3>1. req'[x].in = req[x].in
      BY <1>1, <2>1 DEF Moves, Move, TypeOK
    <3> QED
      BY <1>2, <3>1 DEF Reading, Op
  <2>3. Ends(link) \subseteq things
    BY <1>4 DEF IInv, LinkInv
  <2>4. AnswerEffect(x) /\ ListEffect(x)
    BY <1>2, <1>4, <2>1, <2>2, <2>3 DEF AnswerEffect, ListEffect, SameLists
  <2> QED
    BY <1>3, <2>1, <2>4 DEF Effect
<1>5. CASE Fails(x)
  BY <1>1, <1>3, <1>5, FailsMoves
     DEF Active, Effect, AnswerEffect, ListEffect, SameLists, Reading
<1> QED
  BY <1>4, <1>5 DEF Remove

(* The links of a holder, and what they are to. *)
LEMMA LinksOfType ==
  ASSUME TypeOK, NEW holder
  PROVE  /\ LinksOf(holder) \in SUBSET Links
         /\ holder \in Users => {l[2] : l \in LinksOf(holder)} \in SUBSET Roles
  BY ConstantsAssumption DEF TypeOK, LinksOf, Links

(* The steps of a report. *)
LEMMA ReadMoves ==
  ASSUME IInv, NEW x \in Requests, ReadHolder(x) \/ ReadRoles(x) \/ ReadPermissions(x)
  PROVE  Moves(x) /\ Effect(x)
<1> DEFINE holder == req[x].in.holder
<1>1. /\ TypeOK /\ RequestInv /\ Sound(req[x])
      /\ req[x].pc \in {"read", "roles", "permissions"}
  BY DEF IInv, RequestInv, ReadHolder, ReadRoles, ReadPermissions
<1>2. Op(x, "report") /\ ~Edits(x) /\ req[x].pc \in Active
  BY <1>1, InputTypes DEF Sound, Edits, Op, Active
<1>3. TableEffect(x)
  BY <1>1, NoTableEffect DEF ReadHolder, ReadRoles, ReadPermissions
<1>4. CASE Answers(x, 404)
  BY <1>1, <1>2, <1>3, <1>4, AnswersMoves
     DEF Statuses, Effect, AnswerEffect, ListEffect, SameLists, Reading
<1>5. CASE Fails(x)
  BY <1>1, <1>2, <1>3, <1>5, FailsMoves
     DEF Effect, AnswerEffect, ListEffect, SameLists, Reading
<1>6. CASE req[x].pc = "read" /\ holder \in Users /\ Goes(x, "roles")
  BY <1>1, <1>2, <1>3, <1>6, GoesMoves
     DEF Active, Effect, AnswerEffect, ListEffect, SameLists, Reading
<1>7. CASE req[x].pc = "read" /\ holder = None /\ Lists(x, things \cap Roles, {})
  <2> DEFINE roles == things \cap Roles
             found == {}
  <2>1. roles \in SUBSET Roles /\ found \in SUBSET Links /\ Lists(x, roles, found)
    BY <1>7
  <2>2. roles = things \cap Roles /\ found = {}
    OBVIOUS
  <2> HIDE DEF roles, found
  <2>3. Listing(x, roles, found)
    <3>1. req[x].pc \in {"read", "roles"}
      BY <1>7
    <3> HIDE DEF holder
    <3> QED
      BY <1>1, <2>1, <3>1, ListsMoves
  <2>4. ListEffect(x)
    BY <1>2, <1>7, <2>2, <2>3 DEF ListEffect, Reads, Listing
  <2> QED
    BY <1>2, <1>3, <2>3, <2>4 DEF Effect, AnswerEffect, Listing
<1>8. CASE req[x].pc = "read" /\ holder \in things \cap Roles /\ Reports(x, {holder}, {})
  <2>1. {holder} \in SUBSET Roles /\ {} \in SUBSET Links
    BY <1>8
  <2> QED
    BY <1>1, <1>2, <1>3, <1>8, <2>1, ReportsMoves DEF Effect, AnswerEffect, ListEffect, Reads
<1>9. CASE ReadRoles(x)
  <2>1. req[x].pc = "roles" /\ holder \in Users
    BY <1>1, <1>9 DEF ReadRoles, Sound
  <2> DEFINE found == LinksOf(holder)
             roles == {l[2] : l \in found}
  <2>2. found \in SUBSET Links /\ roles \in SUBSET Roles
    BY <1>1, <2>1, LinksOfType
  <2>3. Lists(x, roles, found)
    BY <1>9 DEF ReadRoles
  <2>4. found = LinksOf(holder) /\ roles = {l[2] : l \in LinksOf(holder)}
    OBVIOUS
  <2> HIDE DEF found, roles
  <2>5. Listing(x, roles, found)
    <3>1. req[x].pc \in {"read", "roles"}
      BY <2>1
    <3> HIDE DEF holder
    <3> QED
      BY <1>1, <2>2, <2>3, <3>1, ListsMoves
  <2>6. ListEffect(x)
    BY <1>2, <2>1, <2>4, <2>5 DEF ListEffect, Reads, Listing
  <2> QED
    BY <1>2, <1>3, <2>5, <2>6 DEF Effect, AnswerEffect, Listing
<1>10. CASE req[x].pc = "permissions" /\ \E r \in req[x].todo :
              Reports(x, req[x].todo \ {r}, req[x].listed \cup LinksOf(r))
  <2>1. PICK r \in req[x].todo : Reports(x, req[x].todo \ {r}, req[x].listed \cup LinksOf(r))
    BY <1>10
  <2>2. /\ req[x].todo \ {r} \in SUBSET Roles
        /\ req[x].listed \cup LinksOf(r) \in SUBSET Links
    BY <1>1, LinksOfType DEF Sound, Request
  <2>3. /\ Moves(x) /\ req'[x].todo = req[x].todo \ {r}
        /\ req'[x].listed = req[x].listed \cup LinksOf(r)
        /\ req'[x].status \in {0, 200}
    BY <1>1, <2>1, <2>2, ReportsMoves
  <2>4. ListEffect(x)
    BY <1>2, <1>10, <2>3 DEF ListEffect, Reads
  <2> QED
    BY <1>2, <1>3, <2>3, <2>4 DEF Effect, AnswerEffect, Listing
<1>11. ReadHolder(x) => Answers(x, 404) \/ Fails(x)
          \/ (req[x].pc = "read" /\ holder \in Users /\ Goes(x, "roles"))
          \/ (req[x].pc = "read" /\ holder = None /\ Lists(x, things \cap Roles, {}))
          \/ (req[x].pc = "read" /\ holder \in things \cap Roles /\ Reports(x, {holder}, {}))
  BY DEF ReadHolder
<1>12. ReadPermissions(x) => Fails(x)
          \/ (req[x].pc = "permissions" /\ \E r \in req[x].todo :
                 Reports(x, req[x].todo \ {r}, req[x].listed \cup LinksOf(r)))
  BY DEF ReadPermissions
<1> QED
  BY <1>4, <1>5, <1>6, <1>7, <1>8, <1>9, <1>10, <1>11, <1>12

(* Each step of a request moves it. *)
LEMMA StepMoves ==
  ASSUME IInv, NEW x \in Requests, Begin(x) \/ Step(x)
  PROVE  Moves(x) /\ Effect(x)
  BY BeginMoves, LookMoves, InsertMoves, FindMoves, AssignMoves, RemoveMoves, ReadMoves DEF Step
-----------------------------------------------------------------------------
(* What a step leaves of the requests. *)
Persists ==
    \A y \in Requests :
        /\ req[y].pc = "ended" => req'[y] = req[y]
        /\ req[y].pc # "idle" =>
              req'[y].pc # "idle" /\ req'[y].in = req[y].in /\ req'[y].after = req[y].after
        /\ req'[y].pc = "idle" => req'[y] = req[y]
        /\ req[y].pc = "idle" /\ req'[y].pc # "idle" =>
              /\ req'[y].status \in {0, 400} /\ req'[y].pc # "permissions"
              /\ req'[y].after = {z \in Requests : req[z].pc = "ended"}

RequestsKept ==
    /\ req' \in [Requests -> Request]
    /\ RequestInv'
    /\ Persists

(* A move keeps the facts of all requests, and leaves the other ones alone. *)
LEMMA MovesKeep ==
  ASSUME IInv, NEW x \in Requests, Moves(x)
  PROVE  /\ RequestsKept /\ req[x].pc # "ended"
         /\ \A y \in Requests \ {x} : req'[y] = req[y]
<1>1. PICK r \in Request : Move(x, r)
  BY DEF Moves
<1>2. req \in [Requests -> Request]
  BY DEF IInv, TypeOK
<1>3. req'[x] = r /\ \A y \in Requests \ {x} : req'[y] = req[y]
  BY <1>1, <1>2 DEF Move
<1>4. req' \in [Requests -> Request]
  BY <1>1, <1>2 DEF Move
<1>5. \A y \in Requests : Sound(req'[y])
  BY <1>1, <1>3 DEF Move, IInv, RequestInv
<1>6. RequestInv'
  BY <1>5 DEF RequestInv, Sound
<1>7. Persists
  BY <1>1, <1>3 DEF Persists, Move
<1> QED
  BY <1>1, <1>3, <1>4, <1>6, <1>7 DEF RequestsKept, Move

(* A crash ends the requests that are not over without an answer. *)
LEMMA CrashKeeps ==
  ASSUME IInv, Crash
  PROVE  /\ RequestsKept
         /\ \A y \in Requests :
               /\ SameLists(y) /\ req'[y].status = req[y].status
               /\ req'[y] = req[y] \/ req'[y].pc = "ended"
<1>1. req \in [Requests -> Request]
  BY DEF IInv, TypeOK
<1> DEFINE Cut(y) == [req[y] EXCEPT !.pc = "ended"]
<1>2. req' = [y \in Requests |-> IF req[y].pc \in Active THEN Cut(y) ELSE req[y]]
  BY DEF Crash
<1>3. ASSUME NEW y \in Requests
      PROVE  /\ Cut(y) \in Request
             /\ Cut(y).pc = "ended" /\ Cut(y).in = req[y].in /\ Cut(y).after = req[y].after
             /\ Cut(y).status = req[y].status /\ Cut(y).todo = req[y].todo
             /\ Cut(y).listed = req[y].listed /\ Cut(y).cut = req[y].cut
  <2>1. req[y] \in Request
    BY <1>1
  <2>2. Cut(y) \in Request
    BY <2>1, RequestEdits
  <2> QED
    BY <2>1, <2>2 DEF Request
<1> HIDE DEF Cut
<1>4. \A y \in Requests : req'[y] = IF req[y].pc \in Active THEN Cut(y) ELSE req[y]
  BY <1>2
<1>5. req' \in [Requests -> Request]
  BY <1>1, <1>2, <1>3
<1>6. \A y \in Requests : Sound(req'[y])
  BY <1>3, <1>4 DEF IInv, RequestInv, Sound, Active
<1>7. RequestInv'
  BY <1>6 DEF RequestInv, Sound
<1>8. Persists
  BY <1>3, <1>4 DEF Persists, Active
<1> QED
  BY <1>3, <1>4, <1>5, <1>7, <1>8 DEF RequestsKept, SameLists

(* A step is a stutter, a crash, or a step of one request. *)
LEMMA NextCases ==
  ASSUME IInv, [Next]_vars
  PROVE  \/ UNCHANGED vars
         \/ Crash /\ things' = things /\ links' = links
         \/ \E x \in Requests : Moves(x) /\ Effect(x)
  BY StepMoves DEF Next, Crash

(* A step changes one request that is not over, and only that one. *)
LEMMA NextKeeps ==
  ASSUME IInv, [Next]_vars
  PROVE  /\ RequestsKept
         /\ things \subseteq things' /\ things' \subseteq Things
<1>1. CASE UNCHANGED vars
  <2>1. RequestInv'
    BY <1>1 DEF vars, IInv, RequestInv, Sound
  <2> QED
    BY <1>1, <2>1 DEF vars, IInv, TypeOK, RequestsKept, Persists
<1>2. CASE Crash /\ things' = things
  BY <1>2, CrashKeeps DEF IInv, TypeOK
<1>3. CASE \E x \in Requests : Moves(x) /\ Effect(x)
  BY <1>3, MovesKeep DEF Effect, TableEffect
<1> QED
  BY <1>1, <1>2, <1>3, NextCases
-----------------------------------------------------------------------------
(* Each part of the invariant is kept. *)

(* The types are. *)
LEMMA TypeStep ==
  ASSUME IInv, [Next]_vars PROVE TypeOK'
<1>1. req' \in [Requests -> Request] /\ things' \subseteq Things
  BY NextKeeps DEF RequestsKept
<1>2. links' \subseteq Links
  <2>1. CASE links' = links
    BY <2>1 DEF IInv, TypeOK
  <2>2. CASE \E x \in Requests : Moves(x) /\ Effect(x)
    <3>1. PICK x \in Requests : TableEffect(x)
      BY <2>2 DEF Effect
    <3>2. CASE Edits(x) /\ req[x].pc \in Active
      <4>1. req[x].in.link \in Links
        BY <3>2, InputTypes DEF IInv, RequestInv, Sound, Edits, Op, Active
      <4> QED
        BY <3>1, <4>1 DEF TableEffect, IInv, TypeOK
    <3> QED
      BY <3>1, <3>2 DEF TableEffect, IInv, TypeOK
  <2> QED
    BY <2>1, <2>2, NextCases DEF vars
<1> QED
  BY <1>1, <1>2 DEF TypeOK

(* What a request began after is over. *)
LEMMA AfterStep ==
  ASSUME IInv, [Next]_vars PROVE AfterInv'
  BY NextKeeps DEF IInv, AfterInv, RequestsKept, Persists, RequestInv, Sound, Request

(* Links reference rows, for these are never deleted. *)
LEMMA LinkStep ==
  ASSUME IInv, [Next]_vars PROVE LinkInv'
<1>1. things \subseteq things'
  BY NextKeeps
<1>2. CASE links' = links
  BY <1>1, <1>2 DEF IInv, LinkInv, Ends
<1>3. CASE \E x \in Requests : TableEffect(x)
  BY <1>1, <1>3 DEF IInv, LinkInv, Ends, TableEffect
<1> QED
  BY <1>2, <1>3, NextCases DEF vars, Effect

(* Names that were found or inserted are there. *)
LEMMA NameStep ==
  ASSUME IInv, [Next]_vars PROVE NameInv'
<1> SUFFICES ASSUME NEW y \in Requests, Op(y, "create")', req'[y].status \in {201, 409}
             PROVE  NameOf(y)' \in things'
  BY DEF NameInv
<1>1. things \subseteq things' /\ Persists /\ RequestInv'
  BY NextKeeps DEF RequestsKept
<1>2. CASE req'[y] = req[y]
  BY <1>1, <1>2 DEF IInv, NameInv, Op, NameOf
<1>3. CASE req'[y] # req[y]
  <2>1. req[y].status = 0
    BY <1>1, <1>3 DEF IInv, RequestInv, Sound, Persists
  <2>2. PICK x \in Requests : Moves(x) /\ Effect(x)
    BY <1>3, <2>1, NextCases, CrashKeeps DEF vars
  <2>3. x = y
    BY <1>3, <2>2, MovesKeep
  <2>4. NameOf(y) \in things'
    BY <1>1, <2>2, <2>3 DEF Effect, AnswerEffect
  <2>5. req[y].pc # "idle"
    BY <1>1 DEF Persists, RequestInv, Sound
  <2> QED
    BY <1>1, <2>4, <2>5 DEF Persists, NameOf
<1> QED
  BY <1>2, <1>3

(* Facts of a request that is over, before and after a step. *)
LEMMA OverKept ==
  ASSUME IInv, [Next]_vars, NEW y \in Requests, req[y].pc = "ended"
  PROVE  /\ req'[y] = req[y]
         /\ Edits(y)' <=> Edits(y)
         /\ Edited(y)' <=> Edited(y)
         /\ Sole(y)' => Sole(y)
         /\ \A x \in Requests : LastEdit(y, x)' => LastEdit(y, x)
         /\ Op(y, "assign")' <=> Op(y, "assign")
<1>1. Persists /\ RequestInv
  BY NextKeeps DEF RequestsKept, IInv
<1>2. req'[y] = req[y]
  BY <1>1 DEF Persists
<1>3. ASSUME NEW z \in Requests, Edits(z)
      PROVE  Edits(z)' /\ req'[z].in = req[z].in /\ req'[z].after = req[z].after
  <2>1. req[z].pc # "idle"
    BY <1>1, <1>3 DEF Edits, Op, RequestInv, Sound
  <2> QED
    BY <1>1, <1>3, <2>1 DEF Persists, Edits, Op
<1>4. Sole(y)' => Sole(y)
  BY <1>2, <1>3 DEF Sole
<1>5. \A x \in Requests : LastEdit(y, x)' => LastEdit(y, x)
  BY <1>2, <1>3 DEF LastEdit
<1> QED
  BY <1>2, <1>4, <1>5 DEF Edits, Edited, Op

(* An edit that is under way began after no other edit that is. *)
LEMMA EditStep ==
  ASSUME IInv, [Next]_vars PROVE EditInv'
<1> SUFFICES ASSUME NEW y \in Requests, Edited(y)'
             PROVE  /\ Ends(req'[y].in.link) \subseteq things'
                    /\ Sole(y)' => (req'[y].in.link \in links' <=> Op(y, "assign")')
  BY DEF EditInv, Ends
<1>1. /\ things \subseteq things' /\ Persists /\ RequestInv' /\ RequestInv
      /\ AfterInv /\ req' \in [Requests -> Request]
  BY NextKeeps DEF RequestsKept, IInv
<1>2. CASE req[y].pc = "ended"
  <2> DEFINE link == req[y].in.link
  <2>1. /\ Edited(y) /\ req'[y] = req[y] /\ (Sole(y)' => Sole(y))
        /\ Op(y, "assign")' <=> Op(y, "assign")
    BY <1>2, OverKept
  <2>2. Ends(link) \subseteq things /\ (Sole(y) => (link \in links <=> Op(y, "assign")))
    BY <2>1 DEF IInv, EditInv
  <2>3. ASSUME Sole(y) PROVE link \in links' <=> link \in links
    <3>1. CASE links' = links
      BY <3>1
    <3>2. CASE \E x \in Requests : Moves(x) /\ Effect(x)
      <4>1. PICK x \in Requests : Moves(x) /\ TableEffect(x)
        BY <3>2 DEF Effect
      <4>2. x # y /\ x \notin req[y].after
        BY <1>1, <1>2, <4>1, MovesKeep DEF AfterInv
      <4>3. Edits(x) => req[x].in.link # link
        BY <2>3, <4>2 DEF Sole
      <4> QED
        BY <4>1, <4>3 DEF TableEffect
    <3> QED
      BY <3>1, <3>2, NextCases DEF vars
  <2> QED
    BY <1>1, <2>1, <2>2, <2>3
<1>3. CASE req[y].pc # "ended"
  <2>1. req[y].status = 0 /\ req'[y].status = 200
    BY <1>1, <1>3 DEF RequestInv, Sound, Edited
  <2>2. PICK x \in Requests : Moves(x) /\ Effect(x)
    BY <2>1, NextCases, CrashKeeps DEF vars
  <2>3. x = y
    BY <2>1, <2>2, MovesKeep
  <2>4. req[y].pc # "idle" /\ req'[y].in = req[y].in
    BY <1>1, <2>1 DEF Persists, RequestInv, Sound
  <2>5. Edits(y)
    BY <2>4 DEF Edited, Edits, Op
  <2>6. AnswerEffect(y)
    BY <2>2, <2>3 DEF Effect
  <2>7. /\ Ends(req[y].in.link) \subseteq things
        /\ req[y].in.link \in links' <=> Op(y, "assign")
    BY <2>1, <2>5, <2>6 DEF AnswerEffect
  <2> QED
    BY <1>1, <2>4, <2>7 DEF Op
<1> QED
  BY <1>2, <1>3

(* The links listed are of roles no longer to be read. *)
LEMMA TodoStep ==
  ASSUME IInv, [Next]_vars PROVE TodoInv'
<1> SUFFICES ASSUME NEW y \in Requests, NEW l \in req'[y].listed
             PROVE  l[1] \notin req'[y].todo
  BY DEF TodoInv
<1>1. TodoInv /\ TypeOK
  BY DEF IInv
<1>2. CASE SameLists(y)
  BY <1>1, <1>2 DEF TodoInv, SameLists
<1>3. CASE ~SameLists(y)
  <2>1. req'[y] # req[y]
    BY <1>3 DEF SameLists
  <2>2. PICK x \in Requests : Moves(x) /\ Effect(x)
    BY <1>3, <2>1, NextCases, CrashKeeps DEF vars
  <2>3. x = y
    BY <2>1, <2>2, MovesKeep
  <2>4. ListEffect(y)
    BY <2>2, <2>3 DEF Effect
  <2> DEFINE holder == req[y].in.holder
  <2>5. CASE \/ req'[y].todo = req[y].todo /\ req'[y].listed = req[y].listed
             \/ req'[y].listed = {}
    BY <1>1, <2>5 DEF TodoInv
  <2>6. CASE /\ holder \in Users /\ req'[y].todo = {m[2] : m \in LinksOf(holder)}
             /\ req'[y].listed = LinksOf(holder)
    <3>1. req'[y].todo \subseteq Roles
      BY <1>1, <2>6, LinksOfType
    <3>2. l[1] = holder
      BY <2>6 DEF LinksOf
    <3> QED
      BY <2>6, <3>1, <3>2, ConstantsAssumption
  <2>7. CASE \E r \in req[y].todo : /\ req'[y].todo = req[y].todo \ {r}
                                   /\ req'[y].listed = req[y].listed \cup LinksOf(r)
    BY <1>1, <2>7 DEF TodoInv, LinksOf
  <2> QED
    BY <2>4, <2>5, <2>6, <2>7 DEF ListEffect, Reads
<1> QED
  BY <1>2, <1>3

(***************************************************************************)
(* What a report reads of a link was settled when it began, and still is:  *)
(* whoever edits the link now began after no edit that is over.            *)
(***************************************************************************)
LEMMA StillSettled ==
  ASSUME IInv, NEW x \in Requests, NEW y \in Requests,
         req[x].pc \in Active, Edited(y), LastEdit(y, x)
  PROVE  /\ Ends(req[y].in.link) \subseteq things
         /\ req[y].in.link \in links <=> Op(y, "assign")
<1>1. \A z \in Requests : x \notin req[z].after
  BY DEF IInv, AfterInv, Active
<1>2. Sole(y)
  BY <1>1 DEF Sole, LastEdit
<1> QED
  BY <1>2 DEF IInv, EditInv

(* A report keeps what it has, and what it reads is settled. *)
LEMMA ReadStep ==
  ASSUME IInv, [Next]_vars, NEW x \in Requests, NEW y \in req[x].after,
         Op(x, "report"), req[x].pc \in Active, Reads(x), Reading(x)',
         req'[x].in = req[x].in, Edited(y), Concerns(x, req[y].in.link)', LastEdit(y, x),
         req'[y] = req[y]
  PROVE  \/ req[y].in.link[1] \in req'[x].todo
         \/ req[y].in.link \in req'[x].listed <=> Op(y, "assign")
<1> DEFINE l == req[y].in.link
           holder == req[x].in.holder
<1>1. y \in Requests /\ TypeOK /\ TodoInv /\ ReportInv
  BY DEF IInv, TypeOK, Request
<1>2. l \in Links /\ l[1] \in Users \cup Roles
  <2>1. req[y].in \in Inputs /\ req[y].in.op \in {"assign", "remove"}
    BY <1>1 DEF IInv, RequestInv, Sound, Edited, Edits, Op
  <2> QED
    BY <2>1, InputTypes DEF Links
<1>3. Ends(l) \subseteq things /\ (l \in links <=> Op(y, "assign"))
  BY <1>1, StillSettled
<1>4. \/ l[1] = holder
      \/ holder = None /\ l[1] \in Roles
      \/ <<holder, l[1]>> \in req'[x].listed
  BY DEF Concerns
<1>5. CASE holder = None /\ req'[x].todo = things \cap Roles /\ req'[x].listed = {}
  <2>1. l[1] \in Roles
    BY <1>2, <1>4, <1>5, ConstantsAssumption DEF Things
  <2> QED
    BY <1>3, <1>5, <2>1 DEF Ends
<1>6. CASE holder \in things \cap Roles /\ req'[x].todo = {holder} /\ req'[x].listed = {}
  BY <1>1, <1>4, <1>6, ConstantsAssumption DEF TypeOK
<1>7. CASE /\ holder \in Users /\ req'[x].todo = {m[2] : m \in LinksOf(holder)}
           /\ req'[x].listed = LinksOf(holder)
  <2>1. CASE l[1] = holder
    <3>1. l \in LinksOf(holder) <=> l \in links
      BY <2>1 DEF LinksOf
    <3> QED
      BY <1>3, <1>7, <3>1
  <2>2. CASE <<holder, l[1]>> \in LinksOf(holder)
    <3>1. <<holder, l[1]>>[2] \in {m[2] : m \in LinksOf(holder)}
      BY <2>2
    <3> QED
      BY <1>7, <3>1
  <2> QED
    BY <1>4, <1>7, <2>1, <2>2, ConstantsAssumption DEF Things
<1>8. CASE /\ req[x].pc = "permissions"
           /\ \E r \in req[x].todo : /\ req'[x].todo = req[x].todo \ {r}
                                     /\ req'[x].listed = req[x].listed \cup LinksOf(r)
  <2>1. PICK r \in req[x].todo : /\ req'[x].todo = req[x].todo \ {r}
                                 /\ req'[x].listed = req[x].listed \cup LinksOf(r)
    BY <1>8
  <2>2. r \in Roles
    BY <1>1 DEF TypeOK, Request
  <2>3. <<holder, l[1]>> \notin LinksOf(r)
    <3> SUFFICES ASSUME <<holder, l[1]>> \in LinksOf(r) PROVE FALSE
      OBVIOUS
    <3>1. <<holder, l[1]>> \in Links /\ holder = r
      BY <1>1 DEF LinksOf, TypeOK
    <3>2. l[1] \in Permissions
      BY <2>2, <3>1, ConstantsAssumption DEF Links
    <3> QED
      BY <1>2, <3>2, ConstantsAssumption
  <2>4. Concerns(x, l)
    BY <1>4, <2>1, <2>3 DEF Concerns
  <2>5. Reading(x)
    BY <1>8 DEF Reading, IInv, RequestInv, Sound
  <2>6. l[1] \in req[x].todo \/ (l \in req[x].listed <=> Op(y, "assign"))
    BY <1>1, <2>4, <2>5 DEF ReportInv, Settled
  <2>7. CASE l[1] = r
    <3>1. l \notin req[x].listed
      BY <1>1, <2>7 DEF TodoInv
    <3>2. l \in LinksOf(r) <=> l \in links
      BY <2>7 DEF LinksOf
    <3> QED
      BY <1>3, <2>1, <3>1, <3>2
  <2>8. CASE l[1] # r
    <3>1. l \notin LinksOf(r)
      BY <2>8 DEF LinksOf
    <3> QED
      BY <2>1, <2>6, <2>8, <3>1
  <2> QED
    BY <2>7, <2>8
<1> QED
  BY <1>5, <1>6, <1>7, <1>8 DEF Reads

(* Reports that are under way or over stay right. *)
LEMMA ReportStep ==
  ASSUME IInv, [Next]_vars PROVE ReportInv'
<1> SUFFICES ASSUME NEW x \in Requests, Reading(x)', NEW y \in req'[x].after,
                    Edited(y)', Concerns(x, req[y].in.link)', LastEdit(y, x)'
             PROVE  \/ req'[y].in.link[1] \in req'[x].todo
                    \/ req'[y].in.link \in req'[x].listed <=> Op(y, "assign")'
  BY DEF ReportInv, Settled
<1>1. /\ Persists /\ RequestInv' /\ RequestInv /\ AfterInv /\ ReportInv
      /\ req \in [Requests -> Request]
  BY NextKeeps DEF RequestsKept, IInv, TypeOK
<1>2. req[x].pc # "idle"
  BY <1>1 DEF Reading, Persists, RequestInv, Sound, Op
<1>3. req'[x].in = req[x].in /\ req'[x].after = req[x].after
  BY <1>1, <1>2 DEF Persists
<1>4. y \in Requests /\ req[y].pc = "ended"
  BY <1>1, <1>3 DEF AfterInv, Request
<1>5. /\ req'[y] = req[y] /\ Edited(y) /\ LastEdit(y, x)
      /\ Op(y, "assign")' <=> Op(y, "assign")
  BY <1>4, OverKept
<1>6. CASE req'[x] = req[x]
  <2>1. Reading(x) /\ Concerns(x, req[y].in.link)
    BY <1>5, <1>6 DEF Reading, Op, Concerns
  <2> QED
    BY <1>1, <1>3, <1>5, <1>6, <2>1 DEF ReportInv, Settled
<1>7. CASE req'[x] # req[x]
  <2>1. req[x].pc \in Active
    BY <1>1, <1>2, <1>7 DEF Persists, Request
  <2>2. PICK z \in Requests : Moves(z) /\ Effect(z)
    <3>1. ~(/\ req'[x].status = req[x].status
            /\ req'[x] = req[x] \/ req'[x].pc = "ended")
      BY <1>1, <1>7, <2>1 DEF Reading, RequestInv, Sound, Active
    <3> QED
      BY <1>7, <3>1, NextCases, CrashKeeps DEF vars
  <2>3. z = x
    BY <1>7, <2>2, MovesKeep
  <2>4. Op(x, "report") /\ Reads(x)
    BY <2>2, <2>3 DEF Effect, ListEffect
  <2>5. Concerns(x, req[y].in.link)'
    OBVIOUS
  <2> QED
    BY <1>3, <1>5, <2>1, <2>4, <2>5, ReadStep
<1> QED
  BY <1>6, <1>7

(* A status that is new is the answer of a step. *)
LEMMA NewStatus ==
  ASSUME IInv, [Next]_vars, NEW x \in Requests,
         req'[x].status \in {201, 409}, req'[x] # req[x]
  PROVE  /\ AnswerEffect(x) /\ req[x].pc \in Active
         /\ \A y \in Requests \ {x} : req'[y] = req[y]
<1>1. Persists /\ RequestInv /\ RequestInv' /\ req \in [Requests -> Request]
  BY NextKeeps DEF RequestsKept, IInv, TypeOK
<1>2. req[x].status = 0 /\ req[x].pc \in Active
  BY <1>1 DEF Persists, RequestInv, Sound, Request
<1>3. PICK z \in Requests : Moves(z) /\ Effect(z)
  BY <1>2, NextCases, CrashKeeps DEF vars
<1>4. z = x
  BY <1>3, MovesKeep
<1> QED
  BY <1>2, <1>3, <1>4, MovesKeep DEF Effect

(* A second creation of a name, or a refusal before the first, cannot be. *)
LEMMA CreatedStep ==
  ASSUME IInv, [Next]_vars PROVE CreatedOnce'
<1> SUFFICES ASSUME NEW x \in Requests, NEW y \in Requests, x # y,
                    Created(x)', Op(y, "create")', (NameOf(x) = NameOf(y))'
             PROVE  req'[y].status # 201 /\ (req'[y].status = 409 => y \notin req'[x].after)
  BY DEF CreatedOnce
<1>1. /\ Persists /\ RequestInv /\ RequestInv' /\ NameInv /\ AfterInv /\ CreatedOnce
      /\ req' \in [Requests -> Request]
  BY NextKeeps DEF RequestsKept, IInv
<1>2. req'[x].status = 201
  BY DEF Created
<1>3. CASE req'[x] # req[x]
  <2>1. /\ AnswerEffect(x) /\ req[x].pc \in Active /\ req'[y] = req[y]
    BY <1>2, <1>3, NewStatus
  <2>2. NameOf(x) \notin things /\ req'[x].in = req[x].in
    BY <1>1, <1>2, <2>1 DEF AnswerEffect, Persists, Active
  <2>3. NameOf(y) \notin things /\ Op(y, "create")
    BY <2>1, <2>2 DEF NameOf, Op
  <2> QED
    BY <1>1, <2>1, <2>3 DEF NameInv
<1>4. CASE req'[x] = req[x] /\ req'[y] # req[y]
  <2>1. Created(x) /\ NameOf(x) \in things
    BY <1>1, <1>4 DEF Created, Op, NameInv
  <2>2. req'[y].status \in {201, 409} => AnswerEffect(y) /\ req[y].pc \in Active
    BY <1>4, NewStatus
  <2>3. req[y].pc \in Active => NameOf(y) = NameOf(x)
    BY <1>1, <1>4 DEF Persists, NameOf, Active
  <2>4. req'[y].status # 201
    BY <2>1, <2>2, <2>3 DEF AnswerEffect
  <2>5. req[y].pc \in Active => y \notin req[x].after
    BY <1>1 DEF AfterInv, Active
  <2> QED
    BY <1>4, <2>2, <2>4, <2>5
<1>5. CASE req'[x] = req[x] /\ req'[y] = req[y]
  BY <1>1, <1>5 DEF CreatedOnce, Created, Op, NameOf
<1> QED
  BY <1>3, <1>4, <1>5
-----------------------------------------------------------------------------
(* The invariant is inductive. *)
THEOREM Inductive == Spec => []IInv
<1>1. Init => IInv
  BY InitInv
<1>2. IInv /\ [Next]_vars => IInv'
  <2> SUFFICES ASSUME IInv, [Next]_vars PROVE IInv'
    OBVIOUS
  <2>1. TypeOK' /\ RequestInv' /\ AfterInv' /\ LinkInv' /\ NameInv'
    BY TypeStep, NextKeeps, AfterStep, LinkStep, NameStep DEF RequestsKept
  <2>2. EditInv' /\ TodoInv' /\ ReportInv' /\ CreatedOnce'
    BY EditStep, TodoStep, ReportStep, CreatedStep
  <2> QED
    BY <2>1, <2>2 DEF IInv
<1> QED
  BY <1>1, <1>2, PTL DEF Spec

(* Every reachable state has the types that TypeOK states. *)
THEOREM TypeCorrect == Spec => []TypeOK
<1>1. IInv => TypeOK
  BY DEF IInv
<1> QED
  BY <1>1, Inductive, PTL

(***************************************************************************)
(* However creations of one name interleave, fail and crash, one at most   *)
(* is answered 201, and nobody was told before it that the name is taken.  *)
(***************************************************************************)
THEOREM CreationOnce == Spec => []CreatedOnce
<1>1. IInv => CreatedOnce
  BY DEF IInv
<1> QED
  BY <1>1, Inductive, PTL

(***************************************************************************)
(* A report tells what was settled before it began, although it reads role *)
(* after role, each in a statement of its own.                             *)
(***************************************************************************)
THEOREM ReportsTell == Spec => []ReportsCurrent
<1>1. IInv => ReportsCurrent
  <2> SUFFICES ASSUME IInv, NEW x \in Requests, NEW y \in req[x].after,
                      Op(x, "report"), req[x].status = 200, ~req[x].cut,
                      Edits(y), req[y].status = 200,
                      Concerns(x, req[y].in.link), LastEdit(y, x)
               PROVE  req[y].in.link \in req[x].listed <=> Op(y, "assign")
    BY DEF ReportsCurrent
  <2>1. Reading(x) /\ Edited(y)
    BY DEF Reading, Edited
  <2>2. req[x].todo = {}
    BY DEF IInv, RequestInv, Sound
  <2> QED
    BY <2>1, <2>2 DEF IInv, ReportInv, Settled
<1> QED
  BY <1>1, Inductive, PTL
-----------------------------------------------------------------------------
(* y has created what x is to create, while x was under way. *)
Beats(y, x) ==
    /\ Created(y) /\ NameOf(y) = NameOf(x)
    /\ y \notin req[x].after /\ x \notin req[y].after

(* x is told 500, which ConflictTold says should be 409. *)
Refused(x) == Op(x, "create") /\ req[x].status = 500

(***************************************************************************)
(* When no statement fails, a creation is answered 500 for one reason      *)
(* only: another one of the same name, side by side with it, is answered   *)
(* 201.  One that comes later, or alone, is told the truth.  This is how   *)
(* far the violation of ConflictTold goes.  (user_service.go:55-72)        *)
(***************************************************************************)
RefusedByAnother ==
    \A x \in Requests : Refused(x) => \E y \in Requests : Beats(y, x)

(***************************************************************************)
(* The name of a creation that has not found it comes to be only by        *)
(* another creation that overlaps.                                         *)
(***************************************************************************)
RaceInv ==
    /\ \A x \in Requests :
          req[x].pc = "insert" /\ NameOf(x) \in things => \E y \in Requests : Beats(y, x)
    /\ RefusedByAnother

(* Who has beaten a creation keeps having done so. *)
LEMMA BeatsKept ==
  ASSUME IInv, [Next]_vars, NEW x \in Requests, NEW y \in Requests,
         req[x].pc # "idle", Beats(y, x)
  PROVE  Beats(y, x)'
<1>1. Persists /\ RequestInv
  BY NextKeeps DEF RequestsKept, IInv
<1>2. req[y].pc = "ended"
  BY <1>1 DEF Beats, Created, RequestInv, Sound
<1>3. req'[y] = req[y]
  BY <1>1, <1>2 DEF Persists
<1>4. req'[x].in = req[x].in /\ req'[x].after = req[x].after
  BY <1>1 DEF Persists
<1> QED
  BY <1>3, <1>4 DEF Beats, Created, Op, NameOf

(* A row comes to be by a creation that is answered 201. *)
LEMMA RowsComeByCreation ==
  ASSUME IInv, [Next]_vars, ~Faulty, things' # things
  PROVE  \E z \in Requests :
            /\ req[z].pc = "insert" /\ things' = things \cup {NameOf(z)}
            /\ req'[z].status = 201
<1>1. PICK z \in Requests : Insert(z)
  BY DEF Next, Step, vars, Crash, Begin, Look, FindHolder, FindItem, Assign, Remove,
         ReadHolder, ReadRoles, ReadPermissions
<1>2. things' = things \cup {NameOf(z)} /\ Answers(z, 201)
  BY <1>1 DEF Insert
<1>3. TypeOK /\ RequestInv /\ Sound(req[z]) /\ req[z].pc = "insert"
  BY <1>1 DEF IInv, RequestInv, Insert
<1>4. req'[z].status = 201
  BY <1>2, <1>3, AnswersMoves DEF Active, Statuses
<1> QED
  BY <1>2, <1>3, <1>4

(* A creation that takes a step is cut off, begins, looks or inserts. *)
LEMMA CreationSteps ==
  ASSUME IInv, [Next]_vars, NEW x \in Requests, Op(x, "create")', req'[x] # req[x]
  PROVE  Crash \/ Begin(x) \/ Look(x) \/ Insert(x)
<1>1. RequestInv /\ Sound(req[x]) /\ Persists
  BY NextKeeps DEF IInv, RequestInv, RequestsKept
<1>2. ASSUME NEW z \in Requests, Begin(z) \/ Step(z) PROVE z = x
  BY <1>2, StepMoves, MovesKeep
<1>3. ASSUME req[x].pc # "idle" PROVE req[x].in.op = "create"
  BY <1>1, <1>3 DEF Persists, Op
<1>4. ASSUME Step(x) PROVE Look(x) \/ Insert(x)
  <2>1. req[x].pc \notin {"holder", "item", "assign", "remove", "read", "roles", "permissions"}
    BY <1>1, <1>3 DEF Sound
  <2> QED
    BY <1>4, <2>1 DEF Step, FindHolder, FindItem, Assign, Remove, ReadHolder, ReadRoles,
                      ReadPermissions
<1> QED
  BY <1>2, <1>4 DEF Next, vars

(* The first step of a request takes it nowhere near an INSERT. *)
LEMMA BeginsBefore ==
  ASSUME IInv, NEW x \in Requests, Begin(x)
  PROVE  req[x].pc = "idle" /\ req'[x].pc # "insert" /\ req'[x].status \in {0, 400}
<1>1. PICK in \in Inputs, pc \in {"ended", "look", "holder", "remove", "read"},
           status \in {0, 400} : Begins(x, in, pc, status)
  BY DEF Begin
<1>2. req \in [Requests -> Request]
  BY DEF IInv, TypeOK
<1>3. req'[x] = [pc |-> pc, in |-> in, todo |-> {}, listed |-> {}, cut |-> FALSE,
                 status |-> status, after |-> {y \in Requests : req[y].pc = "ended"}]
  BY <1>1, <1>2 DEF Begins
<1>4. req'[x].pc = pc /\ req'[x].status = status
  BY <1>3
<1> QED
  BY <1>4 DEF Begin

(* The look-up that does not find the name goes on to the INSERT. *)
LEMMA LookResults ==
  ASSUME IInv, NEW x \in Requests, Look(x)
  PROVE  /\ req'[x].pc = "insert" => NameOf(x) \notin things
         /\ ~Faulty => req'[x].status # 500
<1>1. TypeOK /\ RequestInv /\ req[x].pc = "look"
  BY DEF IInv, Look
<1>2. CASE NameOf(x) \in things /\ Answers(x, 409)
  BY <1>1, <1>2, AnswersMoves DEF Active, Statuses
<1>3. CASE NameOf(x) \notin things /\ Goes(x, "insert")
  BY <1>1, <1>3, GoesMoves DEF Active
<1>4. CASE Faulty /\ Fails(x)
  BY <1>1, <1>4, FailsMoves DEF Active
<1> QED
  BY <1>2, <1>3, <1>4 DEF Look

(* A creation comes to its INSERT without having found the name. *)
LEMMA NotFoundBefore ==
  ASSUME IInv, [Next]_vars, NEW x \in Requests, req'[x].pc = "insert", req[x].pc # "insert"
  PROVE  NameOf(x)' \notin things'
<1>1. Op(x, "create")'
  <2>1. RequestInv' /\ None \notin Inputs
    BY NextKeeps, ConstantsAssumption DEF RequestsKept
  <2> QED
    BY <2>1 DEF RequestInv, Sound, Op
<1>2. CASE Look(x)
  <2>1. NameOf(x) \notin things /\ things' = things
    BY <1>2, LookResults DEF Look
  <2>2. req'[x].in = req[x].in
    BY <1>2, NextKeeps DEF RequestsKept, Persists, Look
  <2> QED
    BY <2>1, <2>2 DEF NameOf
<1>3. ~Crash /\ ~Begin(x) /\ ~Insert(x)
  BY CrashKeeps, BeginsBefore DEF Insert
<1> QED
  BY <1>1, <1>2, <1>3, CreationSteps

(* One that is refused was at its INSERT, and the name was there. *)
LEMMA RefusedAtInsert ==
  ASSUME IInv, [Next]_vars, ~Faulty, NEW x \in Requests, Refused(x)', ~Refused(x)
  PROVE  req[x].pc = "insert" /\ NameOf(x) \in things
<1>1. req'[x] # req[x] /\ req'[x].status = 500 /\ Op(x, "create")'
  BY DEF Refused, Op
<1>2. ~Begin(x) /\ ~Look(x)
  BY <1>1, BeginsBefore, LookResults
<1>3. ~Crash
  <2>1. ASSUME Crash PROVE req[x].status = 500
    BY <1>1, <2>1, CrashKeeps
  <2>2. ASSUME Crash PROVE req[x].pc # "idle"
    BY <2>1, <2>2 DEF IInv, RequestInv, Sound
  <2> QED
    BY <1>1, <2>1, <2>2, NextKeeps DEF RequestsKept, Persists, Refused, Op
<1>4. Insert(x)
  BY <1>1, <1>2, <1>3, CreationSteps
<1>5. ~Answers(x, 201)
  BY <1>1, <1>4, AnswersMoves DEF Insert, IInv, Active, Statuses
<1> QED
  BY <1>4, <1>5 DEF Insert

(* The race invariant is kept. *)
LEMMA RaceStep ==
  ASSUME IInv, RaceInv, [Next]_vars, ~Faulty PROVE RaceInv'
<1>1. Persists /\ RequestInv /\ RequestInv' /\ AfterInv /\ req \in [Requests -> Request]
  BY NextKeeps DEF RequestsKept, IInv, TypeOK
<1>2. ASSUME NEW x \in Requests, req'[x].pc = "insert", (NameOf(x) \in things)'
      PROVE  \E y \in Requests : Beats(y, x)'
  <2>1. req[x].pc = "insert" /\ NameOf(x)' = NameOf(x)
    BY <1>1, <1>2, NotFoundBefore DEF Persists, NameOf
  <2>2. CASE NameOf(x) \in things
    <3>1. PICK y \in Requests : Beats(y, x)
      BY <2>1, <2>2 DEF RaceInv
    <3> QED
      BY <2>1, <3>1, BeatsKept
  <2>3. CASE NameOf(x) \notin things
    <3>1. PICK z \in Requests : /\ req[z].pc = "insert" /\ things' = things \cup {NameOf(z)}
                                /\ req'[z].status = 201
      BY <1>2, <2>1, <2>3, RowsComeByCreation
    <3>2. NameOf(z) = NameOf(x)
      BY <1>2, <2>1, <2>3, <3>1
    <3>3. req[z].in \in Inputs /\ req[z].in.op = "create" /\ req'[z].in = req[z].in
      BY <1>1, <3>1 DEF RequestInv, Sound, Persists
    <3>4. Created(z)' /\ NameOf(z)' = NameOf(x)'
      BY <2>1, <3>1, <3>2, <3>3, ConstantsAssumption DEF Created, Op, NameOf
    <3>5. z \notin req'[x].after /\ x \notin req'[z].after
      BY <1>1, <2>1, <3>1 DEF AfterInv, Persists
    <3> QED
      BY <3>4, <3>5 DEF Beats
  <2> QED
    BY <2>2, <2>3
<1>3. ASSUME NEW x \in Requests, Refused(x)'
      PROVE  \E y \in Requests : Beats(y, x)'
  <2>1. req[x].pc # "idle"
    BY <1>1, <1>3, RefusedAtInsert DEF Refused, RequestInv, Sound
  <2>2. PICK y \in Requests : Beats(y, x)
    BY <1>3, RefusedAtInsert DEF RaceInv, RefusedByAnother
  <2> QED
    BY <2>1, <2>2, BeatsKept
<1> QED
  BY <1>2, <1>3 DEF RaceInv, RefusedByAnother

(***************************************************************************)
(* When no statement fails, only the loser of a race for a name is told    *)
(* 500 in place of 409.                                                    *)
(***************************************************************************)
THEOREM RefusedOnlyByAnother ==
  ASSUME ~Faulty
  PROVE  Spec => []RefusedByAnother
<1>1. Init => RaceInv
  BY DEF Init, RaceInv, RefusedByAnother, Refused, Op
<1>2. IInv /\ RaceInv /\ [Next]_vars => RaceInv'
  BY RaceStep
<1>3. RaceInv => RefusedByAnother
  BY DEF RaceInv
<1> QED
  BY <1>1, <1>2, <1>3, Inductive, PTL DEF Spec
=============================================================================
