-------------------------------- MODULE Rbac --------------------------------
(***************************************************************************)
(* Users, roles and permissions of the User Service: creation, assignment, *)
(* removal, and the reports that are put together from several SELECTs,    *)
(* statement by statement, with any number of requests at once.            *)
(*                                                                         *)
(* Each statement is a transaction of its own and takes effect at once.    *)
(* Rows have a name (a user's is the e-mail) that is UNIQUE, never changes *)
(* and is never deleted, so the name stands for the id drawn at the        *)
(* INSERT.  Lists of users and of permissions, and reports of one          *)
(* permission, are single SELECTs and left out.                            *)
(***************************************************************************)
EXTENDS Naturals

CONSTANTS
    Users,        \* e-mails in the form they are stored in
    Roles,        \* names of roles
    Permissions,  \* names of permissions
    Texts,        \* what callers send as an e-mail or a name
    Normal,       \* the form a text is stored in: trimmed, e-mails in lower case
    Invalid,      \* a text, or another field with it, that is refused
    Requests,     \* requests to the API
    Inputs,       \* what they ask for
    Faulty,       \* statements may fail
    None          \* no input, no text, no name

Things == Users \cup Roles \cup Permissions

(* Rows of user_roles and of role_permissions. *)
Links == (Users \X Roles) \cup (Roles \X Permissions)

(***************************************************************************)
(* What a request asks for: to create what a text names; to assign or      *)
(* remove a link; a report of a user, of a role, or, without a holder, of  *)
(* all roles.                                                              *)
(***************************************************************************)
Input ==
    [op: {"create"}, text: Texts]
    \cup [op: {"assign", "remove"}, link: Links]
    \cup [op: {"report"}, holder: Users \cup Roles \cup {None}]

ASSUME ConstantsAssumption ==
    /\ Inputs \subseteq Input
    /\ Normal \in [Texts -> Things \cup {Invalid}]
    /\ Users \cap Roles = {} /\ Users \cap Permissions = {} /\ Roles \cap Permissions = {}
    /\ Invalid \notin Things /\ None \notin Things /\ None \notin Inputs
    /\ Faulty \in BOOLEAN

VARIABLES
    things,  \* rows of users, roles and permissions
    links,   \* rows of user_roles and role_permissions
    req      \* requests, with their local variables

vars == <<things, links, req>>

Statuses == {0, 200, 201, 400, 404, 409, 500}  \* 0: none yet, or for ever

Active == {"look", "insert", "holder", "item", "assign", "remove", "read", "roles", "permissions"}

(***************************************************************************)
(* A report has listed links, and has the permissions of some roles still  *)
(* to read.  Two fields only observe: cut, whether its context was over    *)
(* before it had the first row of a list; after, what had ended when it    *)
(* began.                                                                  *)
(***************************************************************************)
Request ==
    [pc: {"idle", "ended"} \cup Active, in: Inputs \cup {None},
     todo: SUBSET Roles, listed: SUBSET Links, cut: BOOLEAN,
     status: Statuses, after: SUBSET Requests]

TypeOK ==
    /\ things \subseteq Things
    /\ links \subseteq Links
    /\ req \in [Requests -> Request]

Ends(link) == {link[1], link[2]}

Init ==
    /\ things \in SUBSET Things
    /\ links \in SUBSET {l \in Links : Ends(l) \subseteq things}
    /\ req = [x \in Requests |->
          [pc |-> "idle", in |-> None, todo |-> {}, listed |-> {}, cut |-> FALSE, status |-> 0,
           after |-> {}]]

Op(x, op) == req[x].in # None /\ req[x].in.op = op

(* Mutation of NameOf: the text as it is sent. *)
NameOfRaw(x) == req[x].in.text

NameOf(x) == Normal[req[x].in.text]

Goes(x, pc) == req' = [req EXCEPT ![x].pc = pc]

Answers(x, status) ==
    req' = [req EXCEPT ![x] = [@ EXCEPT !.pc = "ended", !.status = status]]

(* The handlers answer 400 to any error of a removal. *)
Fails(x) == Answers(x, IF req[x].in.op = "remove" THEN 400 ELSE 500)
-----------------------------------------------------------------------------
Begins(x, in, pc, status) ==
    req' = [req EXCEPT ![x] =
       [pc |-> pc, in |-> in, todo |-> {}, listed |-> {}, cut |-> FALSE, status |-> status,
        after |-> {y \in Requests : req[y].pc = "ended"}]]

(* A creation validates its fields before it asks the database. *)
Begin(x) ==
    /\ req[x].pc = "idle"
    /\ \E in \in Inputs :
          \/ in.op = "create" /\ Normal[in.text] = Invalid /\ Begins(x, in, "ended", 400)
          \/ in.op = "create" /\ Normal[in.text] # Invalid /\ Begins(x, in, "look", 0)
          \/ in.op = "assign" /\ Begins(x, in, "holder", 0)
          \/ in.op = "remove" /\ Begins(x, in, "remove", 0)
          \/ in.op = "report" /\ Begins(x, in, "read", 0)
    /\ UNCHANGED <<things, links>>

(* GetByEmail, GetByName *)
Look(x) ==
    /\ req[x].pc = "look"
    /\ \/ NameOf(x) \in things /\ Answers(x, 409)
       \/ NameOf(x) \notin things /\ Goes(x, "insert")
       \/ Faulty /\ Fails(x)
    /\ UNCHANGED <<things, links>>

(* Mutation of Insert: ON CONFLICT DO UPDATE. *)
InsertAnyway(x) ==
    /\ req[x].pc = "insert"
    /\ things' = things \cup {NameOf(x)}
    /\ Answers(x, 201)
    /\ UNCHANGED links

(* Create: any error of the INSERT, the UNIQUE name included, is a 500. *)
Insert(x) ==
    /\ req[x].pc = "insert"
    /\ \/ /\ NameOf(x) \notin things
          /\ things' = things \cup {NameOf(x)}
          /\ Answers(x, 201)
       \/ /\ NameOf(x) \in things \/ Faulty
          /\ things' \in {things, things \cup {NameOf(x)}}
          /\ Fails(x)
    /\ UNCHANGED links

(* AssignRole and AssignPermission verify that both ends exist ... *)
FindHolder(x) ==
    LET holder == req[x].in.link[1] IN
    /\ req[x].pc = "holder"
    /\ \/ holder \in things /\ Goes(x, "item")
       \/ holder \notin things /\ Answers(x, 404)
       \/ Faulty /\ Fails(x)
    /\ UNCHANGED <<things, links>>

FindItem(x) ==
    LET item == req[x].in.link[2] IN
    /\ req[x].pc = "item"
    /\ \/ item \in things /\ Goes(x, "assign")
       \/ item \notin things /\ Answers(x, 404)
       \/ Faulty /\ Fails(x)
    /\ UNCHANGED <<things, links>>

(* Mutation of Assign: the error of the INSERT is dropped. *)
AssignUnchecked(x) ==
    LET link == req[x].in.link IN
    /\ req[x].pc = "assign"
    /\ links' = links \cup {link} \/ (Faulty /\ UNCHANGED links)
    /\ Answers(x, 200)
    /\ UNCHANGED things

(* ... and INSERT ... ON CONFLICT DO NOTHING. *)
Assign(x) ==
    LET link == req[x].in.link
        holds == Ends(link) \subseteq things
    IN
    /\ req[x].pc = "assign"
    /\ \/ holds /\ links' = links \cup {link} /\ Answers(x, 200)
       \/ /\ ~holds \/ Faulty
          /\ UNCHANGED links \/ (holds /\ links' = links \cup {link})
          /\ Fails(x)
    /\ UNCHANGED things

(* RemoveRole, RemovePermission: an error too if no row was deleted. *)
Remove(x) ==
    LET link == req[x].in.link IN
    /\ req[x].pc = "remove"
    /\ \/ link \in links /\ links' = links \ {link} /\ Answers(x, 200)
       \/ link \notin links /\ UNCHANGED links /\ Fails(x)
       \/ Faulty /\ links' \in {links, links \ {link}} /\ Fails(x)
    /\ UNCHANGED things

(* A report goes on to the permissions of the next role, or is answered. *)
Reports(x, todo, listed) ==
    req' = [req EXCEPT ![x] =
       [pc |-> IF todo = {} THEN "ended" ELSE "permissions", in |-> req[x].in,
        todo |-> todo, listed |-> listed, cut |-> FALSE,
        status |-> IF todo = {} THEN 200 ELSE 0, after |-> req[x].after]]

(***************************************************************************)
(* A list of roles is read.  When the context ends before its first row is *)
(* fetched it is empty, and rows.Err() is not asked.                       *)
(***************************************************************************)
Lists(x, roles, found) ==
    \/ Reports(x, roles, found)
    \/ Faulty /\ req' = [req EXCEPT ![x] = [@ EXCEPT !.pc = "ended", !.status = 200, !.cut = TRUE]]
    \/ Faulty /\ Fails(x)

(* The first SELECT of a report: the user, the role, or all roles. *)
ReadHolder(x) ==
    LET holder == req[x].in.holder IN
    /\ req[x].pc = "read"
    /\ \/ holder = None /\ Lists(x, things \cap Roles, {})
       \/ holder \in things \cap Users /\ Goes(x, "roles")
       \/ holder \in things \cap Roles /\ Reports(x, {holder}, {})
       \/ holder \notin things \cup {None} /\ Answers(x, 404)
       \/ holder # None /\ Faulty /\ Fails(x)
    /\ UNCHANGED <<things, links>>

LinksOf(holder) == {l \in links : l[1] = holder}

(* GetRolesForUser *)
ReadRoles(x) ==
    LET found == LinksOf(req[x].in.holder) IN
    /\ req[x].pc = "roles"
    /\ Lists(x, {l[2] : l \in found}, found)
    /\ UNCHANGED <<things, links>>

(* GetPermissionsForRole, for one role after the other *)
ReadPermissions(x) ==
    /\ req[x].pc = "permissions"
    /\ \/ \E r \in req[x].todo : Reports(x, req[x].todo \ {r}, req[x].listed \cup LinksOf(r))
       \/ Faulty /\ Fails(x)
    /\ UNCHANGED <<things, links>>

(* The process dies, and with it what it was at. *)
Crash ==
    /\ req' = [x \in Requests |->
          IF req[x].pc \in Active THEN [req[x] EXCEPT !.pc = "ended"] ELSE req[x]]
    /\ UNCHANGED <<things, links>>
-----------------------------------------------------------------------------
Step(x) ==
    \/ Look(x) \/ Insert(x)
    \/ FindHolder(x) \/ FindItem(x) \/ Assign(x) \/ Remove(x)
    \/ ReadHolder(x) \/ ReadRoles(x) \/ ReadPermissions(x)

Next == Crash \/ \E x \in Requests : Begin(x) \/ Step(x)

Spec == Init /\ [][Next]_vars
-----------------------------------------------------------------------------
(* Properties *)

Created(x) == Op(x, "create") /\ req[x].status = 201

(***************************************************************************)
(* Of all creations of one name, however it is written, one is answered    *)
(* 201, and none once another has been told that the name is taken: the    *)
(* look for the name and the INSERT are two statements.                    *)
(* (user_service.go:55-72, role_service.go:39-47, permission_service.go:   *)
(* 35-43)                                                                  *)
(***************************************************************************)
CreatedOnce ==
    \A x, y \in Requests :
        Created(x) /\ Op(y, "create") /\ x # y /\ NameOf(x) = NameOf(y) =>
            /\ req[y].status # 201
            /\ req[y].status = 409 => y \notin req[x].after

Edits(y) == Op(y, "assign") \/ Op(y, "remove")

(* Link l is one of those that report x is to list if they exist. *)
Concerns(x, l) ==
    LET holder == req[x].in.holder IN
    \/ l[1] = holder
    \/ holder = None /\ l[1] \in Roles
    \/ <<holder, l[1]>> \in req[x].listed

(* y alone has edited its link since it began, until report x was over. *)
LastEdit(y, x) ==
    \A z \in Requests \ {y} :
        Edits(z) /\ req[z].in.link = req[y].in.link =>
            z \in req[y].after \/ x \in req[z].after

(***************************************************************************)
(* A report that is answered 200, its lists not cut short, tells what has  *)
(* been settled before it began: a role or a permission whose assignment   *)
(* was acknowledged is there, one whose removal was is not, unless         *)
(* somebody edited it since, although the report is put together from one  *)
(* SELECT per role, in no transaction.                                     *)
(* (user_repository.go:138-214, role_repository.go:39-57, 74-105)          *)
(***************************************************************************)
ReportsCurrent ==
    \A x \in Requests : \A y \in req[x].after :
        /\ Op(x, "report") /\ req[x].status = 200 /\ ~req[x].cut
        /\ Edits(y) /\ req[y].status = 200
        /\ Concerns(x, req[y].in.link) /\ LastEdit(y, x)
        => (req[y].in.link \in req[x].listed <=> Op(y, "assign"))

(***************************************************************************)
(* What UserService/api/openapi.json:52, 153 and 229 say of a creation: it *)
(* is answered 409 if the e-mail or the name exists.                       *)
(***************************************************************************)
ConflictTold ==
    \A x \in Requests :
        Op(x, "create") /\ req[x].pc = "ended" /\ NameOf(x) \in things =>
            req[x].status \in {0, 201, 409}
=============================================================================
