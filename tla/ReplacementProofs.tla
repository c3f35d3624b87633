------------------------- MODULE ReplacementProofs -------------------------
(***************************************************************************)
(* Proofs about the transactions of ClientRegistry: no list of a client is *)
(* found empty that only ever gets lists that are not; only replacements   *)
(* and deletions are victims of deadlocks; and requests get on.            *)
(***************************************************************************)
EXTENDS ClientRegistryProofs, FiniteSetTheorems

Emptied == \E x \in Requests : req[x].in # None /\ Empties(x)

(* Who inserted a row that is visible is not about to replace anything. *)
Quiet(r) == r.by # None => req[r.by].pc \in {"add", "reread", "ended"}

QuietInv ==
    /\ \A k \in ClientIDs : \A r \in rows[k] : Quiet(r)
    /\ \A x \in Requests :
          /\ req[x].pc = "wipe" => \A r \in req[x].seen : Quiet(r)
          /\ \A r \in req[x].dels : Quiet(r)

(* A replacement deletes rows of its kind. *)
KindInv ==
    \A x \in Requests :
        /\ req[x].pc = "wipe" /\ req[x].in.op = "set" =>
              \A r \in req[x].seen : r.name \in OfKind(req[x].in.kind)
        /\ \A r \in req[x].dels : r.name \in OfKind(req[x].in.kind)

(***************************************************************************)
(* A replacement that has found its first entries there, and inserted      *)
(* nothing so far, relies on a row that no other such replacement of the   *)
(* same list has deleted: they can all commit.                             *)
(***************************************************************************)
Settled(x) ==
    /\ req[x].pc \in {"fill", "commit"}
    /\ req[x].todo # Sanitized(req[x].in.list) /\ req[x].ins = {}

Rival(x, y) == Settled(y) /\ ClientOf(y) = ClientOf(x) /\ req[y].in.kind = req[x].in.kind

Firm(x, r) ==
    /\ r \in Committed(ClientOf(x), req[x].in.kind)
    /\ \A y \in Requests : Rival(x, y) => r \notin req[y].dels

FirmInv == ~Emptied => \A x \in Requests : Settled(x) => \E r \in Row : Firm(x, r)

RInv == IInv /\ QuietInv /\ KindInv /\ FirmInv
-----------------------------------------------------------------------------
(* The initial states satisfy the invariant. *)
LEMMA RInit == Init => RInv
<1> SUFFICES ASSUME Init PROVE RInv
  OBVIOUS
<1>1. \A x \in Requests : req[x] = Idle
  BY DEF Init
<1>2. QuietInv
  BY <1>1 DEF Init, Idle, QuietInv, Quiet
<1>3. KindInv /\ FirmInv
  BY <1>1 DEF Idle, KindInv, FirmInv, Settled
<1> QED
  BY <1>2, <1>3, InitInv DEF RInv

(* Who inserted a row does not take up a replacement. *)
LEMMA QuietStep ==
  ASSUME IInv, [Next]_vars, NEW r \in Row, Quiet(r)
  PROVE  Quiet(r)'
<1> SUFFICES ASSUME r.by # None PROVE req'[r.by].pc \in {"add", "reread", "ended"}
  BY DEF Quiet
<1> DEFINE x == r.by
<1>1. x \in Requests /\ req[x].pc \in {"add", "reread", "ended"}
  BY DEF Quiet, Row
<1> HIDE DEF x
<1>2. CASE req'[x] = req[x] \/ req'[x].pc = "ended"
  BY <1>1, <1>2 DEF x
<1>3. CASE Begin(x) \/ Step(x)
  <2>1. AddRow(x) \/ Reread(x) \/ BreakDeadlock(x)
    BY <1>1, <1>3 DEF Begin, Step, CheckClient, InsertClient, StartDelete, WipeRows, RemoveRow,
                      FillRow, Commit, DeleteClient, Cascade, Runs, Inserts
  <2>2. req'[x].pc \in {"ended", "add", "reread"}
    BY <1>1, <2>1, AddRowMoves, RereadMoves, BreakDeadlockMoves
  <2> QED
    BY <2>2 DEF x
<1> QED
  BY <1>1, <1>2, <1>3, RequestsStep

(* Rows come from requests that are done with their transaction. *)
LEMMA QuietInvStep ==
  ASSUME IInv, QuietInv, [Next]_vars PROVE QuietInv'
<1>1. ASSUME NEW k \in ClientIDs, NEW r \in rows'[k] PROVE Quiet(r)'
  <2>1. r \in Row
    BY <1>1, TypeOKStep DEF TypeOK
  <2>2. CASE r \in rows[k]
    BY <2>1, <2>2, QuietStep DEF QuietInv
  <2>3. CASE r \notin rows[k]
    <3>1. PICK x \in Requests :
            /\ AddRow(x) \/ RemoveRow(x) \/ Commit(x) \/ Cascade(x)
            /\ req[x].pc # "idle" /\ Edits(x)
      BY <1>1, <2>3, RowsStep
    <3>2. r.by = x /\ req[x].pc \in {"add", "commit"}
      BY <1>1, <2>3, <3>1, RowsEffect
    <3>3. AddRow(x) \/ Commit(x)
      BY <3>1, <3>2 DEF RemoveRow, Cascade, Runs
    <3>4. req'[x].pc \in {"ended", "add", "reread"}
      BY <3>3, AddRowMoves, CommitMoves
    <3> QED
      BY <3>2, <3>4 DEF Quiet
  <2> QED
    BY <2>2, <2>3
<1>2. ASSUME NEW x \in Requests, req'[x].pc = "wipe", NEW r \in req'[x].seen PROVE Quiet(r)'
  <2>1. r \in Row
    BY <1>2, TypeOKStep DEF TypeOK, Request
  <2>2. Quiet(r)
    <3>1. CASE req'[x] = req[x]
      BY <1>2, <3>1 DEF QuietInv
    <3>2. CASE StartDelete(x)
      BY <1>2, <3>2, StartDeleteEffect, ClientOfType DEF QuietInv
    <3> QED
      BY <1>2, <3>1, <3>2, PutFrame
  <2> QED
    BY <2>1, <2>2, QuietStep
<1>3. ASSUME NEW x \in Requests, NEW r \in req'[x].dels PROVE Quiet(r)'
  <2>1. r \in Row /\ req'[x].pc \in {"fill", "commit"}
    BY <1>3, TypeOKStep, RequestsStep DEF TypeOK, Request, RequestsKept, RequestInv, SoundRequest
  <2>2. Quiet(r)
    <3>1. CASE req'[x] = req[x]
      BY <1>3, <3>1 DEF QuietInv
    <3>2. CASE WipeRows(x)
      BY <1>3, <2>1, <3>2, WipeRowsEffect DEF QuietInv
    <3>3. CASE FillRow(x)
      BY <1>3, <2>1, <3>3, FillRowEffect DEF QuietInv
    <3> QED
      BY <2>1, <3>1, <3>2, <3>3, PutFrame
  <2> QED
    BY <2>1, <2>2, QuietStep
<1> QED
  BY <1>1, <1>2, <1>3 DEF QuietInv, Quiet

(* A replacement sees and deletes rows of its kind. *)
LEMMA KindInvStep ==
  ASSUME IInv, KindInv, [Next]_vars PROVE KindInv'
<1>1. ASSUME NEW x \in Requests, req'[x].pc = "wipe", req'[x].in.op = "set", NEW r \in req'[x].seen
      PROVE  r.name \in OfKind(req'[x].in.kind)
  <2>1. req'[x].in = req[x].in
    BY <1>1, PutFrame, ConcurrentGrows
  <2>2. CASE req'[x] = req[x]
    BY <1>1, <2>2 DEF KindInv
  <2>3. CASE StartDelete(x)
    BY <1>1, <2>1, <2>3, StartDeleteEffect DEF Committed
  <2> QED
    BY <1>1, <2>2, <2>3, PutFrame
<1>2. ASSUME NEW x \in Requests, NEW r \in req'[x].dels
      PROVE  r.name \in OfKind(req'[x].in.kind)
  <2>1. req'[x].pc \in {"fill", "commit"}
    BY <1>2, RequestsStep DEF RequestsKept, RequestInv, SoundRequest
  <2>2. req'[x].in = req[x].in
    BY <2>1, PutFrame, ConcurrentGrows
  <2>3. CASE req'[x] = req[x]
    BY <1>2, <2>3 DEF KindInv
  <2>4. CASE WipeRows(x)
    BY <1>2, <2>1, <2>2, <2>4, WipeRowsEffect DEF KindInv
  <2>5. CASE FillRow(x)
    BY <1>2, <2>1, <2>2, <2>5, FillRowEffect DEF KindInv
  <2> QED
    BY <2>1, <2>3, <2>4, <2>5, PutFrame
<1> QED
  BY <1>1, <1>2 DEF KindInv
-----------------------------------------------------------------------------
(* An entry a replacement finds there is in no one's way. *)
LEMMA FoundIsFirm ==
  ASSUME IInv, [Next]_vars, NEW x \in Requests, FillRow(x), Settled(x)'
  PROVE  \E r \in Row : Firm(x, r)'
<1>1. req'[x].pc # "ended" /\ req'[x].ins = {}
  BY DEF Settled
<1>2. PICK name \in Names :
        /\ \A y \in Requests : ~InsertWaits(x, y, name)
        /\ req'[x].ins = req[x].ins \cup Added(x, name)
        /\ req'[x].dels = req[x].dels
        /\ name \in req[x].todo
  BY <1>1, FillRowEffect
<1>3. req[x].pc = "fill" /\ req[x].ins = {} /\ rows' = rows
  BY <1>1, <1>2, FillRowEffect
<1>4. name \in NamesOf(rows[ClientOf(x)] \ req[x].dels)
  <2>1. Added(x, name) = {}
    BY <1>1, <1>2
  <2>2. (rows[ClientOf(x)] \ req[x].dels) \cup req[x].ins \cup Added(x, name) =
           rows[ClientOf(x)] \ req[x].dels
    BY <1>3, <2>1
  <2> QED
    BY <2>2, AddedRow
<1>5. PICK r \in rows[ClientOf(x)] \ req[x].dels : r.name = name
  BY <1>4 DEF NamesOf
<1>6. req'[x].in = req[x].in /\ ClientOf(x)' = ClientOf(x) /\ ClientOf(x) \in ClientIDs
  BY <1>3, ConcurrentGrows, ClientOfType
<1>7. r \in Row
  BY <1>5, <1>6 DEF IInv, TypeOK
<1>8. name \in OfKind(req[x].in.kind)
  <2>1. req[x].in \in Inputs
    BY <1>3, ClientOfType
  <2>2. name \in req[x].in.list /\ name # Blank /\ Bad \notin req[x].in.list
    BY <1>2, <1>3 DEF IInv, RequestInv, SoundRequest, Sanitized
  <2> QED
    BY <2>1, <2>2, ConstantsAssumption
<1>9. ASSUME NEW y \in Requests, Rival(x, y)' PROVE r \notin req'[y].dels
  <2>1. CASE y = x
    BY <1>2, <1>5, <2>1
  <2>2. CASE y # x
    <3>1. req'[y] = req[y] /\ req[y].pc # "idle"
      BY <1>9, <2>2, RequestsStep DEF Step, Rival, Settled
    <3>2. ClientOf(y) = ClientOf(x)
      BY <1>6, <1>9, <3>1 DEF Rival, ClientOf
    <3> QED
      BY <1>2, <1>5, <2>2, <3>1, <3>2 DEF InsertWaits, NamesOf
  <2> QED
    BY <2>1, <2>2
<1>10. r \in Committed(ClientOf(x), req[x].in.kind)'
  BY <1>3, <1>5, <1>6, <1>8 DEF Committed
<1> QED
  BY <1>7, <1>9, <1>10 DEF Firm

(* Rows go by a replacement only, when nothing empties a list. *)
LEMMA RowsGo ==
  ASSUME IInv, [Next]_vars, ~Emptied, NEW k \in ClientIDs, NEW r \in rows[k], r \notin rows'[k]
  PROVE  \E z \in Requests :
            /\ req[z].pc = "commit" /\ ClientOf(z) = k /\ r \in req[z].dels
            /\ req[z].in.op = "set" /\ req[z].todo = {} /\ Sanitized(req[z].in.list) # {}
            /\ req'[z].pc \in {"ended", "reread"}
            /\ rows'[k] = (rows[k] \ req[z].dels) \cup req[z].ins
<1>1. PICK z \in Requests :
        /\ AddRow(z) \/ RemoveRow(z) \/ Commit(z) \/ Cascade(z)
        /\ req[z].pc # "idle" /\ Edits(z)
  BY RowsStep
<1>2. k = ClientOf(z) /\ req[z].pc \in {"wipe", "commit", "cascade"}
  BY <1>1, RowsEffect
<1>3. req[z].in # None /\ req[z].in.op \notin {"delete", "remove"}
  BY <1>1 DEF IInv, RequestInv, SoundRequest, Emptied, Empties
<1>4. Commit(z)
  BY <1>1, <1>2, <1>3 DEF AddRow, RemoveRow, Cascade, Runs, Inserts, IInv, RequestInv, SoundRequest
<1>5. req[z].pc = "commit" /\ req'[z].pc \in {"ended", "reread"}
  BY <1>4, CommitMoves DEF Commit, Runs
<1>6. req[z].in.op = "set" /\ req[z].todo = {}
  BY <1>5 DEF IInv, RequestInv, SoundRequest
<1>7. Sanitized(req[z].in.list) # {}
  BY <1>3, <1>6 DEF Emptied, Empties
<1>8. rows' = [rows EXCEPT ![k] = (@ \ req[z].dels) \cup req[z].ins]
  BY <1>2, <1>4 DEF Commit
<1>9. rows'[k] = (rows[k] \ req[z].dels) \cup req[z].ins
  BY <1>8 DEF IInv, TypeOK
<1> QED
  BY <1>2, <1>5, <1>6, <1>7, <1>9

(* The rows of a replacement are of its kind, and of one kind only. *)
LEMMA KindsApart ==
  ASSUME IInv, NEW z \in Requests, req[z].pc \in {"fill", "commit"}
  PROVE  /\ req[z].in.kind \in {"redirect_uris", "scopes"}
         /\ \A i \in req[z].ins : i.name \in OfKind(req[z].in.kind)
         /\ \A kind \in Kinds :
               (\E name \in OfKind(kind) : name \in OfKind(req[z].in.kind)) =>
                   /\ OfKind(req[z].in.kind) \subseteq OfKind(kind)
                   /\ kind # "both" => kind = req[z].in.kind
<1>1. /\ req[z].in \in Inputs /\ req[z].in.op = "set" /\ Bad \notin req[z].in.list
      /\ NamesOf(req[z].ins) \subseteq Sanitized(req[z].in.list)
  BY ClientOfType DEF IInv, RequestInv, SoundRequest
<1>2. req[z].in.kind \in {"redirect_uris", "scopes"}
  BY <1>1, ConstantsAssumption DEF Input, Kinds
<1>3. \A i \in req[z].ins : i.name \in OfKind(req[z].in.kind)
  BY <1>1, ConstantsAssumption DEF NamesOf, Sanitized
<1>4. URIs \cap Scopes = {}
  BY ConstantsAssumption
<1> QED
  BY <1>2, <1>3, <1>4 DEF OfKind, Kinds

(* Every step leaves the settled replacements a row to rely on. *)
LEMMA FirmInvStep ==
  ASSUME RInv, [Next]_vars PROVE FirmInv'
<1> SUFFICES ASSUME ~Emptied', NEW x \in Requests, Settled(x)'
             PROVE  \E r \in Row : Firm(x, r)'
  BY DEF FirmInv
<1>1. IInv /\ QuietInv /\ KindInv /\ FirmInv
  BY DEF RInv
<1>2. ~Emptied
  <2>1. Persists
    BY <1>1, RequestsStep DEF RequestsKept
  <2>2. \A z \in Requests : req[z].in # None => req'[z].in = req[z].in
    BY <1>1, <2>1 DEF Persists, IInv, RequestInv, SoundRequest
  <2> QED
    BY <2>2 DEF Emptied, Empties
<1>3. CASE \E y \in Requests : Rival(x, y)' /\ FillRow(y)
  <2>1. PICK y \in Requests : Rival(x, y)' /\ FillRow(y)
    BY <1>3
  <2>2. PICK r \in Row : Firm(y, r)'
    BY <1>1, <2>1, FoundIsFirm DEF Rival
  <2> QED
    BY <2>1, <2>2 DEF Firm, Rival
<1>4. CASE ~\E y \in Requests : Rival(x, y)' /\ FillRow(y)
  (* The other replacements that have settled had done so before. *)
  <2>1. ASSUME NEW y \in Requests, Rival(x, y)'
        PROVE  req'[y] = req[y] /\ Settled(y)
    <3>1. req'[y].pc \in {"fill", "commit"} /\ req'[y].todo # Sanitized(req'[y].in.list)
      BY <2>1 DEF Rival, Settled
    <3>2. ~WipeRows(y)
      <4> SUFFICES ASSUME WipeRows(y) PROVE FALSE
        OBVIOUS
      <4>1. /\ req[y].pc = "wipe" /\ req[y].in.op = "set" /\ req'[y].todo = req[y].todo
            /\ req'[y].in = req[y].in
        BY <1>1, <3>1, WipeRowsEffect, PutFrame, ConcurrentGrows
      <4> QED
        BY <1>1, <3>1, <4>1 DEF IInv, RequestInv, SoundRequest
    <3>3. req'[y] = req[y]
      BY <1>1, <1>4, <2>1, <3>1, <3>2, PutFrame
    <3> QED
      BY <2>1, <3>3 DEF Rival, Settled
  <2>2. Rival(x, x)'
    BY DEF Rival
  <2>3. req'[x] = req[x] /\ Settled(x) /\ ClientOf(x)' = ClientOf(x)
    BY <2>1, <2>2 DEF ClientOf
  <2> DEFINE k == ClientOf(x)
             kind == req[x].in.kind
  <2>4. k \in ClientIDs /\ req[x].pc \in {"fill", "commit"}
    BY <1>1, <2>3, ClientOfType DEF Settled
  <2>5. PICK r \in Row : Firm(x, r)
    BY <1>1, <1>2, <2>3 DEF FirmInv
  <2>6. r \in rows[k] /\ r.name \in OfKind(kind)
    BY <2>5 DEF Firm, Committed
  <2>7. ASSUME NEW y \in Requests, Rival(x, y)' PROVE Rival(x, y)
    <3>1. req'[y] = req[y] /\ Settled(y)
      BY <2>1, <2>7
    <3> QED
      BY <2>3, <2>7, <3>1 DEF Rival, ClientOf
  <2>8. CASE r \in rows'[k]
    <3>1. r \in Committed(k, kind)'
      BY <2>3, <2>6, <2>8 DEF Committed
    <3>2. \A y \in Requests : Rival(x, y)' => r \notin req'[y].dels
      BY <2>1, <2>5, <2>7 DEF Firm
    <3> QED
      BY <3>1, <3>2 DEF Firm
  <2>9. CASE r \notin rows'[k]
    <3>1. PICK z \in Requests :
            /\ req[z].pc = "commit" /\ ClientOf(z) = k /\ r \in req[z].dels
            /\ req[z].in.op = "set" /\ req[z].todo = {} /\ Sanitized(req[z].in.list) # {}
            /\ req'[z].pc \in {"ended", "reread"}
            /\ rows'[k] = (rows[k] \ req[z].dels) \cup req[z].ins
      BY <1>1, <1>2, <2>4, <2>6, <2>9, RowsGo
    <3>2. req[z].in.kind = kind
      <4>1. r.name \in OfKind(req[z].in.kind)
        BY <1>1, <3>1 DEF KindInv
      <4>2. kind \in Kinds /\ kind # "both"
        BY <1>1, <2>4, KindsApart DEF Kinds
      <4> QED
        BY <1>1, <2>6, <3>1, <4>1, <4>2, KindsApart
    <3>3. req[z].ins # {}
      <4>1. Settled(z) => Rival(x, z)
        BY <3>1, <3>2 DEF Rival
      <4> QED
        BY <2>5, <3>1, <4>1 DEF Firm, Settled
    <3>4. PICK i \in req[z].ins : TRUE
      BY <3>3
    <3>5. i.by = z /\ i \in Row /\ i.name \in OfKind(kind)
      <4>1. i.by = z
        BY <1>1, <3>4 DEF IInv, RequestInv, SoundRequest
      <4>2. i \in Row
        BY <1>1, <3>4 DEF IInv, TypeOK, Request
      <4>3. i.name \in OfKind(kind)
        BY <1>1, <3>1, <3>2, <3>4, KindsApart
      <4> QED
        BY <4>1, <4>2, <4>3
    <3>6. i \in Committed(k, kind)'
      BY <2>3, <3>1, <3>4, <3>5 DEF Committed
    <3>7. ASSUME NEW y \in Requests, Rival(x, y)' PROVE i \notin req'[y].dels
      <4>1. req'[y] = req[y]
        BY <2>1, <3>7
      <4>2. ~Quiet(i)
        BY <3>1, <3>5, ConstantsAssumption DEF Quiet
      <4> QED
        BY <1>1, <4>1, <4>2 DEF QuietInv
    <3> QED
      BY <3>5, <3>6, <3>7 DEF Firm
  <2> QED
    BY <2>8, <2>9
<1> QED
  BY <1>3, <1>4

(* The invariant holds in every reachable state. *)
THEOREM RInvariance == Spec => []RInv
<1>1. RInv /\ [Next]_vars => RInv'
  <2> SUFFICES ASSUME RInv, [Next]_vars PROVE RInv'
    OBVIOUS
  <2> QED
    BY NextInv, QuietInvStep, KindInvStep, FirmInvStep DEF RInv
<1> QED
  BY <1>1, RInit, PTL DEF Spec

(***************************************************************************)
(* A list of a client is not found empty that only gets lists that are     *)
(* not: replacements are transactions, and do not delete the rows that     *)
(* others have counted on.  (client_repository.go:196-217, 284-305)        *)
(***************************************************************************)
THEOREM NotFoundEmpty == Spec => NeverFoundEmpty
<1> DEFINE Kept ==
        \A k \in ClientIDs, kind \in Kinds :
           Committed(k, kind) # {} /\ Committed(k, kind)' = {} =>
               \E x \in Requests : req[x].in # None /\ Empties(x)
<1>1. ASSUME RInv, [Next]_vars PROVE Kept
  <2> SUFFICES ASSUME NEW k \in ClientIDs, NEW kind \in Kinds, ~Emptied,
                      NEW r \in rows[k], r.name \in OfKind(kind), Committed(k, kind)' = {}
               PROVE  FALSE
    BY DEF Emptied, Committed
  <2>1. IInv /\ QuietInv /\ KindInv /\ FirmInv
    BY <1>1 DEF RInv
  <2>2. \A s \in rows'[k] : s.name \notin OfKind(kind)
    BY DEF Committed
  <2>3. PICK z \in Requests :
          /\ req[z].pc = "commit" /\ ClientOf(z) = k /\ r \in req[z].dels
          /\ req[z].in.op = "set" /\ req[z].todo = {} /\ Sanitized(req[z].in.list) # {}
          /\ rows'[k] = (rows[k] \ req[z].dels) \cup req[z].ins
    BY <1>1, <2>1, <2>2, RowsGo
  <2>4. OfKind(req[z].in.kind) \subseteq OfKind(kind)
    BY <2>1, <2>3, KindsApart DEF KindInv
  <2>5. CASE req[z].ins # {}
    BY <2>1, <2>2, <2>3, <2>4, <2>5, KindsApart
  <2>6. CASE req[z].ins = {}
    <3>1. Settled(z)
      BY <2>3, <2>6 DEF Settled
    <3>2. PICK s \in Row : Firm(z, s)
      BY <2>1, <3>1 DEF FirmInv
    <3>3. s \in rows[k] /\ s.name \in OfKind(req[z].in.kind) /\ s \notin req[z].dels
      BY <2>3, <3>1, <3>2 DEF Firm, Committed, Rival
    <3> QED
      BY <2>2, <2>3, <2>4, <3>3
  <2> QED
    BY <2>5, <2>6
<1>2. RInv /\ [Next]_vars => [Kept]_vars
  BY <1>1
<1> QED
  BY <1>2, RInvariance, PTL DEF Spec, NeverFoundEmpty
-----------------------------------------------------------------------------
(***************************************************************************)
(* What the requests have to wait for.                                     *)
(***************************************************************************)

(* A request waits for replacements and deletions only, for what they hold. *)
LEMMA WaitsForHolder ==
  ASSUME IInv, NEW x \in Requests, NEW y \in Requests, Waits(x, y)
  PROVE  /\ req[x].pc \in Active \ {"commit"}
         /\ req[y].pc \in {"fill", "commit", "cascade"}
<1>1. req[x].pc \in Active \ {"commit"} /\ req[y].pc # "idle"
  BY DEF Waits
<1>2. req[y].pc = "cascade" \/ req[y].dels # {} \/ req[y].ins # {}
  <2>1. \A name : name \in NamesOf(req[y].dels \cup req[y].ins) =>
                     req[y].dels # {} \/ req[y].ins # {}
    BY DEF NamesOf
  <2> QED
    BY <2>1 DEF Waits, InsertWaits
<1>3. SoundRequest(y, req[y])
  BY DEF IInv, RequestInv
<1> QED
  BY <1>1, <1>2, <1>3 DEF SoundRequest

(***************************************************************************)
(* Only a replacement that is inserting, or the deletion of a client, is   *)
(* ever ended by PostgreSQL to break a deadlock.  Registrations, additions *)
(* and removals wait, but commit each statement by itself, so that nobody  *)
(* waits for them.  (client_repository.go:115-129, 196-220, 284-305)       *)
(***************************************************************************)
VictimsHoldLocks ==
    \A x \in Requests : Deadlocked(x) => req[x].pc \in {"fill", "cascade"}

THEOREM Victims == Spec => []VictimsHoldLocks
<1>1. IInv => VictimsHoldLocks
  <2> SUFFICES ASSUME IInv, NEW x \in Requests, Deadlocked(x)
               PROVE  req[x].pc \in {"fill", "cascade"}
    BY DEF VictimsHoldLocks
  <2> DEFINE Holders == {y \in Requests : req[y].pc \in {"fill", "commit", "cascade"}}
  <2>1. Company(x, Holders)
    BY WaitsForHolder DEF Company
  <2>2. x \in Holders
    BY <2>1 DEF Deadlocked
  <2>3. req[x].pc # "commit"
    <3> SUFFICES ASSUME req[x].pc = "commit" PROVE FALSE
      OBVIOUS
    <3>1. \A y \in Requests : ~Waits(x, y)
      BY WaitsForHolder
    <3>2. Company(x, {})
      BY <3>1 DEF Company
    <3> QED
      BY <3>2 DEF Deadlocked
  <2> QED
    BY <2>2, <2>3
<1> QED
  BY <1>1, Invariance, PTL

(* All whom x waits for, and whom these wait for. *)
Reached(x) == {y \in Requests : \A S \in SUBSET Requests : Company(x, S) => y \in S}

LEMMA ReachedCloses ==
  ASSUME NEW x \in Requests
  PROVE  /\ \A y \in Requests : Waits(x, y) => y \in Reached(x)
         /\ \A y \in Reached(x) : Reached(y) \subseteq Reached(x)
         /\ Deadlocked(x) <=> x \in Reached(x)
<1>1. ASSUME NEW y \in Requests, Waits(x, y), NEW S \in SUBSET Requests, Company(x, S)
      PROVE  y \in S
  BY <1>1 DEF Company
<1>2. ASSUME NEW y \in Reached(x), NEW S \in SUBSET Requests, Company(x, S)
      PROVE  Company(y, S)
  <2>1. y \in S
    BY <1>2 DEF Reached
  <2> QED
    BY <1>2, <2>1 DEF Company
<1>3. ASSUME NEW y \in Reached(x), NEW z \in Reached(y) PROVE z \in Reached(x)
  BY <1>2, <1>3 DEF Reached
<1> QED
  BY <1>1, <1>3 DEF Reached, Deadlocked

(* Where everyone of finitely many waits for one of them, someone waits for itself. *)
LEMMA WaitingCircle ==
  ASSUME IsFiniteSet(Requests), NEW A \in SUBSET Requests, A # {},
         \A x \in A : \E y \in A : Waits(x, y)
  PROVE  \E x \in A : Deadlocked(x)
<1> DEFINE T == {Reached(x) : x \in A}
           Smaller == StrictSubsetOrdering(Requests)
<1>1. T \subseteq SUBSET Requests /\ T # {}
  <2>1. \A x \in A : Reached(x) \subseteq Requests
    BY DEF Reached
  <2> QED
    BY <2>1
<1>2. IsWellFoundedOn(Smaller, SUBSET Requests)
  BY FS_StrictSubsetOrderingWellFounded, FS_FiniteSubsetsOfFinite
<1> HIDE DEF Smaller
<1>3. PICK R \in T : \A Q \in T : <<Q, R>> \notin Smaller
  BY <1>1, <1>2, WFMin
<1>4. PICK x \in A : R = Reached(x)
  BY <1>3
<1>5. PICK y \in A : Waits(x, y)
  BY <1>4
<1>6. y \in Reached(x) /\ Reached(y) \subseteq Reached(x)
  BY <1>5, ReachedCloses
<1>7. ~(Reached(y) \subseteq Reached(x) /\ Reached(y) # Reached(x))
  <2>1. <<Reached(y), Reached(x)>> \notin Smaller
    BY <1>3, <1>4
  <2>2. Reached(y) \in SUBSET Requests /\ Reached(x) \in SUBSET Requests
    BY DEF Reached
  <2> QED
    BY <2>1, <2>2 DEF Smaller, StrictSubsetOrdering
<1>8. y \in Reached(y)
  BY <1>6, <1>7
<1> QED
  BY <1>8, ReachedCloses
-----------------------------------------------------------------------------
(***************************************************************************)
(* Requests get on: no statement leads back to an earlier one.             *)
(***************************************************************************)
Stage ==
    [idle |-> 0, check |-> 1, insert |-> 2, snap |-> 2, delete |-> 2, add |-> 3, wipe |-> 3,
     cascade |-> 3, fill |-> 4, commit |-> 5, reread |-> 6, ended |-> 7]

Advances(x) ==
    \/ Stage[req'[x].pc] > Stage[req[x].pc]
    \/ /\ req'[x].pc = req[x].pc
       /\ req'[x].todo \subseteq req[x].todo /\ req'[x].todo # req[x].todo

(* There is something to insert when an INSERT is next. *)
Pending(r) ==
    /\ r.pc \in {"add", "fill"} => r.todo # {}
    /\ r.pc = "check" /\ r.in.op = "add" => r.in.list # {}

PendingInv == \A x \in Requests : Pending(req[x])

LEMMA Stages ==
  /\ Stage["idle"] = 0 /\ Stage["check"] = 1
  /\ Stage["insert"] = 2 /\ Stage["snap"] = 2 /\ Stage["delete"] = 2
  /\ Stage["add"] = 3 /\ Stage["wipe"] = 3 /\ Stage["cascade"] = 3
  /\ Stage["fill"] = 4 /\ Stage["commit"] = 5 /\ Stage["reread"] = 6 /\ Stage["ended"] = 7
  BY DEF Stage

LEMMA BeginAdvances ==
  ASSUME IInv, NEW x \in Requests, Begin(x)
  PROVE  Advances(x) /\ Pending(req'[x])
<1>1. req[x].pc = "idle" /\ req'[x].pc \in {"ended", "check"}
  BY BeginMoves DEF Begin
<1>2. PICK in \in Inputs :
        req' = [req EXCEPT ![x] =
           [@ EXCEPT !.in = in, !.after = {y \in Requests : req[y].pc = "ended"},
                     !.pc = IF in.op = "add" /\ in.list = {} THEN "ended" ELSE "check",
                     !.status = IF in.op = "add" /\ in.list = {} THEN 400 ELSE 0]]
  BY DEF Begin
<1>3. req'[x].in = in /\ (in.op = "add" /\ in.list = {} => req'[x].pc = "ended")
  BY <1>2 DEF IInv, TypeOK, Request
<1> QED
  BY <1>1, <1>3, Stages DEF Advances, Pending

LEMMA CheckClientAdvances ==
  ASSUME IInv, PendingInv, NEW x \in Requests, CheckClient(x)
  PROVE  Advances(x) /\ Pending(req'[x])
<1>1. /\ req[x].pc = "check" /\ req'[x].pc \in {"ended", "insert", "delete", "add", "snap"}
      /\ req'[x].pc = "add" => req[x].in.op = "add"
  BY CheckClientMoves DEF CheckClient, Runs
<1>2. req'[x].pc = "add" => req'[x].todo = req[x].in.list
  BY CheckClientEffect
<1> QED
  BY <1>1, <1>2, Stages DEF Advances, Pending, PendingInv

LEMMA InsertClientAdvances ==
  ASSUME IInv, NEW x \in Requests, InsertClient(x)
  PROVE  Advances(x) /\ Pending(req'[x])
<1>1. req[x].pc = "insert" /\ req'[x].pc \in {"ended", "add"} /\ TypeOK
  BY InsertClientMoves DEF InsertClient, Runs, IInv
<1>2. \/ req[x].todo # {} /\ Goes(x, "add", req[x].todo)
      \/ Answers(x, 201)
      \/ Fails(x)
  BY DEF InsertClient
<1>3. req'[x].pc = "add" => req'[x].todo # {}
  BY <1>1, <1>2, GoesTo, AnswersTo, FailsTo
<1> QED
  BY <1>1, <1>3, Stages DEF Advances, Pending

LEMMA AddRowAdvances ==
  ASSUME IInv, NEW x \in Requests, AddRow(x)
  PROVE  Advances(x) /\ Pending(req'[x])
<1>1. req[x].pc = "add" /\ req'[x].pc \in {"ended", "add", "reread"} /\ TypeOK
  BY AddRowMoves DEF AddRow, Inserts, IInv
<1>2. PICK name \in Entries :
        /\ name \in Upcoming(x)
        /\ \/ req[x].todo \ {name} # {} /\ Goes(x, "add", req[x].todo \ {name})
           \/ Goes(x, "reread", {})
           \/ Answers(x, 201) \/ Answers(x, 400) \/ Fails(x)
  BY DEF AddRow, Inserts
<1>3. name \in req[x].todo
  BY <1>2 DEF Upcoming
<1>4. req'[x].pc = "add" => req'[x].todo # {} /\ req'[x].todo = req[x].todo \ {name}
  BY <1>1, <1>2, GoesTo, AnswersTo, FailsTo
<1> QED
  BY <1>1, <1>3, <1>4, Stages DEF Advances, Pending

LEMMA WipeRowsAdvances ==
  ASSUME IInv, NEW x \in Requests, WipeRows(x)
  PROVE  Advances(x) /\ Pending(req'[x])
<1>1. req[x].pc = "wipe" /\ req'[x].pc \in {"ended", "fill", "commit"}
  BY WipeRowsMoves DEF WipeRows, Runs
<1>2. req'[x].pc = "fill" => req'[x].todo # {}
  BY WipeRowsEffect
<1> QED
  BY <1>1, <1>2, Stages DEF Advances, Pending

LEMMA FillRowAdvances ==
  ASSUME IInv, NEW x \in Requests, FillRow(x)
  PROVE  Advances(x) /\ Pending(req'[x])
<1>1. req[x].pc = "fill" /\ req'[x].pc \in {"ended", "fill", "commit"}
  BY FillRowMoves DEF FillRow, Inserts
<1>2. ASSUME req'[x].pc = "fill"
      PROVE  \E name \in req[x].todo : req'[x].todo # {} /\ req'[x].todo = req[x].todo \ {name}
  BY <1>2, FillRowEffect
<1> QED
  BY <1>1, <1>2, Stages DEF Advances, Pending

LEMMA StepAdvances ==
  ASSUME IInv, PendingInv, NEW x \in Requests, Begin(x) \/ Step(x)
  PROVE  Advances(x) /\ Pending(req'[x])
<1>1. CASE StartDelete(x)
  <2>1. req[x].pc = "snap" /\ req'[x].pc \in {"ended", "wipe"}
    BY <1>1, StartDeleteMoves DEF StartDelete, Runs
  <2> QED
    BY <2>1, Stages DEF Advances, Pending
<1>2. CASE DeleteClient(x)
  <2>1. req[x].pc = "delete" /\ req'[x].pc \in {"ended", "cascade"}
    BY <1>2, DeleteClientMoves DEF DeleteClient, Runs
  <2> QED
    BY <2>1, Stages DEF Advances, Pending
<1>3. CASE Commit(x)
  <2>1. req[x].pc = "commit" /\ req'[x].pc \in {"ended", "reread"}
    BY <1>3, CommitMoves DEF Commit, Runs
  <2> QED
    BY <2>1, Stages DEF Advances, Pending
<1>4. CASE RemoveRow(x) \/ Reread(x) \/ Cascade(x) \/ BreakDeadlock(x)
  <2>1. req[x].pc \in Active
    BY <1>4 DEF RemoveRow, Reread, Cascade, BreakDeadlock, Runs, Active
  <2>2. req'[x].pc = "ended"
    BY <1>4, RemoveRowMoves, RereadMoves, CascadeMoves, BreakDeadlockMoves
  <2> QED
    BY <2>1, <2>2, Stages DEF Advances, Pending, Active
<1> QED
  BY <1>1, <1>2, <1>3, <1>4, BeginAdvances, CheckClientAdvances, InsertClientAdvances,
     AddRowAdvances, WipeRowsAdvances, FillRowAdvances DEF Step

(* Every step of a request is one. *)
LEMMA NextAdvances ==
  ASSUME IInv, PendingInv, [Next]_vars, NEW x \in Requests, req'[x] # req[x]
  PROVE  Advances(x) /\ Pending(req'[x])
<1>1. CASE Begin(x) \/ Step(x)
  BY <1>1, StepAdvances
<1>2. CASE Crash
  <2>1. req[x].pc \in Active /\ req'[x] = Over(x, 0)
    BY <1>2 DEF Crash
  <2>2. req'[x].pc = "ended"
    BY <2>1 DEF Over
  <2> QED
    BY <2>1, <2>2, Stages DEF Advances, Pending, Active
<1>3. ASSUME NEW y \in Requests, y # x, Begin(y) \/ Step(y) PROVE FALSE
  BY <1>3, RequestsStep
<1> QED
  BY <1>1, <1>2, <1>3 DEF Next, vars

(* Whoever is in a series of statements has one to run. *)
THEOREM PendingInvariance == Spec => [](IInv /\ PendingInv)
<1>1. Init => PendingInv
  BY DEF Init, Idle, PendingInv, Pending
<1>2. IInv /\ PendingInv /\ [Next]_vars => PendingInv'
  BY NextAdvances DEF PendingInv
<1> QED
  BY <1>1, <1>2, Invariance, PTL DEF Spec

(***************************************************************************)
(* A request never comes back to a statement it has run, but for the next  *)
(* entry of its list: with its last entry inserted, with an error, or as   *)
(* the victim of a deadlock it is over, and stays so.                      *)
(* (client_service.go:38-146, 198-378)                                     *)
(***************************************************************************)
EveryStepAdvances == [][\A x \in Requests : req'[x] # req[x] => Advances(x)]_vars

THEOREM RequestsAdvance == Spec => EveryStepAdvances
<1>1. IInv /\ PendingInv /\ [Next]_vars =>
         [\A x \in Requests : req'[x] # req[x] => Advances(x)]_vars
  BY NextAdvances
<1> QED
  BY <1>1, PendingInvariance, PTL DEF Spec, EveryStepAdvances

(***************************************************************************)
(* Unfinished requests, however many, do not all wait: one of them has a   *)
(* statement to run, or is the victim of a deadlock.  Only what is held by *)
(* requests that are not over makes others wait.                           *)
(* (client_repository.go:115-129, 196-220, 284-305)                        *)
(***************************************************************************)
THEOREM NobodyWaitsForEver ==
  ASSUME IsFiniteSet(Requests) PROVE Spec => []NoLastingWait
<1>1. IInv /\ PendingInv => NoLastingWait
  <2> SUFFICES ASSUME IInv, PendingInv, NEW q \in Requests, req[q].pc \in Active,
                      \A x \in Requests : req[x].pc \in Active => ~CanGo(x)
               PROVE  FALSE
    BY DEF NoLastingWait
  <2> DEFINE A == {x \in Requests : req[x].pc \in Active}
  <2>1. ASSUME NEW x \in A PROVE \E y \in A : Waits(x, y)
    <3>1. PICK y \in Requests : Waits(x, y)
      <4>1. CASE req[x].pc \notin {"add", "fill"}
        BY <2>1, <4>1 DEF CanGo, Runs
      <4>2. CASE req[x].pc \in {"add", "fill"}
        <5>1. PICK name : name \in Upcoming(x)
          BY <2>1, <4>2 DEF PendingInv, Pending, Upcoming
        <5>2. name \in Entries
          BY <2>1, <5>1 DEF Upcoming, IInv, TypeOK, Request
        <5>3. PICK y \in Requests : InsertWaits(x, y, name)
          BY <2>1, <4>2, <5>1, <5>2 DEF CanGo, Inserts
        <5> QED
          BY <2>1, <4>2, <5>1, <5>3 DEF Waits, InsertWaits
      <4> QED
        BY <4>1, <4>2
    <3>2. y \in A
      BY <2>1, <3>1, WaitsForHolder DEF Active
    <3> QED
      BY <3>1, <3>2
  <2>2. A \in SUBSET Requests /\ q \in A
    OBVIOUS
  <2> HIDE DEF A
  <2>3. PICK x \in A : Deadlocked(x)
    BY <2>1, <2>2, WaitingCircle
  <2> QED
    BY <2>3 DEF A, CanGo
<1> QED
  BY <1>1, PendingInvariance, PTL
=============================================================================
