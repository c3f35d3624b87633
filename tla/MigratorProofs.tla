-------------------------- MODULE MigratorProofs --------------------------
(***************************************************************************)
(* Proofs about Migrator, for any number of instances, builds, versions,   *)
(* crashes and failed calls: the primary key on the rank is enough.        *)
(***************************************************************************)
EXTENDS Migrator, FiniteSetTheorems, TLAPS

(* As many versions as rows, and as many ranks. *)
CountInv ==
    /\ IsFiniteSet(history)
    /\ IsFiniteSet(VersionsOf(history))
    /\ Cardinality(VersionsOf(history)) = Cardinality(history)

(* What an instance believes to be applied is applied. *)
SeenInv == \A i \in Instances : applied[i] \subseteq VersionsOf(history)

(* Users are stored once table users has got its final form. *)
UsersInv == users => Destructive \subseteq VersionsOf(history)

(* Versions up to the highest applied are applied, in their order. *)
OrderInv ==
    LinearBuilds =>
        /\ \A v \in VersionsOf(history), w \in Versions : w < v => w \in VersionsOf(history)
        /\ \A r, s \in history : r.rank < s.rank => r.version < s.version

(* The inductive invariant. *)
IInv ==
    /\ TypeOK
    /\ CountInv
    /\ RanksContiguous
    /\ AppliedOnce
    /\ SeenInv
    /\ UsersInv
    /\ OrderInv
    /\ UpMeansMigrated

(* The invariant holds on an empty database. *)
LEMMA InitInv == Init => IInv
  <1> SUFFICES ASSUME Init PROVE IInv
    OBVIOUS
  <1>1. history = {} /\ VersionsOf(history) = {} /\ RanksOf(history) = {}
    BY DEF Init, VersionsOf, RanksOf
  <1>2. TypeOK
    <2>1. /\ history \subseteq Row
          /\ applied \in [Instances -> SUBSET Versions]
          /\ files \in [Instances -> Binaries \cup {{}}]
      BY DEF Init
    <2>2. faults \in 0 .. MaxFaults
      BY VersionsAssumption DEF Init
    <2>3. QED
      BY <2>1, <2>2 DEF Init, TypeOK
  <1>3. CountInv
    BY <1>1, FS_EmptySet DEF CountInv
  <1>4. RanksContiguous /\ AppliedOnce /\ OrderInv
    BY <1>1, FS_EmptySet DEF RanksContiguous, AppliedOnce, OrderInv
  <1>5. SeenInv /\ UsersInv /\ UpMeansMigrated
    BY DEF Init, SeenInv, UsersInv, UpMeansMigrated
  <1>6. QED
    BY <1>2, <1>3, <1>4, <1>5 DEF IInv

(***************************************************************************)
(* The key to all of it: an instance whose rank is free has seen every row *)
(* there is, so what it believes to be pending is pending.                 *)
(***************************************************************************)
LEMMA FreeRankMeansUpToDate ==
  ASSUME IInv, NEW i \in Instances, RankFree(Rank(i))
  PROVE  /\ applied[i] = VersionsOf(history)
         /\ Rank(i) = Cardinality(history) + 1
  <1>1. Cardinality(history) \in Nat
    BY FS_CardinalityType DEF IInv, CountInv
  <1>2. /\ IsFiniteSet(applied[i])
        /\ Cardinality(applied[i]) <= Cardinality(VersionsOf(history))
        /\ Cardinality(VersionsOf(history)) = Cardinality(applied[i]) =>
              VersionsOf(history) = applied[i]
    BY FS_Subset DEF IInv, CountInv, SeenInv
  <1>3. Cardinality(applied[i]) \in Nat
    BY <1>2, FS_CardinalityType
  <1>4. Cardinality(applied[i]) + 1 \notin 1 .. Cardinality(history)
    BY DEF IInv, RanksContiguous, RankFree, Rank
  <1>5. Cardinality(VersionsOf(history)) = Cardinality(history)
    BY DEF IInv, CountInv
  <1>6. Cardinality(applied[i]) = Cardinality(history)
    BY <1>1, <1>2, <1>3, <1>4, <1>5
  <1>7. QED
    BY <1>2, <1>5, <1>6 DEF Rank

(* What a committed migration leaves in the database. *)
LEMMA CommitsInv ==
  ASSUME IInv, NEW i \in Instances, pc[i] # "down",
         NEW v \in Versions, NextPending(i, v), Commits(i, v)
  PROVE  /\ v \notin VersionsOf(history)
         /\ VersionsOf(history)' = VersionsOf(history) \cup {v}
         /\ history' \subseteq Row
         /\ users => users'
         /\ users' => users
         /\ CountInv' /\ RanksContiguous' /\ AppliedOnce' /\ UsersInv' /\ OrderInv'
  <1> DEFINE row == [rank |-> Rank(i), version |-> v, by |-> i]
             n == Cardinality(history)
  <1>1. applied[i] = VersionsOf(history) /\ Rank(i) = n + 1
    BY FreeRankMeansUpToDate DEF Commits
  <1>2. v \in files[i] /\ v \notin VersionsOf(history)
    BY <1>1 DEF NextPending, Pending
  <1>3. n \in Nat
    BY FS_CardinalityType DEF IInv, CountInv
  <1>4. row.rank = n + 1 /\ row.version = v /\ row \in Row
    BY <1>1, <1>3 DEF Row
  <1>5. history' = history \cup {row}
    BY DEF Commits
  <1> HIDE DEF row, n
  <1>6. row \notin history
    BY <1>2, <1>4 DEF VersionsOf
  <1>7. VersionsOf(history)' = VersionsOf(history) \cup {v}
    BY <1>4, <1>5 DEF VersionsOf
  <1>8. RanksOf(history)' = RanksOf(history) \cup {n + 1}
    BY <1>4, <1>5 DEF RanksOf
  <1>9. /\ IsFiniteSet(history') /\ Cardinality(history') = n + 1
        /\ IsFiniteSet(VersionsOf(history)')
        /\ Cardinality(VersionsOf(history)') = n + 1
    <2>1. /\ IsFiniteSet(history) /\ Cardinality(history) = n
          /\ IsFiniteSet(VersionsOf(history)) /\ Cardinality(VersionsOf(history)) = n
      BY DEF IInv, CountInv, n
    <2>2. IsFiniteSet(history') /\ Cardinality(history') = n + 1
      BY <1>5, <1>6, <2>1, FS_AddElement
    <2> QED
      BY <1>2, <1>7, <2>1, <2>2, FS_AddElement
  <1>10. CountInv'
    BY <1>9 DEF CountInv
  <1>11. RanksOf(history) = 1 .. n /\ \A r \in history : r.rank \in 1 .. n
    BY DEF IInv, RanksContiguous, RanksOf, n
  <1>12. RanksContiguous'
    <2>1. RanksOf(history)' = 1 .. Cardinality(history)'
      BY <1>3, <1>8, <1>9, <1>11
    <2>2. \A r, s \in history' : r.rank = s.rank => r = s
      BY <1>3, <1>4, <1>5, <1>11 DEF IInv, RanksContiguous
    <2>3. QED
      BY <2>1, <2>2 DEF RanksContiguous
  <1>13. AppliedOnce'
    BY <1>2, <1>4, <1>5 DEF IInv, AppliedOnce, VersionsOf
  <1>14. (users => users') /\ (users' => users)
    BY <1>2 DEF IInv, UsersInv, Commits
  <1>15. UsersInv'
    BY <1>7, <1>14 DEF IInv, UsersInv
  <1>16. OrderInv'
    <2> SUFFICES ASSUME LinearBuilds
                 PROVE  /\ \A u \in VersionsOf(history)', w \in Versions :
                              w < u => w \in VersionsOf(history)'
                        /\ \A r, s \in history' : r.rank < s.rank => r.version < s.version
      BY DEF OrderInv, LinearBuilds
    <2>1. /\ \A u \in VersionsOf(history), w \in Versions : w < u => w \in VersionsOf(history)
          /\ \A r, s \in history : r.rank < s.rank => r.version < s.version
      BY DEF IInv, OrderInv
    <2>2. files[i] \in Binaries /\ \A w \in Versions : w < v => w \in files[i]
      BY <1>2 DEF IInv, TypeOK, LinearBuilds
    <2>3. \A w \in Versions : w < v => w \in VersionsOf(history)
      BY <1>1, <2>2, VersionsAssumption DEF NextPending, Pending
    <2>4. \A r \in history : r.version \in Versions /\ r.version < v
      <3>1. \A r \in history : r.version \in VersionsOf(history) /\ r.version \in Versions
        BY DEF VersionsOf, IInv, TypeOK, Row
      <3>2. \A r \in history : r.version # v /\ ~(v < r.version)
        BY <1>2, <2>1, <3>1
      <3>3. Versions \subseteq Int
        BY VersionsAssumption
      <3>4. \A a, b \in Int : a # b /\ ~(b < a) => a < b
        OBVIOUS
      <3>5. \A r \in history : r.version \in Int /\ v \in Int
        BY <3>1, <3>3
      <3>6. QED
        BY <3>1, <3>2, <3>4, <3>5
    <2>5. \A r, s \in history' : r.rank < s.rank => r.version < s.version
      <3> SUFFICES ASSUME NEW r \in history', NEW s \in history', r.rank < s.rank
                   PROVE  r.version < s.version
        OBVIOUS
      <3>1. CASE r \in history /\ s \in history
        BY <3>1, <2>1
      <3>2. CASE r \in history /\ s = row
        BY <3>2, <1>4, <2>4
      <3>3. CASE r = row
        BY <3>3, <1>3, <1>4, <1>5, <1>11
      <3>4. QED
        BY <1>5, <3>1, <3>2, <3>3
    <2>6. QED
      BY <1>7, <2>1, <2>3, <2>5
  <1>17. history' \subseteq Row
    BY <1>4, <1>5 DEF IInv, TypeOK
  <1>18. QED
    BY <1>2, <1>7, <1>10, <1>12, <1>13, <1>14, <1>15, <1>16, <1>17

(* A step that leaves the history alone leaves what is said of it alone. *)
LEMMA HistoryUnchanged ==
  ASSUME IInv, history' = history, users' => users
  PROVE  /\ VersionsOf(history)' = VersionsOf(history)
         /\ CountInv' /\ RanksContiguous' /\ AppliedOnce' /\ UsersInv' /\ OrderInv'
  BY DEF IInv, VersionsOf, RanksOf, CountInv, RanksContiguous, AppliedOnce, UsersInv,
         OrderInv, LinearBuilds

(* An instance that exits forgets its build and what it has read. *)
LEMMA ExitsInv ==
  ASSUME IInv, NEW i \in Instances, Exits(i),
         VersionsOf(history) \subseteq VersionsOf(history)'
  PROVE  /\ pc' \in [Instances -> {"down", "up"} \cup Starting]
         /\ files' \in [Instances -> Binaries \cup {{}}]
         /\ applied' \in [Instances -> SUBSET Versions]
         /\ SeenInv' /\ UpMeansMigrated'
  BY DEF IInv, TypeOK, Exits, Goes, SeenInv, UpMeansMigrated, VersionsOf

(* The steps of an instance keep the invariant. *)
LEMMA StepInv ==
  ASSUME IInv, NEW i \in Instances, Step(i) \/ Fault(i)
  PROVE  IInv'
  <1> USE DEF IInv
  <1>1. CASE Start(i)
    <2>1. PICK B \in Binaries : files' = [files EXCEPT ![i] = B]
      BY <1>1 DEF Start
    <2>2. TypeOK'
      BY <1>1, <2>1 DEF Start, TypeOK, Goes, Starting
    <2>3. SeenInv' /\ UpMeansMigrated'
      BY <1>1, <2>1 DEF Start, TypeOK, Goes, SeenInv, UpMeansMigrated, VersionsOf
    <2>4. QED
      BY <1>1, <2>2, <2>3, HistoryUnchanged DEF Start
  <1>2. CASE EnsureTable(i)
    <2>1. TypeOK' /\ SeenInv' /\ UpMeansMigrated'
      BY <1>2 DEF EnsureTable, TypeOK, Goes, Starting, SeenInv, UpMeansMigrated, VersionsOf
    <2>2. QED
      BY <1>2, <2>1, HistoryUnchanged DEF EnsureTable
  <1>3. CASE CreateTable(i)
    <2>1. /\ history' = history /\ users' = users /\ faults' = faults
          /\ CountInv' /\ RanksContiguous' /\ AppliedOnce' /\ UsersInv' /\ OrderInv'
          /\ VersionsOf(history)' = VersionsOf(history)
      BY <1>3, HistoryUnchanged DEF CreateTable
    <2>2. TypeOK' /\ SeenInv' /\ UpMeansMigrated'
      <3>1. CASE Exits(i) /\ UNCHANGED table
        BY <2>1, <3>1, ExitsInv DEF TypeOK
      <3>2. CASE Goes(i, "query") /\ table' = TRUE /\ UNCHANGED <<files, applied>>
        BY <2>1, <3>2 DEF TypeOK, Goes, Starting, SeenInv, UpMeansMigrated
      <3>3. QED
        BY <1>3, <3>1, <3>2 DEF CreateTable
    <2>3. QED
      BY <2>1, <2>2
  <1>4. CASE QueryApplied(i)
    <2>1. VersionsOf(history) \subseteq Versions
      BY DEF VersionsOf, TypeOK, Row
    <2>2. TypeOK' /\ SeenInv' /\ UpMeansMigrated'
      <3>1. VersionsOf(history)' = VersionsOf(history)
        BY <1>4, HistoryUnchanged DEF QueryApplied
      <3>2. QED
        BY <1>4, <2>1, <3>1
           DEF QueryApplied, TypeOK, Goes, Starting, SeenInv, UpMeansMigrated
    <2>3. QED
      BY <1>4, <2>2, HistoryUnchanged DEF QueryApplied
  <1>5. CASE ApplyMigration(i)
    <2>1. PICK v \in Versions :
            /\ NextPending(i, v)
            /\ \/ /\ Commits(i, v)
                  /\ applied' = [applied EXCEPT ![i] = @ \cup {v}]
                  /\ UNCHANGED <<pc, files>>
               \/ /\ Exits(i)
                  /\ UNCHANGED <<history, users>>
      BY <1>5 DEF ApplyMigration
    <2>2. pc[i] # "down" /\ UNCHANGED <<table, faults>>
      BY <1>5 DEF ApplyMigration
    <2>3. CASE /\ Commits(i, v)
               /\ applied' = [applied EXCEPT ![i] = @ \cup {v}]
               /\ UNCHANGED <<pc, files>>
      <3>1. /\ VersionsOf(history)' = VersionsOf(history) \cup {v}
            /\ history' \subseteq Row
            /\ users' \in BOOLEAN
            /\ CountInv' /\ RanksContiguous' /\ AppliedOnce' /\ UsersInv' /\ OrderInv'
        BY <2>1, <2>2, <2>3, CommitsInv DEF Commits
      <3>2. TypeOK' /\ SeenInv' /\ UpMeansMigrated'
        BY <2>2, <2>3, <3>1 DEF TypeOK, SeenInv, UpMeansMigrated
      <3>3. QED
        BY <3>1, <3>2
    <2>4. CASE Exits(i) /\ UNCHANGED <<history, users>>
      BY <2>2, <2>4, ExitsInv, HistoryUnchanged DEF TypeOK
    <2>5. QED
      BY <2>1, <2>3, <2>4
  <1>6. CASE FinishMigrations(i)
    <2>1. files[i] \subseteq applied[i]
      BY <1>6 DEF FinishMigrations, Pending
    <2>2. TypeOK' /\ SeenInv' /\ UpMeansMigrated'
      BY <1>6, <2>1 DEF FinishMigrations, TypeOK, Goes, SeenInv, UpMeansMigrated, VersionsOf
    <2>3. QED
      BY <1>6, <2>2, HistoryUnchanged DEF FinishMigrations
  <1>7. CASE Fault(i)
    <2>1. /\ pc[i] # "down" /\ faults' \in 0 .. MaxFaults /\ Exits(i) /\ UNCHANGED table
      BY <1>7, VersionsAssumption DEF Fault, TypeOK
    <2>2. CASE UNCHANGED <<history, users>>
      BY <2>1, <2>2, ExitsInv, HistoryUnchanged DEF TypeOK
    <2>3. CASE ~UNCHANGED <<history, users>>
      <3>1. PICK v \in Versions : NextPending(i, v) /\ Commits(i, v)
        BY <1>7, <2>3 DEF Fault
      <3>2. /\ VersionsOf(history)' = VersionsOf(history) \cup {v}
            /\ history' \subseteq Row
            /\ users' \in BOOLEAN
            /\ CountInv' /\ RanksContiguous' /\ AppliedOnce' /\ UsersInv' /\ OrderInv'
        BY <2>1, <3>1, CommitsInv DEF Commits
      <3>3. QED
        BY <2>1, <3>2, ExitsInv DEF TypeOK
    <2>4. QED
      BY <2>2, <2>3
  <1>8. QED
    BY <1>1, <1>2, <1>3, <1>4, <1>5, <1>6, <1>7 DEF Step

(* Storing a user keeps it. *)
LEMMA CreateUserInv == ASSUME IInv, CreateUser PROVE IInv'
  BY DEF CreateUser, IInv, TypeOK, CountInv, RanksContiguous, AppliedOnce, SeenInv,
         UsersInv, OrderInv, LinearBuilds, UpMeansMigrated, VersionsOf, RanksOf

(* So does a stuttering step. *)
LEMMA StutterInv == ASSUME IInv, UNCHANGED vars PROVE IInv'
  BY DEF vars, IInv, TypeOK, CountInv, RanksContiguous, AppliedOnce, SeenInv,
         UsersInv, OrderInv, LinearBuilds, UpMeansMigrated, VersionsOf, RanksOf

(* The invariant holds initially and is kept by every step. *)
THEOREM Invariance == Spec => []IInv
  <1>1. IInv /\ [Next]_vars => IInv'
    BY StepInv, CreateUserInv, StutterInv DEF Next
  <1>2. QED
    BY InitInv, <1>1, PTL DEF Spec

(* The state is what its declaration says. *)
THEOREM TypeCorrect == Spec => []TypeOK
  BY Invariance, PTL DEF IInv

(***************************************************************************)
(* No migration is committed twice: the primary key on the rank, which is  *)
(* the number of versions read, is an optimistic lock on the history.      *)
(* (migrator.go:53-66, 197-227)                                            *)
(***************************************************************************)
THEOREM OnceEach == Spec => []AppliedOnce
  BY Invariance, PTL DEF IInv

(* The ranks of the history are 1, 2, ... (migrator.go:59, 68, 99) *)
THEOREM Contiguous == Spec => []RanksContiguous
  BY Invariance, PTL DEF IInv

(* A server that serves has its build's migrations. (main.go:58-69) *)
THEOREM Migrated == Spec => []UpMeansMigrated
  BY Invariance, PTL DEF IInv

(***************************************************************************)
(* Without late merges the history is in version order, whatever builds    *)
(* race.  (migrator.go:58, 165-171)                                        *)
(***************************************************************************)
THEOREM InOrder == Spec => []AppliedInOrder
  <1>1. IInv => AppliedInOrder
    BY DEF IInv, OrderInv, AppliedInOrder
  <1>2. QED
    BY Invariance, <1>1, PTL

(***************************************************************************)
(* An instance that still takes V1 to be pending cannot drop the users     *)
(* stored since.  (V1__init_auth_schema.sql:7-12, migrator.go:221-224)     *)
(***************************************************************************)
THEOREM UsersKept == Spec => UsersSurvive
  <1>1. IInv /\ [Next]_vars => (users => users')
    <2> SUFFICES ASSUME IInv, [Next]_vars PROVE users => users'
      OBVIOUS
    <2>1. ASSUME NEW i \in Instances, ApplyMigration(i) PROVE users => users'
      BY <2>1, CommitsInv DEF ApplyMigration
    <2>2. ASSUME NEW i \in Instances, Fault(i) PROVE users => users'
      BY <2>2, CommitsInv DEF Fault
    <2>3. QED
      BY <2>1, <2>2
         DEF Next, Step, Start, EnsureTable, CreateTable, QueryApplied,
             FinishMigrations, CreateUser, vars
  <1>2. QED
    BY Invariance, <1>1, PTL DEF Spec, UsersSurvive
-----------------------------------------------------------------------------
(***************************************************************************)
(* Who loses a race, and to whom.                                          *)
(***************************************************************************)

(* What an instance has committed in its present life it knows of. *)
OwnInv ==
    \A i \in Instances : \A r \in history :
        pc[i] = "apply" /\ r.by = i => r.version \in applied[i]

(* A rank is free just when nobody has committed since the list was read. *)
LEMMA RankTellsStale ==
  ASSUME IInv, NEW i \in Instances
  PROVE  RankFree(Rank(i)) <=> applied[i] = VersionsOf(history)
  <1>1. ASSUME applied[i] = VersionsOf(history) PROVE RankFree(Rank(i))
    <2>1. Cardinality(history) \in Nat
      BY FS_CardinalityType DEF IInv, CountInv
    <2>2. Rank(i) = Cardinality(history) + 1
      BY <1>1 DEF Rank, IInv, CountInv
    <2>3. RanksOf(history) = 1 .. Cardinality(history)
      BY DEF IInv, RanksContiguous
    <2>4. QED
      BY <2>1, <2>2, <2>3 DEF RankFree
  <1>2. QED
    BY <1>1, FreeRankMeansUpToDate

(* What an instance commits it knows of, until it exits. *)
LEMMA OwnInvStep == ASSUME IInv, OwnInv, [Next]_vars PROVE OwnInv'
  <1> SUFFICES ASSUME NEW i \in Instances, NEW r \in history',
                      pc'[i] = "apply", r.by = i
               PROVE  r.version \in applied'[i]
    BY DEF OwnInv
  <1>1. TypeOK
    BY DEF IInv
  <1>2. CASE QueryApplied(i)
    <2>1. applied'[i] = VersionsOf(history) /\ r \in history
      BY <1>1, <1>2 DEF QueryApplied, TypeOK
    <2>2. QED
      BY <2>1 DEF VersionsOf
  <1>3. CASE ApplyMigration(i)
    <2>1. pc[i] = "apply" /\ ~Exits(i)
      BY <1>1, <1>3 DEF ApplyMigration, Exits, Goes, TypeOK
    <2>2. PICK v \in Versions : Commits(i, v) /\ applied' = [applied EXCEPT ![i] = @ \cup {v}]
      BY <1>3, <2>1 DEF ApplyMigration
    <2>3. applied'[i] = applied[i] \cup {v}
      BY <1>1, <2>2 DEF TypeOK
    <2>4. r \in history \/ r.version = v
      BY <2>2 DEF Commits
    <2>5. QED
      BY <2>1, <2>3, <2>4 DEF OwnInv
  <1>4. CASE Start(i) \/ EnsureTable(i) \/ CreateTable(i) \/ FinishMigrations(i) \/ Fault(i)
    BY <1>1, <1>4
       DEF Start, EnsureTable, CreateTable, FinishMigrations, Fault, Exits, Goes, TypeOK
  <1>5. CASE \E j \in Instances \ {i} : Step(j) \/ Fault(j)
    <2>1. PICK j \in Instances \ {i} : Step(j) \/ Fault(j)
      BY <1>5
    <2>2. pc'[i] = pc[i] /\ applied'[i] = applied[i]
      BY <1>1, <2>1
         DEF Step, Start, EnsureTable, CreateTable, QueryApplied, ApplyMigration,
             FinishMigrations, Fault, Exits, Goes, TypeOK
    <2>3. history' = history \/ \E v \in Versions : Commits(j, v)
      BY <2>1
         DEF Step, Start, EnsureTable, CreateTable, QueryApplied, ApplyMigration,
             FinishMigrations, Fault
    <2>4. r \in history
      BY <2>1, <2>3 DEF Commits
    <2>5. QED
      BY <2>2, <2>4 DEF OwnInv
  <1>6. CASE CreateUser \/ UNCHANGED vars
    BY <1>6 DEF CreateUser, vars, OwnInv
  <1>7. QED
    BY <1>2, <1>3, <1>4, <1>5, <1>6 DEF Next, Step

(* Every reachable state satisfies both invariants. *)
THEOREM OwnInvariance == Spec => [](IInv /\ OwnInv)
  <1>1. Init => OwnInv
    BY DEF Init, OwnInv
  <1>2. IInv /\ OwnInv /\ [Next]_vars => OwnInv'
    BY OwnInvStep
  <1>3. QED
    BY <1>1, <1>2, Invariance, PTL DEF Spec

(***************************************************************************)
(* A rank that is taken was taken by another instance, for a migration     *)
(* this one does not know of: no instance stands in its own way after a    *)
(* crash, even one in the middle of a COMMIT.  (migrator.go:53-77)         *)
(***************************************************************************)
THEOREM Beaten == Spec => []BeatenByAnother
  <1>1. IInv /\ OwnInv => BeatenByAnother
    <2> SUFFICES ASSUME IInv, OwnInv, NEW i \in Instances,
                        pc[i] = "apply", ~RankFree(Rank(i))
                 PROVE  \E r \in history : r.by # i /\ r.version \notin applied[i]
      BY DEF BeatenByAnother
    <2>1. applied[i] # VersionsOf(history) /\ applied[i] \subseteq VersionsOf(history)
      BY RankTellsStale DEF IInv, SeenInv
    <2>2. PICK r \in history : r.version \notin applied[i]
      BY <2>1 DEF VersionsOf
    <2>3. QED
      BY <2>2 DEF OwnInv
  <1>2. QED
    BY <1>1, OwnInvariance, PTL

(***************************************************************************)
(* An instance that exits although nothing has failed has lost a race:     *)
(* another session has created the history table since it looked, or       *)
(* another instance has committed a migration since it read the list.      *)
(* (migrator.go:33-114)                                                    *)
(***************************************************************************)
ExitsOnlyBeaten ==
    [][\A i \in Instances :
          pc[i] # "down" /\ pc'[i] = "down" /\ faults' = faults =>
              \/ pc[i] = "create" /\ table
              \/ /\ pc[i] = "apply"
                 /\ \E r \in history : r.by # i /\ r.version \notin applied[i]]_vars

THEOREM Losers == Spec => ExitsOnlyBeaten
  <1> DEFINE Beats(i) ==
                \/ pc[i] = "create" /\ table
                \/ /\ pc[i] = "apply"
                   /\ \E r \in history : r.by # i /\ r.version \notin applied[i]
             Lost == \A i \in Instances :
                        pc[i] # "down" /\ pc'[i] = "down" /\ faults' = faults => Beats(i)
  <1>1. ASSUME IInv, BeatenByAnother, Next PROVE Lost
    <2> SUFFICES ASSUME NEW i \in Instances, pc[i] # "down", pc'[i] = "down", faults' = faults
                 PROVE  Beats(i)
      OBVIOUS
    <2>1. TypeOK
      BY <1>1 DEF IInv
    <2>2. CASE CreateTable(i)
      BY <2>1, <2>2 DEF CreateTable, Goes, TypeOK
    <2>3. CASE ApplyMigration(i)
      <3>1. pc[i] = "apply" /\ ~RankFree(Rank(i))
        BY <2>3 DEF ApplyMigration
      <3>2. QED
        BY <1>1, <3>1 DEF BeatenByAnother
    <2>4. CASE Start(i) \/ EnsureTable(i) \/ QueryApplied(i) \/ FinishMigrations(i)
      BY <2>1, <2>4 DEF Start, EnsureTable, QueryApplied, FinishMigrations, Goes, TypeOK
    <2>5. ASSUME NEW j \in Instances, Fault(j) PROVE FALSE
      BY <2>1, <2>5, VersionsAssumption DEF Fault, TypeOK
    <2>6. ASSUME NEW j \in Instances \ {i}, Step(j) PROVE FALSE
      BY <2>1, <2>6
         DEF Step, Start, EnsureTable, CreateTable, QueryApplied, ApplyMigration,
             FinishMigrations, Exits, Goes, TypeOK
    <2>7. CASE CreateUser
      BY <2>7 DEF CreateUser
    <2>8. QED
      BY <1>1, <2>2, <2>3, <2>4, <2>5, <2>6, <2>7 DEF Next, Step
  <1>2. IInv /\ BeatenByAnother /\ [Next]_vars => [Lost]_vars
    BY <1>1
  <1>3. QED
    BY <1>2, Invariance, Beaten, PTL DEF Spec, ExitsOnlyBeaten
=============================================================================
