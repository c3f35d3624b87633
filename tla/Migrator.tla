------------------------------ MODULE Migrator ------------------------------
(***************************************************************************)
(* The schema migrations the Authorization Server runs at start-up         *)
(* (RunMigrations), with several instances starting, failing and being     *)
(* restarted at once, as in a rolling update.  No lock guards them: only   *)
(* the primary key of flyway_schema_history does.                          *)
(*                                                                         *)
(* PostgreSQL makes a transaction's writes visible at once when it         *)
(* commits, and makes an INSERT wait for another of the same key; so a     *)
(* transaction is one step here.                                           *)
(***************************************************************************)
EXTENDS Integers, FiniteSets

CONSTANTS
    Instances,    \* server processes; a restart is a new life of the same
    Versions,     \* migration versions, as their ranks in the sorted order
    Binaries,     \* sets of versions a build of the server embeds
    Destructive,  \* versions whose SQL drops table users and creates it (V1)
    MaxFaults     \* crashes and failed calls the environment has in store

ASSUME VersionsAssumption ==
    /\ Versions \subseteq Int
    /\ Binaries \subseteq SUBSET Versions
    /\ MaxFaults \in Nat

VARIABLES
    table,    \* whether flyway_schema_history exists
    history,  \* its rows: a migration's rank and version, who committed it
    users,    \* whether table users holds rows that the service created
    pc,       \* where each instance is
    files,    \* migrations embedded in the build an instance runs
    applied,  \* versions it has read as applied, or applied itself
    faults    \* crashes and failed calls so far

vars == <<table, history, users, pc, files, applied, faults>>

Row == [rank : Nat, version : Versions, by : Instances]

(* "create": it saw no history table and is about to create it. *)
Starting == {"ensure", "create", "query", "apply"}

TypeOK ==
    /\ table \in BOOLEAN
    /\ history \subseteq Row
    /\ users \in BOOLEAN
    /\ pc \in [Instances -> {"down", "up"} \cup Starting]
    /\ files \in [Instances -> Binaries \cup {{}}]
    /\ applied \in [Instances -> SUBSET Versions]
    /\ faults \in 0 .. MaxFaults

Init ==
    /\ table = FALSE
    /\ history = {}
    /\ users = FALSE
    /\ pc = [i \in Instances |-> "down"]
    /\ files = [i \in Instances |-> {}]
    /\ applied = [i \in Instances |-> {}]
    /\ faults = 0

VersionsOf(rows) == {r.version : r \in rows}
RanksOf(rows) == {r.rank : r \in rows}

Goes(i, place) == pc' = [pc EXCEPT ![i] = place]

(* RunMigrations returns an error, main exits with status 1, and nothing of *)
(* the process is left.                                                     *)
Exits(i) ==
    /\ Goes(i, "down")
    /\ files' = [files EXCEPT ![i] = {}]
    /\ applied' = [applied EXCEPT ![i] = {}]
-----------------------------------------------------------------------------
(* The container is started, with whatever build is deployed by then. *)
Start(i) ==
    /\ pc[i] = "down"
    /\ \E B \in Binaries : files' = [files EXCEPT ![i] = B]
    /\ Goes(i, "ensure")
    /\ UNCHANGED <<table, history, users, applied, faults>>

(***************************************************************************)
(* CREATE TABLE IF NOT EXISTS looks whether the table is there ...         *)
(***************************************************************************)
EnsureTable(i) ==
    /\ pc[i] = "ensure"
    /\ Goes(i, IF table THEN "query" ELSE "create")
    /\ UNCHANGED <<table, history, users, files, applied, faults>>

(***************************************************************************)
(* ... and fails on a catalog key if another session has created it since. *)
(***************************************************************************)
CreateTable(i) ==
    /\ pc[i] = "create"
    /\ \/ /\ ~table
          /\ table' = TRUE
          /\ Goes(i, "query")
          /\ UNCHANGED <<files, applied>>
       \/ table /\ Exits(i) /\ UNCHANGED table
    /\ UNCHANGED <<history, users, faults>>

(* Mutation of QueryApplied: the query's condition matches no row. *)
QueryNothing(i) ==
    /\ pc[i] = "query"
    /\ Goes(i, "apply")
    /\ UNCHANGED <<table, history, users, files, applied, faults>>

(* getAppliedVersions; the ranks to come count on from their number. *)
QueryApplied(i) ==
    /\ pc[i] = "query"
    /\ applied' = [applied EXCEPT ![i] = VersionsOf(history)]
    /\ Goes(i, "apply")
    /\ UNCHANGED <<table, history, users, files, faults>>

Pending(i) == files[i] \ applied[i]

(* Mutation of Rank: the rank of the row before. *)
RankBelow(i) == Cardinality(applied[i]) - 1

(* len(appliedVersions), and one more for each migration applied since. *)
Rank(i) == Cardinality(applied[i]) + 1

(* Mutation of RankFree: installed_rank is no key. *)
RankUnchecked(rank) == TRUE

(* PRIMARY KEY (installed_rank) *)
RankFree(rank) == rank \notin RanksOf(history)

(* Mutation of NextPending: any pending version, not the lowest. *)
AnyPending(i, v) == v \in Pending(i)

NextPending(i, v) == v \in Pending(i) /\ \A w \in Pending(i) : v <= w

(* What the transaction of version v commits. *)
Commits(i, v) ==
    /\ RankFree(Rank(i))
    /\ history' = history \cup {[rank |-> Rank(i), version |-> v, by |-> i]}
    /\ users' = (users /\ v \notin Destructive)

(***************************************************************************)
(* applyMigration: the file's SQL and its row in one transaction.          *)
(***************************************************************************)
ApplyMigration(i) ==
    /\ pc[i] = "apply"
    /\ \E v \in Versions :
          /\ NextPending(i, v)
          /\ \/ /\ Commits(i, v)
                /\ applied' = [applied EXCEPT ![i] = @ \cup {v}]
                /\ UNCHANGED <<pc, files>>
             \/ /\ ~RankFree(Rank(i))
                /\ Exits(i)
                /\ UNCHANGED <<history, users>>
    /\ UNCHANGED <<table, faults>>

(* Mutation of FinishMigrations: the server comes up after the first one. *)
FinishEarly(i) ==
    /\ pc[i] = "apply"
    /\ Pending(i) # files[i] \/ Pending(i) = {}
    /\ Goes(i, "up")
    /\ UNCHANGED <<table, history, users, files, applied, faults>>

(* Nothing is pending: the HTTP server starts. *)
FinishMigrations(i) ==
    /\ pc[i] = "apply"
    /\ Pending(i) = {}
    /\ Goes(i, "up")
    /\ UNCHANGED <<table, history, users, files, applied, faults>>

(* The User Service stores a user, for which it needs the table only. *)
CreateUser ==
    /\ Destructive \subseteq VersionsOf(history)
    /\ users' = TRUE
    /\ UNCHANGED <<table, history, pc, files, applied, faults>>

(***************************************************************************)
(* A crash, a failed call, or the 60-second timeout; or a COMMIT whose     *)
(* acknowledgement is lost.                                                *)
(***************************************************************************)
Fault(i) ==
    /\ pc[i] # "down"
    /\ faults < MaxFaults
    /\ faults' = faults + 1
    /\ Exits(i)
    /\ \/ UNCHANGED <<history, users>>
       \/ pc[i] = "apply" /\ \E v \in Versions : NextPending(i, v) /\ Commits(i, v)
    /\ UNCHANGED table

Step(i) ==
    \/ Start(i) \/ EnsureTable(i) \/ CreateTable(i) \/ QueryApplied(i)
    \/ ApplyMigration(i) \/ FinishMigrations(i)

Next == CreateUser \/ \E i \in Instances : Step(i) \/ Fault(i)

Spec == Init /\ [][Next]_vars

(* The orchestrator restarts what has exited; the database answers. *)
FairSpec == Spec /\ \A i \in Instances : WF_vars(Step(i))
-----------------------------------------------------------------------------
(* Properties *)

(***************************************************************************)
(* No migration is committed twice, although instances decide what to      *)
(* apply from a list they read earlier.  (migrator.go:53-66, 197-227)      *)
(***************************************************************************)
AppliedOnce == \A r, s \in history : r.version = s.version => r = s

(***************************************************************************)
(* The ranks of the history are 1, 2, ... without a gap or a repetition,   *)
(* although each instance counts on from its own list.                     *)
(* (migrator.go:59, 68, 99)                                                *)
(***************************************************************************)
RanksContiguous ==
    /\ RanksOf(history) = 1 .. Cardinality(history)
    /\ \A r, s \in history : r.rank = s.rank => r = s

(***************************************************************************)
(* A server that accepts requests has every migration of its build in the  *)
(* database.  (main.go:58-69)                                              *)
(***************************************************************************)
UpMeansMigrated ==
    \A i \in Instances : pc[i] = "up" => files[i] \subseteq VersionsOf(history)

(* Each build embeds every version below those it embeds. *)
LinearBuilds == \A B \in Binaries : \A v \in B, w \in Versions : w < v => w \in B

(***************************************************************************)
(* If no version is merged late, versions enter the history in their       *)
(* order, also while old and new builds race.                              *)
(* (migrator.go:58, 165-171)                                               *)
(***************************************************************************)
AppliedInOrder ==
    LinearBuilds => \A r, s \in history : r.rank < s.rank => r.version < s.version

(***************************************************************************)
(* V1 drops table users: an instance that still believes V1 to be pending  *)
(* must not wipe the users stored since.                                   *)
(* (V1__init_auth_schema.sql:7-12, migrator.go:221-224)                    *)
(***************************************************************************)
UsersSurvive == [][users => users']_vars

(***************************************************************************)
(* An instance that finds its rank taken has been overtaken by another     *)
(* one, never by its own life before a crash: restarting it helps, and a   *)
(* single instance never exits for this reason.  (migrator.go:53-77)       *)
(***************************************************************************)
BeatenByAnother ==
    \A i \in Instances :
        pc[i] = "apply" /\ ~RankFree(Rank(i)) =>
            \E r \in history : r.by # i /\ r.version \notin applied[i]

(***************************************************************************)
(* Instances that lose the race for a rank exit and are restarted; in the  *)
(* end all are up, for each lost race is a migration another has applied.  *)
(***************************************************************************)
AllUp == <>[](\A i \in Instances : pc[i] = "up")
=============================================================================
