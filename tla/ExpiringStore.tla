--------------------------- MODULE ExpiringStore ---------------------------
(***************************************************************************)
(* Where a server keeps records that live for a while: login sessions of   *)
(* the Authorization Server, OAuth states of the Client Service.  A        *)
(* process keeps them in Redis if Redis answers when it starts, otherwise  *)
(* in a map of its own, which is gone with the process.  Ids are random:   *)
(* a record is written once.  life counts the ticks a record has left, and *)
(* stands still once the record is gone.                                   *)
(***************************************************************************)
EXTENDS Integers

CONSTANTS
    Ids,
    TTL  \* lifetime of a record, in ticks

VARIABLES
    backend,  \* what the running process uses
    place,    \* where a record is
    life      \* ticks it has left; -1 once it is past its expiry

Backends == {"redis", "memory"}

TypeOK ==
    /\ backend \in Backends
    /\ place \in [Ids -> Backends \cup {"nowhere"}]
    /\ life \in [Ids -> -1 .. TTL]

Init ==
    /\ backend \in Backends
    /\ place = [id \in Ids |-> "nowhere"]
    /\ life = [id \in Ids |-> TTL]

(* The process finds the record; past its expiry or not. *)
Stored(id) == place[id] = backend

(* Mutation of Live: the expiry in the record is not looked at. *)
LiveIfStored(id) == Stored(id)

(* What the process finds and takes for valid. *)
Live(id) == Stored(id) /\ life[id] >= 0

Put(id) ==
    /\ place' = [place EXCEPT ![id] = backend]
    /\ UNCHANGED <<backend, life>>

Remove(id) ==
    /\ place' = [place EXCEPT ![id] = IF Stored(id) THEN "nowhere" ELSE @]
    /\ UNCHANGED <<backend, life>>

(* A call to Redis that fails has taken effect or not. *)
PutFails(id) ==
    /\ backend = "redis"
    /\ Put(id) \/ UNCHANGED <<backend, place, life>>

RemoveFails(id) ==
    /\ backend = "redis"
    /\ Remove(id) \/ UNCHANGED <<backend, place, life>>

(* Redis drops a key whose time to live is over, at once or a little later. *)
ExpireKey(id) ==
    /\ place[id] = "redis" /\ life[id] <= 0
    /\ place' = [place EXCEPT ![id] = "nowhere"]
    /\ UNCHANGED <<backend, life>>

(* Mutation of Tick: the count of ticks left runs on below its floor. *)
TickUnclamped ==
    /\ \E id \in Ids : place[id] # "nowhere" /\ life[id] > -3
    /\ life' = [id \in Ids |-> IF place[id] # "nowhere" THEN life[id] - 1 ELSE life[id]]
    /\ UNCHANGED <<backend, place>>

Tick ==
    /\ \E id \in Ids : place[id] # "nowhere" /\ life[id] >= 0
    /\ life' = [id \in Ids |->
          IF place[id] # "nowhere" /\ life[id] >= 0 THEN life[id] - 1 ELSE life[id]]
    /\ UNCHANGED <<backend, place>>

(* The process is started again, and finds Redis or does not. *)
Restart ==
    /\ backend' \in Backends
    /\ place' = [id \in Ids |-> IF place[id] = "memory" THEN "nowhere" ELSE place[id]]
    /\ UNCHANGED life
=============================================================================
