---------------------------- MODULE ClientTable ----------------------------
(***************************************************************************)
(* The OAuth clients as their readers see them: a client and its two lists *)
(* come, change and go one at a time, and the lists go with their client.  *)
(* It is what the Authorization Server reads, and all that the client      *)
(* registry of the User Service may do to it.                              *)
(***************************************************************************)
CONSTANTS ClientIDs, URIs, Scopes

VARIABLE clients

Client == {c \in [registered: BOOLEAN, uris: SUBSET URIs, scopes: SUBSET Scopes] :
              ~c.registered => c.uris = {} /\ c.scopes = {}}

Gone == [registered |-> FALSE, uris |-> {}, scopes |-> {}]

Init == clients \in [ClientIDs -> Client]

(* The client k is there, with these lists. *)
Becomes(k, uris, scopes) ==
    clients' = [clients EXCEPT ![k] = [registered |-> TRUE, uris |-> uris, scopes |-> scopes]]

Insert(k) ==
    /\ ~clients[k].registered
    /\ Becomes(k, {}, {})

ReplaceURIs(k) ==
    /\ clients[k].registered
    /\ \E S \in SUBSET URIs : Becomes(k, S, clients[k].scopes)

ReplaceScopes(k) ==
    /\ clients[k].registered
    /\ \E S \in SUBSET Scopes : Becomes(k, clients[k].uris, S)

Delete(k) ==
    /\ clients[k].registered
    /\ clients' = [clients EXCEPT ![k] = Gone]

Next ==
    \E k \in ClientIDs : Insert(k) \/ ReplaceURIs(k) \/ ReplaceScopes(k) \/ Delete(k)

Spec == Init /\ [][Next]_clients
=============================================================================
