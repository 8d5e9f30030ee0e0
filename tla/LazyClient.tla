----------------------------- MODULE LazyClient -----------------------------
(***************************************************************************)
(* The HTTP client that a driver or a sink opens on first use and keeps:   *)
(* _client and close of DockerDriver (docker.py), of PortainerDriver       *)
(* (portainer.py), which opens its own before it asks its parent, and of   *)
(* _HttpSink (sinks.py), which is DockerDriver's.  None of them locks.     *)
(*                                                                         *)
(* Threads that share a driver test the slot, open a client, store it and  *)
(* read the slot again in separate steps.                                  *)
(***************************************************************************)
EXTENDS Naturals, Sequences, FiniteSets

CONSTANTS
    Callers,      \* the threads that share the driver
    Portainer,    \* the driver is a PortainerDriver
    MaxClients    \* bound: clients ever opened

ASSUME LazyClientAssumption ==
    Portainer \in BOOLEAN /\ MaxClients \in Nat /\ IsFiniteSet(Callers)

NoClient == 0

VARIABLES
    slot,       \* _client_instance: the number of a client, or NoClient
    clients,    \* per client opened so far: [keyed, open]
    at,         \* per caller: where it is in _client(), or "out"
    hand,       \* per caller: the client it was given, or NoClient
    raced       \* history: two callers have been between test and store

clientVars == <<slot, clients, at, hand, raced>>

Number == DOMAIN clients
Open   == {n \in Number : clients[n].open}

ClientInit ==
    /\ slot = NoClient
    /\ clients = <<>>
    /\ at = [c \in Callers |-> "out"]
    /\ hand = [c \in Callers |-> NoClient]
    /\ raced = FALSE

Opening(c) == at[c] \in {"open keyed", "open"}

Go(c, place) ==
    /\ at' = [at EXCEPT ![c] = place]
    /\ raced' = (raced \/ (/\ place \in {"open keyed", "open"}
                           /\ \E o \in Callers \ {c} : Opening(o)))

(* A request is to be made, the first of a call or the one after it.       *)
EnterClient(c) ==
    /\ at[c] \in {"out", "has"}
    /\ hand' = [hand EXCEPT ![c] = NoClient]
    /\ Go(c, IF Portainer THEN "test keyed" ELSE "test")
    /\ UNCHANGED <<slot, clients>>

(* A bug: PortainerDriver leaves the opening to its parent.                *)
TestKeyed_LeavesToParent(c) ==
    /\ at[c] = "test keyed"
    /\ Go(c, "test")
    /\ UNCHANGED <<slot, clients, hand>>

(* PortainerDriver's own test.                                             *)
TestKeyed(c) ==
    /\ at[c] = "test keyed"
    /\ Go(c, IF slot = NoClient THEN "open keyed" ELSE "test")
    /\ UNCHANGED <<slot, clients, hand>>

(* The parent's test, which PortainerDriver comes to as well.              *)
Test(c) ==
    /\ at[c] = "test"
    /\ Go(c, IF slot = NoClient THEN "open" ELSE "return")
    /\ UNCHANGED <<slot, clients, hand>>

(* A bug: the client is used and not kept.                                 *)
OpenClient_NotKept(c) ==
    /\ Opening(c)
    /\ clients' = Append(clients, [keyed |-> at[c] = "open keyed", open |-> TRUE])
    /\ hand' = [hand EXCEPT ![c] = Len(clients) + 1]
    /\ Go(c, "has")
    /\ UNCHANGED slot

OpenClient(c) ==
    /\ Opening(c)
    /\ clients' = Append(clients, [keyed |-> at[c] = "open keyed", open |-> TRUE])
    /\ slot' = Len(clients) + 1
    /\ Go(c, IF at[c] = "open keyed" THEN "test" ELSE "return")
    /\ UNCHANGED hand

(* The slot is read once more: what is returned is the last client stored, *)
(* whoever opened it.                                                      *)
ReturnClient(c) ==
    /\ at[c] = "return"
    /\ hand' = [hand EXCEPT ![c] = slot]
    /\ Go(c, "has")
    /\ UNCHANGED <<slot, clients>>

(* The request over the client has been answered, or has failed.           *)
LeaveClient(c) ==
    /\ at[c] = "has"
    /\ hand' = [hand EXCEPT ![c] = NoClient]
    /\ Go(c, "out")
    /\ UNCHANGED <<slot, clients>>

(* Callers close a driver when no call of theirs is under way: the code    *)
(* guards against nothing else.  The bound leaves a client to each.        *)
Close ==
    /\ \A c \in Callers : at[c] = "out"
    /\ slot # NoClient
    /\ Len(clients) + Cardinality(Callers) <= MaxClients
    /\ clients' = [clients EXCEPT ![slot].open = FALSE]
    /\ slot' = NoClient
    /\ UNCHANGED <<at, hand, raced>>

GetClient(c) ==
    TestKeyed(c) \/ Test(c) \/ OpenClient(c) \/ ReturnClient(c)

-----------------------------------------------------------------------------
(* A request goes over an open client, and one of a PortainerDriver        *)
(* carries the credential, whoever opened the client and however often     *)
(* the driver was closed ("the driver remains usable", docker.py 85-86).   *)
RequestsGoThrough ==
    \A c \in Callers : hand[c] # NoClient =>
        /\ clients[hand[c]].open
        /\ Portainer => clients[hand[c]].keyed

(* There is one client at a time (docker.py 319-323), and a second one is  *)
(* left open only where two threads first used the driver together.        *)
OneClientUnlessRaced == Cardinality(Open) > 1 => raced
=============================================================================
