------------------------- MODULE DockerReads_proofs -------------------------
(***************************************************************************)
(* Proofs about the operations of the driver, for any number of threads    *)
(* and calls and any course of the engine between their requests.  Every   *)
(* request goes over an open client that carries the credential, and there *)
(* is more than one client only where threads first used the driver        *)
(* together.  Not found was so at the address, or was another's answer     *)
(* than the engine's; an answer for a container passed the check of        *)
(* identity; and a request is called invalid only where it is.  A log is   *)
(* decoded without an error, and told as it was asked for or truncated.    *)
(***************************************************************************)
EXTENDS DockerReads, Folds_proofs

-----------------------------------------------------------------------------
(* The driver's clients.                                                   *)

Places == {"out", "test keyed", "open keyed", "test", "open", "return", "has"}

OpenedClient == [keyed : BOOLEAN, open : BOOLEAN]

ClientType ==
    /\ clients \in Seq(OpenedClient)
    /\ slot \in 0 .. Len(clients)
    /\ at \in [Callers -> Places]
    /\ hand \in [Callers -> 0 .. Len(clients)]

Usable(n) == clients[n].open /\ (Portainer => clients[n].keyed)

(* The slot is never empty again once a caller is past the test for it:    *)
(* others may replace what it holds, and close waits until all are out.    *)
(* Only PortainerDriver's own opening is keyed, and its parent's test      *)
(* never finds the slot empty.                                             *)
CallerInv(c) ==
    /\ hand[c] # NoClient => at[c] = "has" /\ Usable(hand[c])
    /\ at[c] = "return" => slot # NoClient
    /\ Portainer => (at[c] = "test" => slot # NoClient) /\ at[c] # "open"
    /\ ~Portainer => at[c] \notin {"test keyed", "open keyed"}

ClientInv ==
    /\ ClientType
    /\ slot # NoClient => Usable(slot)
    /\ \A c \in Callers : CallerInv(c)

ClientStep ==
    \/ \E c \in Callers : EnterClient(c) \/ GetClient(c) \/ LeaveClient(c)
    \/ Close
    \/ UNCHANGED clientVars

(* Every step of the operations is one of these for the clients.           *)
LEMMA ReadsMakeClientSteps == [Next]_vars => ClientStep
<1> SUFFICES ASSUME [Next]_vars PROVE ClientStep
  OBVIOUS
<1>1. ASSUME NEW c \in Callers, CallStep(c) PROVE ClientStep
  <2>1. ASSUME NEW r \in Asks[c], Refuse(c, r) PROVE ClientStep
    BY <2>1 DEF Refuse, ClientStep
  <2>2. ASSUME NEW r \in Asks[c], Begin(c, r) PROVE ClientStep
    BY <2>2 DEF Begin, ClientStep
  <2>3. CASE TakeClient(c)
    BY <2>3 DEF TakeClient, ClientStep
  <2>4. CASE RequestFails(c) \/ RequestAstray(c)
    BY <2>4 DEF RequestFails, RequestAstray, ClientStep
  <2>5. CASE List(c)
    BY <2>5 DEF List, ClientStep
  <2>6. CASE Inspect(c)
    <3>1. EnterClient(c) \/ LeaveClient(c)
      BY <2>6 DEF Inspect
    <3> QED BY <3>1 DEF ClientStep
  <2>7. CASE Read(c)
    BY <2>7 DEF Read, ClientStep
  <2>8. CASE Forget(c)
    BY <2>8 DEF Forget, ClientStep
  <2> QED BY <1>1, <2>1, <2>2, <2>3, <2>4, <2>5, <2>6, <2>7, <2>8 DEF CallStep
<1>2. ASSUME NEW d \in Documents, Create(d) \/ Remove(d) PROVE ClientStep
  BY <1>2 DEF Create, Remove, EngineMoves, ClientStep
<1>3. CASE CloseDriver
  BY <1>3 DEF CloseDriver, ClientStep
<1>4. CASE UNCHANGED vars
  BY <1>4 DEF vars, ClientStep
<1> QED BY <1>1, <1>2, <1>3, <1>4 DEF Next

LEMMA ClientInvInit == Init => ClientInv
<1> SUFFICES ASSUME Init PROVE ClientInv
  OBVIOUS
<1>1. /\ slot = 0 /\ clients = <<>>
      /\ at = [c \in Callers |-> "out"]
      /\ hand = [c \in Callers |-> 0]
  BY DEF Init, ClientInit, NoClient
<1>2. clients \in Seq(OpenedClient) /\ Len(clients) = 0
  BY <1>1, EmptySeq
<1>3. ClientType
  BY <1>1, <1>2 DEF ClientType, Places
<1>4. \A c \in Callers : CallerInv(c)
  BY <1>1 DEF CallerInv, NoClient
<1> QED BY <1>1, <1>3, <1>4 DEF ClientInv, NoClient

(* A caller that moves, and may be handed a client, without opening one.   *)
LEMMA CallerMoves ==
    ASSUME ClientInv, UNCHANGED <<slot, clients>>,
           NEW c \in Callers, NEW place \in Places,
           NEW given \in 0 .. Len(clients),
           at' = [at EXCEPT ![c] = place],
           hand' = [hand EXCEPT ![c] = given],
           CallerInv(c)'
    PROVE  ClientInv'
<1>1. ClientType'
  BY DEF ClientInv, ClientType
<1>2. ASSUME NEW o \in Callers, o # c PROVE CallerInv(o)'
  <2>1. at'[o] = at[o] /\ hand'[o] = hand[o]
    BY <1>2 DEF ClientInv, ClientType
  <2> QED BY <2>1 DEF ClientInv, CallerInv, Usable
<1> QED BY <1>1, <1>2 DEF ClientInv, Usable

LEMMA ClientInvStep == ClientInv /\ ClientStep => ClientInv'
<1> SUFFICES ASSUME ClientInv, ClientStep PROVE ClientInv'
  OBVIOUS
<1> USE DEF NoClient
<1>0. /\ Len(clients) \in Nat /\ slot \in 0 .. Len(clients)
      /\ at \in [Callers -> Places]
      /\ hand \in [Callers -> 0 .. Len(clients)]
  BY DEF ClientInv, ClientType
<1>a. Len(clients) \in Nat /\ 0 \in 0 .. Len(clients)
  BY <1>0
<1>1. ASSUME NEW c \in Callers, EnterClient(c) PROVE ClientInv'
  <2> DEFINE place == IF Portainer THEN "test keyed" ELSE "test"
  <2>1. /\ UNCHANGED <<slot, clients>>
        /\ at' = [at EXCEPT ![c] = place]
        /\ hand' = [hand EXCEPT ![c] = 0]
    BY <1>1 DEF EnterClient, Go
  <2>2. at'[c] = place /\ hand'[c] = 0 /\ place \in Places
    BY <1>0, <2>1 DEF Places
  <2>3. CallerInv(c)'
    BY <2>2 DEF CallerInv
  <2> HIDE DEF place
  <2> QED BY <1>a, <2>1, <2>2, <2>3, CallerMoves
<1>2. ASSUME NEW c \in Callers, TestKeyed(c) \/ Test(c) PROVE ClientInv'
  <2> DEFINE place == IF at[c] = "test keyed"
                      THEN IF slot = 0 THEN "open keyed" ELSE "test"
                      ELSE IF slot = 0 THEN "open" ELSE "return"
  <2>1. /\ UNCHANGED <<slot, clients, hand>>
        /\ at[c] \in {"test keyed", "test"}
        /\ at' = [at EXCEPT ![c] = place]
    BY <1>2 DEF TestKeyed, Test, Go
  <2>2. hand' = [hand EXCEPT ![c] = hand[c]] /\ hand[c] \in 0 .. Len(clients)
    BY <1>0, <2>1
  <2>3. at'[c] = place /\ hand'[c] = hand[c] /\ place \in Places
    BY <1>0, <2>1 DEF Places
  <2>4. CallerInv(c)'
    <3>1. CallerInv(c)
      BY DEF ClientInv
    <3>2. hand[c] = 0
      BY <2>1, <3>1 DEF CallerInv
    <3>3. ASSUME Portainer
          PROVE  (place = "test" => slot # 0) /\ place # "open"
      BY <2>1, <3>1, <3>3 DEF CallerInv
    <3>4. ASSUME ~Portainer PROVE place \notin {"test keyed", "open keyed"}
      BY <2>1, <3>1, <3>4 DEF CallerInv
    <3>5. place = "return" => slot # 0
      OBVIOUS
    <3> HIDE DEF place
    <3> QED BY <2>1, <2>3, <3>2, <3>3, <3>4, <3>5 DEF CallerInv
  <2> HIDE DEF place
  <2> QED BY <2>1, <2>2, <2>3, <2>4, CallerMoves
<1>3. ASSUME NEW c \in Callers, ReturnClient(c) PROVE ClientInv'
  <2>1. /\ UNCHANGED <<slot, clients>> /\ at[c] = "return"
        /\ at' = [at EXCEPT ![c] = "has"]
        /\ hand' = [hand EXCEPT ![c] = slot]
    BY <1>3 DEF ReturnClient, Go
  <2>2. at'[c] = "has" /\ hand'[c] = slot
    BY <1>0, <2>1
  <2>3. CallerInv(c)'
    BY <2>1, <2>2 DEF ClientInv, CallerInv, Usable
  <2>4. "has" \in Places
    BY DEF Places
  <2> QED BY <1>0, <2>1, <2>3, <2>4, CallerMoves
<1>4. ASSUME NEW c \in Callers, LeaveClient(c) PROVE ClientInv'
  <2>1. /\ UNCHANGED <<slot, clients>>
        /\ at' = [at EXCEPT ![c] = "out"]
        /\ hand' = [hand EXCEPT ![c] = 0]
    BY <1>4 DEF LeaveClient, Go
  <2>2. at'[c] = "out" /\ hand'[c] = 0 /\ "out" \in Places
    BY <1>0, <2>1 DEF Places
  <2>3. CallerInv(c)'
    BY <2>2 DEF CallerInv
  <2> QED BY <1>a, <2>1, <2>2, <2>3, CallerMoves
<1>5. ASSUME NEW c \in Callers, OpenClient(c) PROVE ClientInv'
  <2> DEFINE new   == [keyed |-> at[c] = "open keyed", open |-> TRUE]
             place == IF at[c] = "open keyed" THEN "test" ELSE "return"
  <2>1. /\ clients' = Append(clients, new)
        /\ slot' = Len(clients) + 1
        /\ at' = [at EXCEPT ![c] = place]
        /\ hand' = hand
        /\ at[c] \in {"open keyed", "open"}
    BY <1>5 DEF OpenClient, Opening, Go
  <2>2. new \in OpenedClient
    BY DEF OpenedClient
  <2>3. new.open /\ (Portainer => new.keyed)
    BY <2>1 DEF ClientInv, CallerInv
  <2>4. place \in {"test", "return"}
    OBVIOUS
  <2> HIDE DEF new, place
  <2>5. /\ clients' \in Seq(OpenedClient)
        /\ Len(clients') = Len(clients) + 1
        /\ \A n \in 1 .. Len(clients) : clients'[n] = clients[n]
        /\ clients'[Len(clients) + 1] = new
    <3>1. clients \in Seq(OpenedClient)
      BY DEF ClientInv, ClientType
    <3>2. /\ Append(clients, new) \in Seq(OpenedClient)
          /\ Len(Append(clients, new)) = Len(clients) + 1
          /\ \A n \in 1 .. Len(clients) : Append(clients, new)[n] = clients[n]
          /\ Append(clients, new)[Len(clients) + 1] = new
      BY <2>2, <3>1, AppendProperties
    <3> QED BY <2>1, <3>2
  <2>6. ClientType'
    <3>1. at' \in [Callers -> Places]
      BY <1>0, <2>1, <2>4 DEF Places
    <3>2. slot' \in 0 .. Len(clients')
      <4>1. slot' = Len(clients) + 1 /\ Len(clients') = Len(clients) + 1
        BY <2>1, <2>5
      <4> QED BY <1>a, <4>1
    <3>3. hand' \in [Callers -> 0 .. Len(clients')]
      <4>1. 0 .. Len(clients) \subseteq 0 .. Len(clients')
        BY <1>a, <2>5
      <4> QED BY <1>0, <2>1, <4>1
    <3> QED BY <2>5, <3>1, <3>2, <3>3 DEF ClientType
  <2>7. Usable(slot)'
    BY <2>1, <2>3, <2>5 DEF Usable
  <2>8. ASSUME NEW o \in Callers PROVE CallerInv(o)'
    <3>1. slot' # 0 /\ hand'[o] = hand[o]
      <4>1. slot' = Len(clients) + 1 /\ hand' = hand
        BY <2>1
      <4> QED BY <1>a, <4>1
    <3>2. at'[o] = IF o = c THEN place ELSE at[o]
      BY <1>0, <2>1
    <3>3. CallerInv(o)
      BY DEF ClientInv
    <3>4. ASSUME hand'[o] # 0 PROVE at'[o] = "has" /\ Usable(hand[o])'
      <4>1. at[o] = "has" /\ Usable(hand[o]) /\ hand[o] \in 1 .. Len(clients)
        BY <1>0, <3>1, <3>3, <3>4 DEF CallerInv
      <4>2. o # c /\ clients'[hand[o]] = clients[hand[o]]
        BY <4>1, <2>1, <2>5
      <4> QED BY <4>1, <4>2, <2>1, <3>2 DEF Usable
    <3> QED BY <2>1, <2>4, <3>1, <3>2, <3>3, <3>4 DEF CallerInv, Usable
  <2> QED BY <2>6, <2>7, <2>8 DEF ClientInv
<1>6. CASE Close
  <2> DEFINE closed == [clients[slot] EXCEPT !.open = FALSE]
  <2>1. /\ slot \in 1 .. Len(clients) /\ slot' = 0
        /\ at' = at /\ hand' = hand
        /\ \A c \in Callers : at[c] = "out"
    BY <1>0, <1>6 DEF Close
  <2>2. clients' = [clients EXCEPT ![slot] = closed]
    BY <1>6 DEF Close
  <2>3. closed \in OpenedClient
    <3>1. clients[slot] \in OpenedClient
      BY <2>1, ElementOfSeq DEF ClientInv, ClientType
    <3> QED BY <3>1 DEF OpenedClient
  <2> HIDE DEF closed
  <2>4. clients' \in Seq(OpenedClient) /\ Len(clients') = Len(clients)
    BY <2>1, <2>2, <2>3, ExceptSeq DEF ClientInv, ClientType
  <2>5. ASSUME NEW c \in Callers PROVE CallerInv(c)'
    <3>1. at'[c] = "out" /\ hand'[c] = 0
      BY <2>1 DEF ClientInv, CallerInv
    <3> QED BY <3>1 DEF CallerInv
  <2> QED BY <1>0, <2>1, <2>4, <2>5 DEF ClientInv, ClientType
<1>7. CASE UNCHANGED clientVars
  BY <1>7 DEF clientVars, ClientInv, ClientType, CallerInv, Usable
<1> QED
  BY <1>1, <1>2, <1>3, <1>4, <1>5, <1>6, <1>7 DEF ClientStep, GetClient

(* Whoever opened the client, however often the driver was closed and      *)
(* whatever the calls are: a request goes over an open client, and         *)
(* Portainer's with its API key (docker.py 318-338, portainer.py 52-62).   *)
THEOREM RequestsAlwaysGoThrough == Spec => []RequestsGoThrough
<1>1. ClientInv => RequestsGoThrough
  BY DEF ClientInv, CallerInv, RequestsGoThrough, Usable
<1>2. ClientInv /\ [Next]_vars => ClientInv'
  BY ReadsMakeClientSteps, ClientInvStep
<1> QED BY <1>1, <1>2, ClientInvInit, PTL DEF Spec

-----------------------------------------------------------------------------
(* How many clients there are.                                             *)

(* Without a race what is open is in the slot, and whoever opens a client  *)
(* is alone and found the slot empty.                                      *)
AloneInv ==
    ~raced =>
        /\ Open \subseteq {slot}
        /\ \A c \in Callers : Opening(c) => slot = NoClient
        /\ \A c, o \in Callers : Opening(c) /\ Opening(o) => c = o

LEMMA AloneInit == Init => AloneInv
BY DEF Init, ClientInit, AloneInv, Open, Number, Opening

(* A caller that moves on without opening or closing anything; where it    *)
(* comes to an opening it found the slot empty.                            *)
LEMMA AloneMoves ==
    ASSUME ClientInv, AloneInv, UNCHANGED <<slot, clients>>,
           NEW c \in Callers, NEW place, Go(c, place),
           place \in {"open keyed", "open"} => slot = NoClient
    PROVE  AloneInv'
<1>1. at \in [Callers -> Places]
  BY DEF ClientInv, ClientType
<1>2. \A o \in Callers : at'[o] = IF o = c THEN place ELSE at[o]
  BY <1>1 DEF Go
<1> SUFFICES ASSUME ~raced' PROVE /\ Open' \subseteq {slot}
                                  /\ \A o \in Callers : Opening(o)' => slot = NoClient
                                  /\ \A o, p \in Callers :
                                        Opening(o)' /\ Opening(p)' => o = p
  BY DEF AloneInv
<1>3. ~raced /\ (place \in {"open keyed", "open"}
                    => \A o \in Callers \ {c} : ~Opening(o))
  BY DEF Go
<1>4. Open' = Open
  BY DEF Open, Number
<1> QED BY <1>2, <1>3, <1>4 DEF AloneInv, Opening

LEMMA AloneOpens ==
    ASSUME ClientInv, AloneInv, NEW c \in Callers, OpenClient(c)
    PROVE  AloneInv'
<1> DEFINE new   == [keyed |-> at[c] = "open keyed", open |-> TRUE]
           place == IF at[c] = "open keyed" THEN "test" ELSE "return"
<1>1. /\ clients' = Append(clients, new)
      /\ slot' = Len(clients) + 1
      /\ Go(c, place)
      /\ place \notin {"open keyed", "open"}
      /\ Opening(c)
  BY DEF OpenClient
<1>n. new \in OpenedClient
  BY DEF OpenedClient
<1> HIDE DEF new, place
<1>2. at \in [Callers -> Places] /\ clients \in Seq(OpenedClient)
  BY DEF ClientInv, ClientType
<1>3. \A o \in Callers : at'[o] = IF o = c THEN place ELSE at[o]
  BY <1>1, <1>2 DEF Go
<1> SUFFICES ASSUME ~raced' PROVE /\ Open' \subseteq {slot'}
                                  /\ \A o \in Callers : ~Opening(o)'
  BY DEF AloneInv
<1>4. ~raced
  BY <1>1 DEF Go
<1>5. \A o \in Callers : ~Opening(o)'
  BY <1>1, <1>3, <1>4 DEF AloneInv, Opening
<1>6. Open = {}
  <2>1. slot = NoClient /\ Open \subseteq {NoClient}
    BY <1>1, <1>4 DEF AloneInv
  <2>2. NoClient \notin DOMAIN clients
    BY <1>2 DEF NoClient
  <2> QED BY <2>1, <2>2 DEF Open, Number
<1>7. /\ DOMAIN clients' = 1 .. Len(clients) + 1
      /\ \A n \in 1 .. Len(clients) : clients'[n] = clients[n]
  <2>1. /\ Append(clients, new) \in Seq(OpenedClient)
        /\ Len(Append(clients, new)) = Len(clients) + 1
        /\ \A n \in 1 .. Len(clients) : Append(clients, new)[n] = clients[n]
    BY <1>n, <1>2, AppendProperties
  <2>2. clients' \in [1 .. Len(clients') -> OpenedClient]
    BY <1>1, <2>1, LenProperties
  <2> QED BY <1>1, <2>1, <2>2
<1>8. \A n \in Open' : n = Len(clients) + 1
  BY <1>2, <1>6, <1>7 DEF Open, Number
<1> QED BY <1>1, <1>5, <1>8

LEMMA AloneStep == ClientInv /\ AloneInv /\ ClientStep => AloneInv'
<1> SUFFICES ASSUME ClientInv, AloneInv, ClientStep PROVE AloneInv'
  OBVIOUS
<1>1. ASSUME NEW c \in Callers, EnterClient(c) PROVE AloneInv'
  <2> DEFINE place == IF Portainer THEN "test keyed" ELSE "test"
  <2>1. Go(c, place) /\ UNCHANGED <<slot, clients>>
    BY <1>1 DEF EnterClient
  <2> QED BY <2>1, AloneMoves
<1>2. ASSUME NEW c \in Callers, TestKeyed(c) PROVE AloneInv'
  <2> DEFINE place == IF slot = NoClient THEN "open keyed" ELSE "test"
  <2>1. Go(c, place) /\ UNCHANGED <<slot, clients>>
    BY <1>2 DEF TestKeyed
  <2> QED BY <2>1, AloneMoves
<1>3. ASSUME NEW c \in Callers, Test(c) PROVE AloneInv'
  <2> DEFINE place == IF slot = NoClient THEN "open" ELSE "return"
  <2>1. Go(c, place) /\ UNCHANGED <<slot, clients>>
    BY <1>3 DEF Test
  <2> QED BY <2>1, AloneMoves
<1>4. ASSUME NEW c \in Callers, OpenClient(c) PROVE AloneInv'
  BY <1>4, AloneOpens
<1>5. ASSUME NEW c \in Callers, ReturnClient(c) PROVE AloneInv'
  <2>1. Go(c, "has") /\ UNCHANGED <<slot, clients>>
    BY <1>5 DEF ReturnClient
  <2> QED BY <2>1, AloneMoves
<1>6. ASSUME NEW c \in Callers, LeaveClient(c) PROVE AloneInv'
  <2>1. Go(c, "out") /\ UNCHANGED <<slot, clients>>
    BY <1>6 DEF LeaveClient
  <2> QED BY <2>1, AloneMoves
<1>7. CASE Close
  <2>1. /\ UNCHANGED <<at, raced>> /\ slot' = NoClient
        /\ clients' = [clients EXCEPT ![slot].open = FALSE]
        /\ \A c \in Callers : at[c] = "out"
    BY <1>7 DEF Close
  <2>2. ~raced => Open' = {}
    <3>1. DOMAIN clients' = DOMAIN clients
      BY <2>1
    <3>2. \A n \in DOMAIN clients : n # slot => clients'[n] = clients[n]
      BY <2>1
    <3>3. slot \in DOMAIN clients => ~clients'[slot].open
      <4> SUFFICES ASSUME slot \in DOMAIN clients PROVE ~clients'[slot].open
        OBVIOUS
      <4>1. clients \in Seq(OpenedClient)
        BY DEF ClientInv, ClientType
      <4>2. clients[slot] \in OpenedClient
        BY <4>1
      <4>3. clients'[slot] = [clients[slot] EXCEPT !.open = FALSE]
        BY <2>1
      <4> QED BY <4>2, <4>3 DEF OpenedClient
    <3> QED BY <3>1, <3>2, <3>3 DEF AloneInv, Open, Number
  <2> QED BY <2>1, <2>2 DEF AloneInv, Opening
<1>8. CASE UNCHANGED clientVars
  BY <1>8 DEF clientVars, AloneInv, Open, Number, Opening
<1> QED
  BY <1>1, <1>2, <1>3, <1>4, <1>5, <1>6, <1>7, <1>8 DEF ClientStep, GetClient

(* A driver keeps one client, across closes, unless two threads have been  *)
(* between the test of the slot and the store (docker.py 319-338).         *)
THEOREM OneClientIsKept == Spec => []OneClientUnlessRaced
<1> DEFINE Inv == ClientInv /\ AloneInv
<1>1. AloneInv => OneClientUnlessRaced
  <2>1. Cardinality({}) = 0 /\ Cardinality({slot}) = 1
    BY FS_EmptySet, FS_Singleton
  <2>2. ASSUME AloneInv, ~raced PROVE Cardinality(Open) \in {0, 1}
    <3>1. Open = {} \/ Open = {slot}
      BY <2>2 DEF AloneInv
    <3> QED BY <2>1, <3>1
  <2>3. ASSUME AloneInv, Cardinality(Open) > 1 PROVE raced
    BY <2>2, <2>3 DEF AloneInv
  <2> DEFINE Many == Cardinality(Open) > 1
  <2>4. AloneInv /\ Many => raced
    BY <2>3
  <2> HIDE DEF Many
  <2>5. AloneInv => (Many => raced)
    BY <2>4, Zenon
  <2> QED BY <2>5, Zenon DEF OneClientUnlessRaced, Many
<1>2. Init => Inv
  BY ClientInvInit, AloneInit
<1>3. Inv /\ [Next]_vars => Inv'
  BY ReadsMakeClientSteps, ClientInvStep, AloneStep
<1> QED BY <1>1, <1>2, <1>3, PTL DEF Spec

-----------------------------------------------------------------------------
(* The answers of the calls.                                               *)

(* What a caller may be told, given the call and what its address named    *)
(* during it.                                                              *)
Fit(r, seen, outcome) ==
    /\ outcome = "DriverResourceNotFound" => seen \cap {"vacant", "astray"} # {}
    /\ outcome = "ok" /\ OfContainer(r) => "own" \in seen
    /\ outcome = "DriverOperationInvalid" =>
          \/ Refused(r)
          \/ r.op = "query" /\ r.uri \notin ResourceTypes
          \/ seen \cap {"vacant", "foreign"} # {}

(* A call under way has seen what its address names now, and one that is   *)
(* at its second request has seen its own container.                       *)
CallerOK(c) ==
    /\ stage[c] \in {"idle", "list", "inspect", "read", "answered"}
    /\ stage[c] # "answered" => answer[c] = None
    /\ answer[c] # None => Fit(call[c], held[c], answer[c].outcome)
    /\ InCall(c) =>
          StandingOf(engine, call[c]) \in held[c] /\ ~Refused(call[c])
    /\ stage[c] = "list" => ~OfContainer(call[c])
    /\ stage[c] \in {"inspect", "read"} => OfContainer(call[c])
    /\ stage[c] = "read" => call[c].op \in Secondary /\ "own" \in held[c]

CallInv ==
    /\ DOMAIN call = Callers /\ DOMAIN stage = Callers
    /\ DOMAIN answer = Callers /\ DOMAIN held = Callers
    /\ \A c \in Callers : CallerOK(c)

-----------------------------------------------------------------------------
(* Addresses and documents.                                                *)

(* A value that is read is the writing of its address.                     *)
LEMMA ParseShape ==
    ASSUME NEW v, Parse(v) # Invalid
    PROVE  /\ Build(Parse(v)) = v
           /\ Parse(v).project # None
           /\ Parse(v) = Address(Parse(v).target_reference, Parse(v).project,
                                 Parse(v).service, Parse(v).container)
<1> DEFINE host == Urlsplit(v).hostname
<1> HIDE DEF host
<1>1. /\ Parse(v) = AddressOf(host, v.path)
      /\ AddressOf(host, v.path) # Invalid
      /\ Build(AddressOf(host, v.path)) = v
  BY DEF Parse, host
<1>2. PICK h, s, k : Parse(v) = Address(h, v.path[3], s, k)
  BY <1>1 DEF AddressOf
<1>3. v.path[3] # None
  <2>1. /\ Len(v.path) >= 3
        /\ \A i \in 1 .. Len(v.path) : v.path[i] \in Segments
    BY DEF Parse, WellFormed
  <2>2. Len(v.path) \in Int => 3 \in 1 .. Len(v.path)
    BY <2>1
  <2> QED BY <2>1, <2>2, UriAssumption
<1> QED BY <1>1, <1>2, <1>3 DEF Address

(* A container that an address reaches by its name, and that belongs to    *)
(* its project and service, is listed under that name.                     *)
LEMMA ReachedMatches ==
    ASSUME NEW v, Parse(v) # Invalid, Parse(v).target_reference = Reference,
           Parse(v).container # None,
           NEW d \in Resolve(engine, Parse(v).container), Belongs(d, Parse(v))
    PROVE  AssertMatches(Parse(v), ContainerFromInspect(d))
<1> DEFINE a == Parse(v)
           c == ContainerFromInspect(d)
<1>1. c.project = Project(d) /\ c.service = d.service /\ c.id = d.id
  BY DEF ContainerFromInspect, Container, Project
<1>2. a.container \in {d.name, d.id, Short[d.id]}
  BY DEF Resolve
<1>3. CASE a.container = d.name
  <2>1. Address(Reference, Project(d), d.service, d.name) = a
    BY <1>3, ParseShape DEF Belongs
  <2>2. Parses(a)
    BY ParseShape DEF Parses
  <2>3. c.address_name = d.name
    BY <1>3, <2>1, <2>2 DEF ContainerFromInspect, Container, Project
  <2> QED BY <1>1, <1>3, <2>3 DEF AssertMatches, Belongs
<1>4. CASE a.container \in {d.id, Short[d.id]}
  BY <1>1, <1>4 DEF AssertMatches, Belongs
<1> QED BY <1>2, <1>3, <1>4

-----------------------------------------------------------------------------
(* The answers.                                                            *)

LEMMA InspectFits ==
    ASSUME NEW r, OfContainer(r), ~Refused(r),
           NEW seen, StandingOf(engine, r) \in seen
    PROVE  /\ Fit(r, seen, InspectOutcome(Parse(r.uri)))
           /\ InspectOutcome(Parse(r.uri)) = "ok" => "own" \in seen
<1> DEFINE a       == Parse(r.uri)
           named   == Resolve(engine, a.container)
           outcome == InspectOutcome(a)
<1>1. a # Invalid /\ a.target_reference = Reference /\ a.container # None
  BY DEF OfContainer, Refused
<1>2. Standing(engine, a) \in seen
  BY DEF OfContainer, StandingOf
<1>3. CASE named = {}
  <2>1. outcome = "DriverResourceNotFound" /\ Standing(engine, a) = "vacant"
    BY <1>1, <1>3 DEF InspectOutcome, Standing
  <2> QED BY <1>2, <2>1 DEF Fit
<1>4. CASE named # {} /\ \E d \in named : ~Readable(d)
  <2>1. outcome = "DriverProtocolError"
    BY <1>4 DEF InspectOutcome
  <2> QED BY <2>1 DEF Fit
<1>5. CASE named # {} /\ \A d \in named : Readable(d)
  <2>1. outcome = IF \A d \in named : AssertMatches(a, ContainerFromInspect(d))
                  THEN "ok" ELSE "DriverOperationInvalid"
    BY <1>5 DEF InspectOutcome
  <2>2. Standing(engine, a) =
          IF \A d \in named : Belongs(d, a) THEN "own" ELSE "foreign"
    BY <1>1, <1>5 DEF Standing
  <2>3. \A d \in named : AssertMatches(a, ContainerFromInspect(d))
                            <=> Belongs(d, a)
    <3> SUFFICES ASSUME NEW d \in named
                 PROVE  AssertMatches(a, ContainerFromInspect(d))
                           <=> Belongs(d, a)
      OBVIOUS
    <3>1. AssertMatches(a, ContainerFromInspect(d)) => Belongs(d, a)
      BY DEF AssertMatches, ContainerFromInspect, Container, Belongs, Project
    <3>2. Belongs(d, a) => AssertMatches(a, ContainerFromInspect(d))
      BY <1>1, ReachedMatches
    <3> QED BY <3>1, <3>2
  <2> QED BY <1>2, <2>1, <2>2, <2>3 DEF Fit
<1> QED BY <1>3, <1>4, <1>5

(* The address of a container's service, and of its project.               *)
ServiceAddress(c) == Address(Reference, c.project, c.service, None)
ProjectAddress(c) == Address(Reference, c.project, None, None)

(* What describe asks of the list for a project or a service is the one    *)
(* that the list was made into.                                            *)
LEMMA AggregateIs ==
    ASSUME NEW docs, NEW c0 \in ListContainers(docs), c0.project # None
    PROVE  /\ c0.service # None =>
                Query(docs, AggregateQuery(ServiceAddress(c0)))
                  = {ServiceResource(ListContainers(docs), c0.project, c0.service)}
           /\ Query(docs, AggregateQuery(ProjectAddress(c0)))
                  = {ProjectResource(ListContainers(docs), c0.project)}
<1> DEFINE containers == ListContainers(docs)
<1>1. ASSUME c0.service # None
      PROVE  Query(docs, AggregateQuery(ServiceAddress(c0)))
                  = {ServiceResource(containers, c0.project, c0.service)}
  <2> DEFINE Of(c) == ServiceResource(containers, c.project, c.service)
             labelled == {c \in containers : c.service # None}
             q == AggregateQuery(ServiceAddress(c0))
  <2>1. ServiceResources(containers) = {Of(c) : c \in labelled}
    BY DEF ServiceResources
  <2>2. /\ q.resource_type = "service" /\ q.project = c0.project
        /\ q.service = c0.service /\ q.name = c0.service /\ q.state = None
    BY <1>1 DEF AggregateQuery, ResourceQuery, ServiceAddress, Address
  <2>3. Query(docs, q) = {r \in ServiceResources(containers) : Matches(r, q)}
    BY <2>2 DEF Query
  <2>4. \A c \in labelled : /\ Of(c).project = c.project
                            /\ Of(c).service = c.service
                            /\ Of(c).name = c.service
    BY DEF ServiceResource, Resource, Address
  <2>5. c0 \in labelled
    BY <1>1
  <2>6. \A c \in labelled :
          c.project = c0.project /\ c.service = c0.service => Of(c) = Of(c0)
    OBVIOUS
  <2> HIDE DEF Of, labelled, q
  <2>7. \A c \in labelled : Matches(Of(c), q) =>
                               c.project = c0.project /\ c.service = c0.service
    BY <1>1, <2>2, <2>4 DEF Matches
  <2>8. Matches(Of(c0), q)
    BY <2>2, <2>4, <2>5 DEF Matches
  <2>9. Query(docs, q) = {Of(c0)}
    BY <2>1, <2>3, <2>5, <2>6, <2>7, <2>8
  <2> QED BY <2>9 DEF Of, q
<1>2. Query(docs, AggregateQuery(ProjectAddress(c0)))
                  = {ProjectResource(containers, c0.project)}
  <2> DEFINE Of(c) == ProjectResource(containers, c.project)
             q == AggregateQuery(ProjectAddress(c0))
  <2>1. ProjectResources(containers) = {Of(c) : c \in containers}
    BY DEF ProjectResources
  <2>2. /\ q.resource_type = "project" /\ q.project = c0.project
        /\ q.service = None /\ q.name = c0.project /\ q.state = None
    BY DEF AggregateQuery, ResourceQuery, ProjectAddress, Address
  <2>3. Query(docs, q) = {r \in ProjectResources(containers) : Matches(r, q)}
    BY <2>2 DEF Query
  <2>4. \A c \in containers : Of(c).project = c.project /\ Of(c).name = c.project
    BY DEF ProjectResource, Resource, Address
  <2>5. \A c \in containers : c.project = c0.project => Of(c) = Of(c0)
    OBVIOUS
  <2> HIDE DEF Of, q
  <2>6. \A c \in containers : Matches(Of(c), q) => c.project = c0.project
    BY <2>2, <2>4 DEF Matches
  <2>7. Matches(Of(c0), q)
    BY <2>2, <2>4 DEF Matches
  <2>8. Query(docs, q) = {Of(c0)}
    BY <2>1, <2>3, <2>5, <2>6, <2>7
  <2> QED BY <2>8 DEF Of, q
<1> QED BY <1>1, <1>2

(* The services, or projects, that describe asks for are one if there is   *)
(* a container in them.                                                    *)
LEMMA AggregateIsOne ==
    ASSUME NEW a, a.container = None, a.project # None, ~ListFails(engine),
           Standing(engine, a) = "own"
    PROVE  Cardinality(Query(engine, AggregateQuery(a))) = 1
<1> DEFINE containers == ListContainers(engine)
<1>1. PICK d \in engine : Project(d) = a.project /\ a.service \in {None, d.service}
  BY DEF Standing
<1> DEFINE c0 == ContainerFromList(d)
<1>2. c0 \in containers /\ c0.project = a.project /\ c0.service = d.service
  BY <1>1 DEF ListContainers, ContainerFromList, Container, Project
<1> HIDE DEF containers, c0
<1>3. AggregateQuery(a) = IF a.service # None THEN AggregateQuery(ServiceAddress(c0))
                          ELSE AggregateQuery(ProjectAddress(c0))
  BY <1>1, <1>2 DEF AggregateQuery, ServiceAddress, ProjectAddress, Address
<1>4. CASE a.service # None
  <2>1. c0.service # None
    BY <1>1, <1>2, <1>4
  <2>2. Query(engine, AggregateQuery(ServiceAddress(c0)))
          = {ServiceResource(containers, c0.project, c0.service)}
    BY <1>2, <2>1, AggregateIs DEF containers
  <2> QED BY <1>3, <1>4, <2>2, FS_Singleton
<1>5. CASE a.service = None
  <2>1. Query(engine, AggregateQuery(ProjectAddress(c0)))
          = {ProjectResource(containers, c0.project)}
    BY <1>2, AggregateIs DEF containers
  <2> QED BY <1>3, <1>5, <2>1, FS_Singleton
<1> QED BY <1>4, <1>5

LEMMA ListFits ==
    ASSUME NEW r, ~OfContainer(r), ~Refused(r),
           NEW seen, StandingOf(engine, r) \in seen
    PROVE  Fit(r, seen, ListOutcome(r))
<1>1. CASE ListOutcome(r) \in {"ok", "DriverProtocolError"}
  BY <1>1 DEF Fit
<1>2. CASE ListOutcome(r) = "DriverOperationInvalid" /\ r.op = "query"
  BY <1>2 DEF ListOutcome, Fit
<1>3. CASE ListOutcome(r) = "DriverOperationInvalid" /\ r.op # "query"
  <2> DEFINE a == Parse(r.uri)
  <2>1. /\ ~ListFails(engine)
        /\ Cardinality(Query(engine, AggregateQuery(a))) # 1
    BY <1>3 DEF ListOutcome
  <2>2. a # Invalid /\ a.container = None
    BY <1>3 DEF OfContainer, Refused
  <2>3. a.project # None
    BY <2>2, ParseShape
  <2>4. Standing(engine, a) # "own"
    BY <2>1, <2>2, <2>3, AggregateIsOne
  <2>5. Standing(engine, a) = "vacant"
    BY <2>1, <2>2, <2>4 DEF Standing
  <2>6. StandingOf(engine, r) = Standing(engine, a)
    BY <1>3 DEF StandingOf
  <2> QED BY <1>3, <2>5, <2>6 DEF Fit
<1> QED BY <1>1, <1>2, <1>3 DEF ListOutcome

LEMMA ReadOutcomesAre ==
    ASSUME NEW op \in Secondary, NEW framed, NEW d
    PROVE  ReadOutcomes(op, framed, d) \subseteq ArchiveOutcomes
<1>1. CASE op = "stats"
  BY <1>1 DEF ReadOutcomes, ArchiveOutcomes
<1>2. CASE op = "revision"
  BY <1>2 DEF ReadOutcomes
<1>3. CASE op = "logs"
  BY <1>3 DEF ReadOutcomes, ArchiveOutcomes
<1> QED BY <1>1, <1>2, <1>3 DEF Secondary

-----------------------------------------------------------------------------
(* The steps.                                                              *)

LEMMA CallInit == Init => CallInv
BY DEF Init, CallInv, CallerOK, InCall

(* A step of c changes nothing of the others' calls.                       *)
LEMMA OthersKeep ==
    ASSUME CallInv, NEW c \in Callers, engine' = engine,
           DOMAIN call' = Callers, DOMAIN stage' = Callers,
           DOMAIN answer' = Callers, DOMAIN held' = Callers,
           \A o \in Callers \ {c} : /\ call'[o] = call[o] /\ stage'[o] = stage[o]
                                    /\ answer'[o] = answer[o] /\ held'[o] = held[o],
           CallerOK(c)'
    PROVE  CallInv'
<1>1. ASSUME NEW o \in Callers, o # c PROVE CallerOK(o)'
  BY <1>1 DEF CallInv, CallerOK, InCall
<1> QED BY <1>1 DEF CallInv

LEMMA FinishKeeps ==
    ASSUME CallInv, NEW c \in Callers, NEW outcome, NEW of,
           Finish(c, outcome, of), Fit(call[c], held[c], outcome),
           UNCHANGED <<engine, call, held>>
    PROVE  CallInv'
<1> DEFINE told == [outcome |-> outcome, of |-> of]
<1>1. told.outcome = outcome
  OBVIOUS
<1>2. /\ answer' = [answer EXCEPT ![c] = told]
      /\ stage' = [stage EXCEPT ![c] = "answered"]
  BY DEF Finish
<1> HIDE DEF told
<1>3. /\ DOMAIN answer' = Callers /\ DOMAIN stage' = Callers
      /\ answer'[c] = told /\ stage'[c] = "answered"
      /\ \A o \in Callers \ {c} : stage'[o] = stage[o] /\ answer'[o] = answer[o]
  BY <1>2 DEF CallInv
<1>4. CallerOK(c)'
  BY <1>1, <1>3 DEF CallerOK, InCall
<1> QED BY <1>3, <1>4, OthersKeep DEF CallInv

LEMMA EngineMovesKeeps ==
    ASSUME CallInv, NEW docs, EngineMoves(docs) PROVE CallInv'
<1>1. /\ engine' = docs
      /\ UNCHANGED <<call, stage, answer>>
      /\ held' = [c \in Callers |->
                    IF InCall(c) THEN held[c] \cup {StandingOf(docs, call[c])}
                    ELSE held[c]]
  BY DEF EngineMoves
<1>2. ASSUME NEW c \in Callers PROVE CallerOK(c)'
  <2>1. CallerOK(c)
    BY DEF CallInv
  <2>2. CASE InCall(c)
    <3>1. held'[c] = held[c] \cup {StandingOf(engine', call[c])}
      BY <1>1, <2>2
    <3>2. answer[c] = None
      BY <2>1, <2>2 DEF CallerOK, InCall
    <3> QED BY <1>1, <2>1, <2>2, <3>1, <3>2 DEF CallerOK, InCall
  <2>3. CASE ~InCall(c)
    BY <1>1, <2>1, <2>3 DEF CallerOK, InCall
  <2> QED BY <2>2, <2>3
<1> QED BY <1>1, <1>2 DEF CallInv

LEMMA BeginKeeps ==
    ASSUME CallInv, NEW c \in Callers, NEW r, Begin(c, r) PROVE CallInv'
<1> DEFINE place == IF r.op = "query" THEN "list"
                    ELSE IF Parse(r.uri).container = None THEN "list"
                    ELSE "inspect"
<1>1. /\ stage[c] = "idle" /\ ~Refused(r)
      /\ call' = [call EXCEPT ![c] = r]
      /\ stage' = [stage EXCEPT ![c] = place]
      /\ held' = [held EXCEPT ![c] = {StandingOf(engine, r)}]
      /\ UNCHANGED <<engine, answer>>
  BY DEF Begin
<1>2. /\ place = "list" => ~OfContainer(r)
      /\ place = "inspect" => OfContainer(r)
      /\ place \in {"list", "inspect"}
  BY DEF OfContainer
<1> HIDE DEF place
<1>3. /\ call'[c] = r /\ stage'[c] = place /\ held'[c] = {StandingOf(engine, r)}
      /\ DOMAIN call' = Callers /\ DOMAIN stage' = Callers
      /\ DOMAIN held' = Callers
      /\ \A o \in Callers \ {c} : /\ call'[o] = call[o] /\ stage'[o] = stage[o]
                                   /\ held'[o] = held[o]
  BY <1>1 DEF CallInv
<1>4. answer[c] = None
  BY <1>1 DEF CallInv, CallerOK
<1>5. CallerOK(c)'
  BY <1>1, <1>2, <1>3, <1>4 DEF CallerOK, InCall
<1> QED BY <1>1, <1>3, <1>5, OthersKeep DEF CallInv

LEMMA InspectKeeps ==
    ASSUME CallInv, NEW c \in Callers, Inspect(c) PROVE CallInv'
<1> DEFINE a == Parse(call[c].uri)
<1>1. stage[c] = "inspect" /\ UNCHANGED <<engine, call, held>>
  BY DEF Inspect
<1>2. /\ OfContainer(call[c]) /\ ~Refused(call[c])
      /\ StandingOf(engine, call[c]) \in held[c] /\ answer[c] = None
  BY <1>1 DEF CallInv, CallerOK, InCall
<1>3. /\ Fit(call[c], held[c], InspectOutcome(a))
      /\ InspectOutcome(a) = "ok" => "own" \in held[c]
  BY <1>2, InspectFits
<1>4. CASE InspectOutcome(a) = "ok" /\ call[c].op \in Secondary
  <2>1. stage' = [stage EXCEPT ![c] = "read"] /\ answer' = answer
    BY <1>4 DEF Inspect
  <2>2. /\ stage'[c] = "read" /\ DOMAIN stage' = Callers
        /\ \A o \in Callers \ {c} : stage'[o] = stage[o]
    BY <2>1 DEF CallInv
  <2>3. CallerOK(c)'
    BY <1>1, <1>2, <1>3, <1>4, <2>1, <2>2 DEF CallerOK, InCall
  <2> QED BY <1>1, <2>1, <2>2, <2>3, OthersKeep DEF CallInv
<1>5. CASE ~(InspectOutcome(a) = "ok" /\ call[c].op \in Secondary)
  <2>1. Finish(c, InspectOutcome(a), Standing(engine, a))
    BY <1>5 DEF Inspect
  <2> QED BY <1>1, <1>3, <2>1, FinishKeeps
<1> QED BY <1>4, <1>5

LEMMA ReadKeeps ==
    ASSUME CallInv, NEW c \in Callers, Read(c) PROVE CallInv'
<1> DEFINE a     == Parse(call[c].uri)
           named == Resolve(engine, a.container)
<1>1. stage[c] = "read" /\ UNCHANGED <<engine, call, held>>
  BY DEF Read
<1>2. /\ OfContainer(call[c]) /\ call[c].op \in Secondary
      /\ StandingOf(engine, call[c]) \in held[c] /\ "own" \in held[c]
  BY <1>1 DEF CallInv, CallerOK, InCall
<1>3. PICK outcome \in IF named = {} THEN {Missing(c)}
                       ELSE UNION {ReadOutcomes(call[c].op, ~tty[c], d) :
                                     d \in named} :
        Finish(c, outcome, Standing(engine, a))
  BY DEF Read
<1>4. CASE named = {}
  <2>1. outcome \in {"none", "DriverResourceNotFound"}
    BY <1>3, <1>4 DEF Missing
  <2>2. StandingOf(engine, call[c]) = "vacant"
    BY <1>2, <1>4 DEF OfContainer, StandingOf, Standing
  <2> QED BY <1>1, <1>2, <1>3, <2>1, <2>2, FinishKeeps DEF Fit
<1>5. CASE named # {}
  <2>1. outcome \in ArchiveOutcomes
    BY <1>2, <1>3, <1>5, ReadOutcomesAre
  <2>2. Fit(call[c], held[c], outcome)
    BY <1>2, <2>1 DEF Fit, ArchiveOutcomes
  <2> QED BY <1>1, <1>3, <2>2, FinishKeeps
<1> QED BY <1>4, <1>5

LEMMA CallNext == CallInv /\ [Next]_vars => CallInv'
<1> SUFFICES ASSUME CallInv, [Next]_vars PROVE CallInv'
  OBVIOUS
<1>1. ASSUME NEW c \in Callers, NEW r, Refuse(c, r) PROVE CallInv'
  <2> DEFINE told == [outcome |-> "DriverOperationInvalid", of |-> "none"]
  <2>1. /\ Refused(r) /\ UNCHANGED <<engine, held>>
        /\ call' = [call EXCEPT ![c] = r]
        /\ answer' = [answer EXCEPT ![c] = told]
        /\ stage' = [stage EXCEPT ![c] = "answered"]
    BY <1>1 DEF Refuse, Finish
  <2>2. told.outcome = "DriverOperationInvalid"
    OBVIOUS
  <2> HIDE DEF told
  <2>3. /\ call'[c] = r /\ stage'[c] = "answered" /\ answer'[c] = told
        /\ DOMAIN call' = Callers /\ DOMAIN stage' = Callers
        /\ DOMAIN answer' = Callers
        /\ \A o \in Callers \ {c} : /\ call'[o] = call[o] /\ stage'[o] = stage[o]
                                     /\ answer'[o] = answer[o]
    BY <2>1 DEF CallInv
  <2>4. CallerOK(c)'
    BY <2>1, <2>2, <2>3 DEF CallerOK, InCall, Fit
  <2> QED BY <2>1, <2>3, <2>4, OthersKeep DEF CallInv
<1>2. ASSUME NEW c \in Callers, RequestFails(c) PROVE CallInv'
  <2>1. PICK outcome \in {"DriverUnavailable", "DriverProtocolError"} :
          Finish(c, outcome, "none")
    BY <1>2 DEF RequestFails
  <2>2. Fit(call[c], held[c], outcome)
    BY DEF Fit
  <2> QED BY <1>2, <2>1, <2>2, FinishKeeps DEF RequestFails
<1>7. ASSUME NEW c \in Callers, RequestAstray(c) PROVE CallInv'
  <2> DEFINE told == [outcome |-> Missing(c), of |-> "none"]
  <2>1. /\ engine' = engine /\ call' = call
        /\ held' = [held EXCEPT ![c] = @ \cup {"astray"}]
        /\ answer' = [answer EXCEPT ![c] = told]
        /\ stage' = [stage EXCEPT ![c] = "answered"]
    BY <1>7 DEF RequestAstray, Finish
  <2>2. told.outcome \in {"none", "DriverResourceNotFound"}
    BY DEF Missing
  <2> HIDE DEF told
  <2>3. /\ stage'[c] = "answered" /\ answer'[c] = told
        /\ "astray" \in held'[c]
        /\ DOMAIN stage' = Callers /\ DOMAIN answer' = Callers
        /\ DOMAIN held' = Callers /\ DOMAIN call' = Callers
        /\ \A o \in Callers \ {c} :
              /\ call'[o] = call[o] /\ stage'[o] = stage[o]
              /\ answer'[o] = answer[o] /\ held'[o] = held[o]
    BY <2>1 DEF CallInv
  <2>4. CallerOK(c)'
    BY <2>2, <2>3 DEF CallerOK, InCall, Fit
  <2> QED BY <2>1, <2>3, <2>4, OthersKeep
<1>3. ASSUME NEW c \in Callers, List(c) PROVE CallInv'
  <2>1. /\ ~OfContainer(call[c]) /\ ~Refused(call[c])
        /\ StandingOf(engine, call[c]) \in held[c]
    BY <1>3 DEF List, CallInv, CallerOK, InCall
  <2> QED BY <1>3, <2>1, ListFits, FinishKeeps DEF List
<1>4. ASSUME NEW c \in Callers, Forget(c) PROVE CallInv'
  <2>1. /\ engine' = engine
        /\ stage' = [stage EXCEPT ![c] = "idle"]
        /\ call' = [call EXCEPT ![c] = None]
        /\ answer' = [answer EXCEPT ![c] = None]
        /\ held' = [held EXCEPT ![c] = {}]
    BY <1>4 DEF Forget
  <2>2. /\ stage'[c] = "idle" /\ answer'[c] = None
        /\ DOMAIN call' = Callers /\ DOMAIN stage' = Callers
        /\ DOMAIN answer' = Callers /\ DOMAIN held' = Callers
        /\ \A o \in Callers \ {c} : /\ call'[o] = call[o] /\ stage'[o] = stage[o]
                                     /\ answer'[o] = answer[o] /\ held'[o] = held[o]
    BY <2>1 DEF CallInv
  <2>3. CallerOK(c)'
    BY <2>2 DEF CallerOK, InCall
  <2> QED BY <2>1, <2>2, <2>3, OthersKeep
<1>5. ASSUME NEW d, Create(d) \/ Remove(d) PROVE CallInv'
  BY <1>5, EngineMovesKeeps DEF Create, Remove
<1>6. CASE UNCHANGED <<engine, readVars>>
  BY <1>6 DEF readVars, CallInv, CallerOK, InCall
<1> QED
  BY <1>1, <1>2, <1>3, <1>4, <1>5, <1>6, <1>7, BeginKeeps, InspectKeeps,
     ReadKeeps
  DEF Next, CallStep, TakeClient, CloseDriver, vars

-----------------------------------------------------------------------------
(* The report loop takes not found for a deletion (runner.py 157-162): it  *)
(* is never told so of an address that had a container throughout, as long *)
(* as every request of the call came to the engine.                        *)
THEOREM NotFoundWasAnswered == Spec => []NotFoundIsAnswered
<1>1. CallInv => NotFoundIsAnswered
  BY DEF CallInv, CallerOK, Fit, NotFoundIsAnswered, Answered
<1> QED BY <1>1, CallInit, CallNext, PTL DEF Spec

(* No call for a container is answered unless its address named it during  *)
(* the call (docker.py 128-131, 257-262).                                  *)
THEOREM AnswersWereChecked == Spec => []AnswersPassedTheCheck
<1>1. CallInv => AnswersPassedTheCheck
  BY DEF CallInv, CallerOK, Fit, AnswersPassedTheCheck, Answered
<1> QED BY <1>1, CallInit, CallNext, PTL DEF Spec

(* A well-formed request for a resource that is there throughout the call  *)
(* is never called invalid, by whichever of its names it is asked for.     *)
THEOREM InvalidMeansInvalid == Spec => []InvalidOnlyIfSo
<1>1. CallInv => InvalidOnlyIfSo
  BY DEF CallInv, CallerOK, Fit, InvalidOnlyIfSo, Answered
<1> QED BY <1>1, CallInit, CallNext, PTL DEF Spec

-----------------------------------------------------------------------------
(* Logs.                                                                   *)

(* FlattenSeq joins them all.                                              *)
LEMMA FlattenJoins ==
    ASSUME NEW T, NEW seqs \in Seq(Seq(T))
    PROVE  \E F : Joining(F, seqs, T) /\ Seqs!FlattenSeq(seqs) = F[Len(seqs)]
<1> DEFINE n == Len(seqs)
           Flat(f) == f = [i \in 1 .. n |->
                             IF i = 1 THEN seqs[i] ELSE f[i - 1] \o seqs[i]]
<1>1. /\ n \in Nat /\ seqs \in [1 .. n -> Seq(T)]
  BY LenProperties
<1>2. CASE n = 0
  <2>1. seqs = <<>>
    BY <1>2, EmptySeq
  <2>2. Seqs!FlattenSeq(seqs) = <<>>
    BY <1>2, <2>1 DEF Seqs!FlattenSeq
  <2> DEFINE F == [i \in 0 .. n |-> <<>>]
  <2>3. F \in [0 .. n -> Seq(T)] /\ Joins(F, seqs) /\ F[n] = <<>>
    BY <1>2, EmptySeq DEF Joins
  <2> HIDE DEF F
  <2> QED BY <2>2, <2>3 DEF Joining
<1>3. CASE n # 0
  <2>1. PICK H : DOMAIN H = 0 .. n /\ Joins(H, seqs)
    BY <1>1, JoinsExists
  <2>2. \A i \in 0 .. n : H[i] \in Seq(T)
    BY <1>1, <2>1, JoinsType
  <2> DEFINE h == [i \in 1 .. n |-> H[i]]
  <2>3. Flat(h)
    <3>1. ASSUME NEW i \in 1 .. n
          PROVE  h[i] = IF i = 1 THEN seqs[i] ELSE h[i - 1] \o seqs[i]
      <4>1. H[i] = H[i - 1] \o seqs[i]
        BY <2>1 DEF Joins
      <4>2. CASE i = 1
        <5>1. H[i - 1] = <<>> /\ seqs[i] \in Seq(T)
          BY <1>1, <2>1, <4>2 DEF Joins
        <5>2. H[i] = seqs[i]
          BY <4>1, <5>1, ConcatEmptySeq
        <5> QED BY <4>2, <5>2
      <4>3. CASE i # 1
        <5>1. i - 1 \in 1 .. n
          BY <1>1, <4>3
        <5> QED BY <4>1, <4>3, <5>1
      <4> QED BY <4>2, <4>3
    <3> QED BY <3>1
  <2> HIDE DEF h
  <2>4. PICK f : Flat(f) /\ Seqs!FlattenSeq(seqs) = f[n]
    BY <1>3, <2>3 DEF Seqs!FlattenSeq
  <2> DEFINE F == [i \in 0 .. n |-> IF i = 0 THEN <<>> ELSE f[i]]
  <2>5. Joins(F, seqs)
    <3>1. F[0] = <<>>
      BY <1>1
    <3>2. ASSUME NEW i \in 1 .. n PROVE F[i] = F[i - 1] \o seqs[i]
      <4>1. f[i] = IF i = 1 THEN seqs[i] ELSE f[i - 1] \o seqs[i]
        BY <2>4
      <4>2. i \in 0 .. n /\ i # 0 /\ i - 1 \in 0 .. n /\ (i - 1 = 0 <=> i = 1)
        BY <1>1
      <4>3. seqs[i] = <<>> \o seqs[i]
        BY <1>1, ConcatEmptySeq
      <4> HIDE DEF Flat
      <4> QED BY <4>1, <4>2, <4>3
    <3> HIDE DEF F
    <3> QED BY <3>1, <3>2 DEF Joins
  <2>6. DOMAIN F = 0 .. n /\ F[n] = f[n] /\ F = [i \in 0 .. n |-> F[i]]
    BY <1>1, <1>3
  <2> HIDE DEF F
  <2>7. \A i \in 0 .. n : F[i] \in Seq(T)
    BY <1>1, <2>5, <2>6, JoinsType
  <2>8. F \in [0 .. n -> Seq(T)]
    BY <2>6, <2>7
  <2> QED BY <2>4, <2>5, <2>6, <2>8 DEF Joining
<1> QED BY <1>2, <1>3

(* The first m elements of a sequence.                                     *)
LEMMA FirstOnes ==
    ASSUME NEW T, NEW s \in Seq(T), NEW m \in 0 .. Len(s)
    PROVE  /\ SubSeq(s, 1, m) \in Seq(T) /\ Len(SubSeq(s, 1, m)) = m
           /\ \A j \in 1 .. m : SubSeq(s, 1, m)[j] = s[j]
<1>1. Len(s) \in Nat /\ \A j \in 1 .. Len(s) : s[j] \in T
  BY LenProperties
<1>2. \A j \in 1 .. m : /\ j \in 1 .. Len(s) /\ j \in 1 .. m - 1 + 1 /\ 1 + j - 1 = j
                        /\ s[j] \in T
  BY <1>1
<1>3. (IF 1 <= m THEN m - 1 + 1 ELSE 0) = m /\ m \in Int
  BY <1>1
<1>4. /\ SubSeq(s, 1, m) \in Seq(T)
      /\ Len(SubSeq(s, 1, m)) = IF 1 <= m THEN m - 1 + 1 ELSE 0
      /\ \A j \in 1 .. m - 1 + 1 : SubSeq(s, 1, m)[j] = s[1 + j - 1]
  BY <1>2, <1>3, SubSeqProperties
<1> QED BY <1>2, <1>3, <1>4

(* What is kept of the bytes B under the limit M.                          *)
Kept(B, M) == [bytes     |-> SubSeq(B, 1, IF Len(B) <= M THEN Len(B) ELSE M),
               truncated |-> ~(Len(B) <= M)]

Chained(u, s, t) == u = s \o t

(* One more chunk is kept as it would be in one body.                      *)
LEMMA OneMoreChunk ==
    ASSUME NEW B \in Seq(Nat), NEW chunk \in Seq(Nat), NEW M \in Nat,
           NEW u, Chained(u, B, chunk)
    PROVE  TakeChunk(Kept(B, M), chunk, M) = Kept(u, M)
<1>0. u = B \o chunk
  BY DEF Chained
<1>1. /\ u \in Seq(Nat)
      /\ Len(B) \in Nat /\ Len(chunk) \in Nat /\ Len(u) = Len(B) + Len(chunk)
      /\ \A j \in 1 .. Len(B) : u[j] = B[j]
      /\ \A j \in 1 .. Len(chunk) : u[Len(B) + j] = chunk[j]
  <2> DEFINE N == Nat
  <2>1. B \in Seq(N) /\ chunk \in Seq(N)
    OBVIOUS
  <2> HIDE DEF N
  <2>2. /\ u \in Seq(N)
        /\ Len(B) \in Nat /\ Len(chunk) \in Nat /\ Len(u) = Len(B) + Len(chunk)
        /\ \A j \in 1 .. Len(B) : u[j] = B[j]
        /\ \A j \in 1 .. Len(chunk) : u[Len(B) + j] = chunk[j]
    BY <1>0, <2>1, ConcatParts
  <2> QED BY <2>2 DEF N
<1>2. CASE ~(Len(B) <= M)
  <2>1. M \in 0 .. Len(B) /\ M \in 0 .. Len(u) /\ ~(Len(u) <= M)
    BY <1>1, <1>2
  <2>2. /\ SubSeq(B, 1, M) \in Seq(Nat) /\ Len(SubSeq(B, 1, M)) = M
        /\ \A j \in 1 .. M : SubSeq(B, 1, M)[j] = B[j]
    BY <2>1, FirstOnes
  <2>3. /\ SubSeq(u, 1, M) \in Seq(Nat) /\ Len(SubSeq(u, 1, M)) = M
        /\ \A j \in 1 .. M : SubSeq(u, 1, M)[j] = u[j]
    BY <1>1, <2>1, FirstOnes
  <2>4. ASSUME NEW j \in 1 .. M PROVE SubSeq(B, 1, M)[j] = SubSeq(u, 1, M)[j]
    <3>1. j \in 1 .. Len(B)
      BY <1>1, <1>2
    <3> QED BY <1>1, <2>2, <2>3, <3>1
  <2>5. SubSeq(B, 1, M) = SubSeq(u, 1, M)
    BY <2>2, <2>3, <2>4, SeqEqual
  <2>6. TakeChunk(Kept(B, M), chunk, M) = Kept(B, M)
    BY <1>2 DEF TakeChunk, Kept
  <2> QED BY <1>2, <2>1, <2>5, <2>6 DEF Kept
<1>3. CASE Len(B) <= M
  <2> DEFINE r == M - Len(B)
  <2>1. SubSeq(B, 1, Len(B)) = B
    BY SubSeqFull
  <2>2. Kept(B, M) = [bytes |-> B, truncated |-> FALSE]
    BY <1>3, <2>1 DEF Kept
  <2>3. CASE Len(chunk) > r
    <3> DEFINE p == SubSeq(chunk, 1, r)
               v == B \o p
    <3>1. r \in 0 .. Len(chunk) /\ M \in 0 .. Len(u) /\ ~(Len(u) <= M)
      BY <1>1, <1>3, <2>3
    <3>2. /\ p \in Seq(Nat) /\ Len(p) = r
          /\ \A j \in 1 .. r : p[j] = chunk[j]
      <4> HIDE DEF r
      <4> QED BY <3>1, FirstOnes
    <3>3. /\ SubSeq(u, 1, M) \in Seq(Nat) /\ Len(SubSeq(u, 1, M)) = M
          /\ \A j \in 1 .. M : SubSeq(u, 1, M)[j] = u[j]
      BY <1>1, <3>1, FirstOnes
    <3>4. TakeChunk(Kept(B, M), chunk, M) = [bytes |-> v, truncated |-> TRUE]
      BY <2>2, <2>3 DEF TakeChunk
    <3>5. v = B \o p
      OBVIOUS
    <3> HIDE DEF p, v
    <3>6. /\ v \in Seq(Nat) /\ Len(v) = Len(B) + Len(p)
          /\ \A j \in 1 .. Len(B) : v[j] = B[j]
          /\ \A j \in 1 .. Len(p) : v[Len(B) + j] = p[j]
      <4> DEFINE N == Nat
      <4>1. B \in Seq(N) /\ p \in Seq(N)
        BY <3>2
      <4> HIDE DEF N
      <4>2. /\ v \in Seq(N) /\ Len(v) = Len(B) + Len(p)
            /\ \A j \in 1 .. Len(B) : v[j] = B[j]
            /\ \A j \in 1 .. Len(p) : v[Len(B) + j] = p[j]
        BY <3>5, <4>1, ConcatParts
      <4> QED BY <4>2 DEF N
    <3>7. Len(v) = M
      BY <1>1, <3>2, <3>6
    <3>8. ASSUME NEW j \in 1 .. M PROVE v[j] = SubSeq(u, 1, M)[j]
      <4>1. CASE j <= Len(B)
        <5>1. j \in 1 .. Len(B)
          BY <1>1, <4>1
        <5> QED BY <1>1, <3>3, <3>6, <5>1
      <4>2. CASE ~(j <= Len(B))
        <5> DEFINE i == j - Len(B)
        <5>1. i \in 1 .. r /\ i \in 1 .. Len(chunk) /\ Len(B) + i = j
          BY <1>1, <3>1, <4>2
        <5> HIDE DEF i, r
        <5>2. v[j] = chunk[i] /\ u[j] = chunk[i]
          BY <1>1, <3>2, <3>6, <5>1
        <5> QED BY <3>3, <5>2
      <4> QED BY <4>1, <4>2
    <3>9. v = SubSeq(u, 1, M)
      BY <3>3, <3>6, <3>7, <3>8, SeqEqual
    <3> QED BY <3>1, <3>4, <3>9 DEF Kept
  <2>4. CASE ~(Len(chunk) > r)
    <3>1. Len(u) <= M
      BY <1>1, <1>3, <2>4
    <3>2. SubSeq(u, 1, Len(u)) = u
      BY <1>1, SubSeqFull
    <3> DEFINE body == Kept(B, M)
    <3>3. body = [bytes |-> B, truncated |-> FALSE] /\ ~(Len(chunk) > M - Len(B))
      BY <2>2, <2>4
    <3> HIDE DEF body
    <3>4. TakeChunk(body, chunk, M) = [bytes |-> B \o chunk, truncated |-> FALSE]
      BY <1>1, <3>3 DEF TakeChunk
    <3>5. Kept(u, M) = [bytes |-> u, truncated |-> FALSE]
      BY <3>1, <3>2 DEF Kept
    <3> QED BY <1>0, <3>4, <3>5 DEF body
  <2> QED BY <2>3, <2>4
<1> QED BY <1>2, <1>3

(* f is the function that the body loop is defined by.                     *)
TakesChunks(f, chunks, M, S) ==
    f = [s \in SUBSET S |->
            IF s = {} THEN [bytes |-> <<>>, truncated |-> FALSE]
            ELSE TakeChunk(f[s \ {Seqs!Max(s)}], chunks[Seqs!Max(s)], M)]

Takable(chunks, M, S) == \E f : TakesChunks(f, chunks, M, S)

LEMMA LastOf ==
    ASSUME NEW k \in Nat, NEW s \in SUBSET (1 .. k + 1), k + 1 \in s
    PROVE  Seqs!Max(s) = k + 1
<1>1. \A y \in s : y \in Nat /\ k + 1 >= y
  OBVIOUS
<1>2. \A x \in s : (\A y \in s : x >= y) => x = k + 1
  <2> SUFFICES ASSUME NEW x \in s, \A y \in s : x >= y PROVE x = k + 1
    OBVIOUS
  <2>1. x >= k + 1 /\ k + 1 >= x /\ x \in Nat
    BY <1>1
  <2> QED BY <2>1
<1> QED BY <1>1, <1>2 DEF Seqs!Max

(* There is such a function: it is extended by one chunk at a time.        *)
LEMMA ChunksAreTaken ==
    ASSUME NEW n \in Nat, NEW chunks, NEW M
    PROVE  Takable(chunks, M, 1 .. n)
<1> DEFINE bad == {k \in 0 .. n : ~Takable(chunks, M, 1 .. k)}
<1>1. ASSUME bad # {} PROVE FALSE
  <2>1. bad \subseteq Nat
    OBVIOUS
  <2>2. PICK k \in bad : \A j \in bad : k <= j
    <3> HIDE DEF bad
    <3> QED BY <1>1, <2>1, SmallestOf
  <2>3. k # 0
    <3> DEFINE f == [s \in SUBSET (1 .. 0) |-> [bytes |-> <<>>, truncated |-> FALSE]]
    <3>1. 1 .. 0 = {}
      OBVIOUS
    <3>2. TakesChunks(f, chunks, M, 1 .. 0)
      BY <3>1 DEF TakesChunks
    <3> QED BY <2>2, <3>2 DEF Takable
  <2>4. k - 1 \in 0 .. n /\ k - 1 < k /\ k - 1 \in Nat
    BY <2>2, <2>3
  <2>5. Takable(chunks, M, 1 .. k - 1)
    BY <2>2, <2>4
  <2>6. PICK f : TakesChunks(f, chunks, M, 1 .. k - 1)
    BY <2>5 DEF Takable
  <2> DEFINE g == [s \in SUBSET (1 .. k) |->
                     IF k \in s THEN TakeChunk(f[s \ {k}], chunks[k], M) ELSE f[s]]
  <2>7. \A s \in SUBSET (1 .. k) : /\ s \ {k} \in SUBSET (1 .. k - 1)
                                   /\ s \ {k} \in SUBSET (1 .. k)
                                   /\ k \notin s => s \in SUBSET (1 .. k - 1)
    BY <2>4
  <2>8. ASSUME NEW s \in SUBSET (1 .. k)
        PROVE  g[s] = IF s = {} THEN [bytes |-> <<>>, truncated |-> FALSE]
                      ELSE TakeChunk(g[s \ {Seqs!Max(s)}], chunks[Seqs!Max(s)], M)
    <3>1. CASE k \in s
      <4>1. Seqs!Max(s) = k
        <5> DEFINE p == k - 1
        <5>1. p \in Nat /\ s \in SUBSET (1 .. p + 1) /\ p + 1 \in s /\ p + 1 = k
          BY <2>4, <3>1
        <5> HIDE DEF p
        <5>2. Seqs!Max(s) = p + 1
          BY <5>1, LastOf
        <5> QED BY <5>1, <5>2
      <4>2. g[s \ {k}] = f[s \ {k}]
        BY <2>7
      <4>3. g[s] = TakeChunk(f[s \ {k}], chunks[k], M) /\ s # {}
        BY <3>1
      <4> HIDE DEF g
      <4> QED BY <4>1, <4>2, <4>3
    <3>2. CASE k \notin s
      <4>1. g[s] = f[s] /\ s \in SUBSET (1 .. k - 1)
        BY <2>7, <3>2
      <4>2. f[s] = IF s = {} THEN [bytes |-> <<>>, truncated |-> FALSE]
                   ELSE TakeChunk(f[s \ {Seqs!Max(s)}], chunks[Seqs!Max(s)], M)
        BY <2>6, <4>1 DEF TakesChunks
      <4>3. g[s \ {Seqs!Max(s)}] = f[s \ {Seqs!Max(s)}]
        BY <3>2
      <4> HIDE DEF g
      <4> QED BY <4>1, <4>2, <4>3
    <3> QED BY <3>1, <3>2
  <2>9. g = [s \in SUBSET (1 .. k) |-> g[s]]
    OBVIOUS
  <2> HIDE DEF g
  <2>10. TakesChunks(g, chunks, M, 1 .. k)
    BY <2>8, <2>9 DEF TakesChunks
  <2> QED BY <2>2, <2>10 DEF Takable
<1>2. n \in 0 .. n
  OBVIOUS
<1> QED BY <1>1, <1>2

(* However a body is parted, it is kept up to the limit, and called        *)
(* truncated if it was longer.                                             *)
LEMMA BodyIsCut ==
    ASSUME NEW chunks \in Seq(Seq(Nat)), NEW M \in Nat
    PROVE  ReadBody(chunks, M) = Kept(Seqs!FlattenSeq(chunks), M)
<1> DEFINE n == Len(chunks)
<1>1. n \in Nat /\ DOMAIN chunks = 1 .. n /\ chunks \in [1 .. n -> Seq(Nat)]
  BY LenProperties
<1>2. \E f : f = [s \in SUBSET DOMAIN chunks |->
            IF s = {} THEN [bytes |-> <<>>, truncated |-> FALSE]
            ELSE TakeChunk(f[s \ {Seqs!Max(s)}], chunks[Seqs!Max(s)], M)]
  <2>1. Takable(chunks, M, DOMAIN chunks)
    BY <1>1, ChunksAreTaken
  <2> QED BY <2>1 DEF Takable, TakesChunks
<1>3. \E f : /\ f = [s \in SUBSET DOMAIN chunks |->
                       IF s = {} THEN [bytes |-> <<>>, truncated |-> FALSE]
                       ELSE TakeChunk(f[s \ {Seqs!Max(s)}], chunks[Seqs!Max(s)], M)]
             /\ ReadBody(chunks, M) = f[DOMAIN chunks]
  BY <1>2 DEF ReadBody, Seqs!FoldLeft, Seqs!MapThenFoldSet
<1>4. PICK f : /\ TakesChunks(f, chunks, M, 1 .. n)
               /\ ReadBody(chunks, M) = f[1 .. n]
  BY <1>1, <1>3 DEF TakesChunks
<1>5. PICK F : /\ Joining(F, chunks, Nat)
               /\ Seqs!FlattenSeq(chunks) = F[n]
  BY FlattenJoins
<1> DEFINE Q(k) == f[1 .. k] = Kept(F[k], M)
           bad == {k \in 0 .. n : ~Q(k)}
<1>6. Q(0)
  <2>1. 1 .. 0 = {} /\ {} \in SUBSET (1 .. n)
    OBVIOUS
  <2>2. f[{}] = [bytes |-> <<>>, truncated |-> FALSE]
    BY <2>1, <1>4 DEF TakesChunks
  <2>3. F[0] = <<>>
    BY <1>5 DEF Joining, Joins
  <2>4. <<>> \in Seq(Nat) /\ Len(<<>>) = 0 /\ SubSeq(<<>>, 1, 0) = <<>>
    BY EmptySeq, SubSeqEmpty
  <2>5. Kept(<<>>, M) = [bytes |-> <<>>, truncated |-> FALSE]
    <3>1. Len(<<>>) <= M
      BY <2>4
    <3> QED BY <2>4, <3>1 DEF Kept
  <2> QED BY <2>1, <2>2, <2>3, <2>5
<1>7. ASSUME NEW k \in 1 .. n, Q(k - 1) PROVE Q(k)
  <2> DEFINE p == k - 1
  <2>1. p \in Nat /\ k \in 0 .. n /\ p \in 0 .. n /\ p + 1 = k
    BY <1>1
  <2>2. 1 .. k \in SUBSET (1 .. n) /\ 1 .. k # {} /\ k \in 1 .. k
        /\ (1 .. k) \ {k} = 1 .. p /\ 1 .. k \in SUBSET (1 .. p + 1)
    <3>1. \A i \in 1 .. k : i \in 1 .. n
      BY <1>1
    <3>2. k \in 1 .. k
      BY <1>1
    <3>3. (1 .. k) \ {k} = 1 .. p
      BY <2>1
    <3> QED BY <2>1, <3>1, <3>2, <3>3
  <2>3. Seqs!Max(1 .. k) = k
    <3> HIDE DEF p
    <3>1. p + 1 \in 1 .. k
      BY <2>1, <2>2
    <3>2. Seqs!Max(1 .. k) = p + 1
      BY <2>1, <2>2, <3>1, LastOf
    <3> QED BY <2>1, <3>2
  <2>4. f[1 .. k] = TakeChunk(f[(1 .. k) \ {k}], chunks[k], M)
    BY <1>4, <2>2, <2>3 DEF TakesChunks
  <2>5. F[p] \in Seq(Nat) /\ chunks[k] \in Seq(Nat) /\ F[k] = F[p] \o chunks[k]
    BY <1>1, <1>5, <2>1 DEF Joining, Joins
  <2>6. f[1 .. p] = Kept(F[p], M)
    BY <1>7
  <2> HIDE DEF p
  <2>7. TakeChunk(Kept(F[p], M), chunks[k], M) = Kept(F[k], M)
    <3> DEFINE a == F[p]
               b == chunks[k]
               c == F[k]
    <3>1. a \in Seq(Nat) /\ b \in Seq(Nat) /\ Chained(c, a, b)
      BY <2>5 DEF Chained
    <3> HIDE DEF a, b, c
    <3>2. TakeChunk(Kept(a, M), b, M) = Kept(c, M)
      BY <3>1, OneMoreChunk
    <3> QED BY <3>2 DEF a, b, c
  <2> QED BY <2>2, <2>4, <2>6, <2>7
<1>8. ASSUME bad # {} PROVE FALSE
  <2>1. bad \subseteq Nat
    OBVIOUS
  <2>2. PICK k \in bad : \A j \in bad : k <= j
    <3> HIDE DEF bad
    <3> QED BY <1>8, <2>1, SmallestOf
  <2> HIDE DEF Q
  <2>3. k # 0
    BY <1>6, <2>2
  <2>4. k \in 1 .. n /\ k - 1 \in 0 .. n /\ k - 1 < k
    BY <1>1, <2>2, <2>3
  <2>5. Q(k - 1)
    BY <2>2, <2>4
  <2> QED BY <1>7, <2>2, <2>4, <2>5
<1>9. Q(n)
  <2> HIDE DEF Q
  <2> QED BY <1>1, <1>8
<1> QED BY <1>4, <1>5, <1>9

(* What the decoding finds at offset o, where f is what it finds later.    *)
FrameAt(payload, f, o) ==
    LET rest == Len(payload) - o
        size == payload[o + HeaderBytes]
        text == SubSeq(payload, o + HeaderBytes + 1, o + HeaderBytes + size)
    IN  IF rest = 0 THEN Ended
        ELSE IF rest < HeaderBytes THEN HeaderCut
        ELSE IF payload[o + 2] # 0 \/ size > MaxLogBytes THEN Malformed
        ELSE IF rest < HeaderBytes + size THEN FrameCut
        ELSE IF payload[o + 1] \notin {Stdout, Stderr} THEN Malformed
        ELSE [f[o + HeaderBytes + size] EXCEPT
                !.entries = EntriesOf(payload[o + 1], text) \o @]

LEMMA FrameAhead ==
    ASSUME NEW payload \in Seq(Nat), NEW f, NEW g, NEW o \in 0 .. Len(payload),
           \A x \in o + 1 .. Len(payload) : f[x] = g[x]
    PROVE  FrameAt(payload, f, o) = FrameAt(payload, g, o)
<1> DEFINE n == Len(payload)
           size == payload[o + HeaderBytes]
<1>1. n \in Nat /\ \A i \in 1 .. n : payload[i] \in Nat
  BY LenProperties
<1>2. CASE /\ ~(n - o < HeaderBytes) /\ ~(n - o < HeaderBytes + size)
  <2>1. o + HeaderBytes \in 1 .. n
    BY <1>1, <1>2 DEF HeaderBytes
  <2>2. size \in Nat
    BY <1>1, <2>1
  <2> HIDE DEF size
  <2>3. o + HeaderBytes + size \in o + 1 .. n
    BY <1>1, <1>2, <2>1, <2>2 DEF HeaderBytes
  <2>4. f[o + HeaderBytes + size] = g[o + HeaderBytes + size]
    BY <2>3
  <2> QED BY <2>4 DEF FrameAt, size
<1>3. CASE (n - o < HeaderBytes) \/ (n - o < HeaderBytes + size)
  BY <1>1, <1>3 DEF FrameAt, HeaderBytes
<1> QED BY <1>2, <1>3

FramedFrom(payload, f, D) == f = [o \in D |-> FrameAt(payload, f, o)]

Framable(payload, D) == \E f : FramedFrom(payload, f, D)

LEMMA FramesAreFound ==
    ASSUME NEW payload \in Seq(Nat)
    PROVE  \E g : /\ FramedFrom(payload, g, 0 .. Len(payload))
                  /\ FramesFrom(payload) = g[0]
<1> DEFINE n == Len(payload)
           D(k) == n + 1 - k .. n
           bad == {k \in 0 .. n + 1 : ~Framable(payload, D(k))}
<1>1. n \in Nat
  BY LenProperties
<1>2. ASSUME bad # {} PROVE FALSE
  <2>1. bad \subseteq Nat
    OBVIOUS
  <2>2. PICK k \in bad : \A j \in bad : k <= j
    <3> HIDE DEF bad
    <3> QED BY <1>2, <2>1, SmallestOf
  <2>3. k # 0
    <3>1. D(0) = {}
      BY <1>1
    <3>2. FramedFrom(payload, [o \in {} |-> Ended], {})
      BY DEF FramedFrom
    <3> QED BY <2>2, <3>1, <3>2 DEF Framable
  <2>4. k \in 1 .. n + 1 /\ k - 1 \in 0 .. n + 1 /\ k - 1 < k
    BY <1>1, <2>2, <2>3
  <2>5. Framable(payload, D(k - 1))
    <3>1. k - 1 \notin bad
      <4> HIDE DEF bad
      <4> QED BY <2>1, <2>2, <2>4
    <3> HIDE DEF D
    <3> QED BY <2>4, <3>1
  <2>6. PICK f : FramedFrom(payload, f, D(k - 1))
    BY <2>5 DEF Framable
  <2> DEFINE o == n + 1 - k
             Found(x) == IF x = o THEN FrameAt(payload, f, o) ELSE f[x]
             g == [x \in D(k) |-> Found(x)]
  <2>7. /\ o \in 0 .. n /\ D(k) = D(k - 1) \cup {o} /\ o \notin D(k - 1)
        /\ \A x \in D(k) : x \in 0 .. n
                           /\ \A y \in x + 1 .. n : y \in D(k - 1) /\ y # o
    BY <1>1, <2>4
  <2>8. \A y \in D(k - 1) : g[y] = f[y]
    BY <2>7
  <2>9. ASSUME NEW x \in D(k) PROVE g[x] = FrameAt(payload, g, x)
    <3>1. \A y \in x + 1 .. n : f[y] = g[y]
      BY <2>7, <2>8
    <3>2. FrameAt(payload, f, x) = FrameAt(payload, g, x)
      <4> HIDE DEF g
      <4> QED BY <2>7, <3>1, FrameAhead
    <3>3. CASE x = o
      BY <3>2, <3>3
    <3>4. CASE x # o
      <4>1. x \in D(k - 1)
        BY <2>7, <3>4
      <4>2. f[x] = FrameAt(payload, f, x)
        <5> DEFINE P == D(k - 1)
        <5>1. x \in P /\ f = [z \in P |-> FrameAt(payload, f, z)]
          BY <2>6, <4>1 DEF FramedFrom
        <5> HIDE DEF P
        <5> QED BY <5>1
      <4> QED BY <2>8, <3>2, <4>1, <4>2
    <3> QED BY <3>3, <3>4
  <2>10. FramedFrom(payload, g, D(k))
    <3>1. g = [x \in D(k) |-> g[x]]
      OBVIOUS
    <3> HIDE DEF g, D
    <3> QED BY <2>9, <3>1 DEF FramedFrom
  <2> QED BY <2>2, <2>10 DEF Framable
<1>3. n + 1 \in 0 .. n + 1 /\ D(n + 1) = 0 .. n
  BY <1>1
<1>4. Framable(payload, 0 .. n)
  BY <1>2, <1>3
<1>5. \E f : f = [o \in 0 .. n |-> FrameAt(payload, f, o)]
  BY <1>4 DEF Framable, FramedFrom
<1>6. \E f : /\ f = [o \in 0 .. n |-> FrameAt(payload, f, o)]
             /\ FramesFrom(payload) = f[0]
  BY <1>5 DEF FrameAt, FramesFrom
<1> QED BY <1>6 DEF FramedFrom

LEMMA EntriesAreSeq ==
    ASSUME NEW stream, NEW text \in Seq(Nat), NEW T,
           \A k \in DOMAIN EntriesOf(stream, text) : EntriesOf(stream, text)[k] \in T
    PROVE  EntriesOf(stream, text) \in Seq(T)
<1> DEFINE starts == {i \in DOMAIN text : i = 1 \/ i - 1 \in {j \in DOMAIN text : text[j] = Newline}}
           n == Cardinality(starts)
           entries == EntriesOf(stream, text)
<1>1. n \in Nat
  <2>1. Len(text) \in Nat /\ DOMAIN text = 1 .. Len(text)
    BY LenProperties
  <2>2. IsFiniteSet(DOMAIN text)
    BY <2>1, FS_Interval
  <2>3. starts \subseteq DOMAIN text
    OBVIOUS
  <2> HIDE DEF starts
  <2> QED BY <2>2, <2>3, FS_Subset, FS_CardinalityType
<1>2. DOMAIN Lines(text) = 1 .. n
  BY DEF Lines
<1> HIDE DEF n
<1>3. DOMAIN entries = 1 .. n /\ entries = [k \in 1 .. n |-> entries[k]]
  BY <1>2 DEF EntriesOf
<1> HIDE DEF entries
<1>4. entries \in [1 .. n -> T]
  BY <1>3 DEF entries
<1> QED BY <1>1, <1>4, SeqDef DEF entries

(* Writes as the engine frames them.                                       *)
Logged(writes) ==
    /\ writes \in Seq([stream : {Stdout, Stderr}, text : Seq(Nat)])
    /\ \A i \in 1 .. Len(writes) : Len(writes[i].text) <= MaxLogBytes

FrameOf(write) == <<write.stream, 0, Len(write.text)>> \o write.text

LEMMA FrameBytes ==
    ASSUME MaxLogBytes \in Nat, NEW writes, Logged(writes), NEW i \in 1 .. Len(writes)
    PROVE  LET frame == FrameOf(writes[i])
               text  == writes[i].text
           IN  /\ text \in Seq(Nat) /\ Len(text) \in Nat /\ Len(text) <= MaxLogBytes
               /\ frame \in Seq(Nat) /\ Len(frame) = HeaderBytes + Len(text)
               /\ writes[i].stream \in {Stdout, Stderr}
               /\ frame[1] = writes[i].stream /\ frame[2] = 0 /\ frame[3] = Len(text)
               /\ \A j \in 1 .. Len(text) : frame[HeaderBytes + j] = text[j]
<1> DEFINE write == writes[i]
           text == write.text
           header == <<write.stream, 0, Len(text)>>
           frame == header \o text
<1>1. write \in [stream : {Stdout, Stderr}, text : Seq(Nat)]
      /\ Len(text) <= MaxLogBytes
  BY ElementOfSeq DEF Logged
<1>2. text \in Seq(Nat) /\ write.stream \in {Stdout, Stderr}
  BY <1>1
<1>3. Len(text) \in Nat
  BY <1>2, LenProperties
<1>4. header \in Seq(Nat) /\ Len(header) = 3
      /\ header[1] = write.stream /\ header[2] = 0 /\ header[3] = Len(text)
  BY <1>2, <1>3 DEF Stdout, Stderr
<1> HIDE DEF header, text
<1>0. frame = header \o text
  OBVIOUS
<1> HIDE DEF frame
<1>5. /\ frame \in Seq(Nat) /\ Len(frame) = Len(header) + Len(text)
      /\ \A j \in 1 .. Len(header) : frame[j] = header[j]
      /\ \A j \in 1 .. Len(text) : frame[Len(header) + j] = text[j]
  <2> DEFINE N == Nat
  <2>1. header \in Seq(N) /\ text \in Seq(N) /\ frame = header \o text
    BY <1>0, <1>2, <1>4
  <2> HIDE DEF N
  <2>2. /\ frame \in Seq(N) /\ Len(frame) = Len(header) + Len(text)
        /\ \A j \in 1 .. Len(header) : frame[j] = header[j]
        /\ \A j \in 1 .. Len(text) : frame[Len(header) + j] = text[j]
    BY <2>1, ConcatParts
  <2> QED BY <2>2 DEF N
<1>6. /\ frame[1] = header[1] /\ frame[2] = header[2] /\ frame[3] = header[3]
  <2>1. 1 \in 1 .. 3 /\ 2 \in 1 .. 3 /\ 3 \in 1 .. 3
    OBVIOUS
  <2> QED BY <1>4, <1>5, <2>1
<1>7. /\ text \in Seq(Nat) /\ Len(text) \in Nat /\ Len(text) <= MaxLogBytes
      /\ frame \in Seq(Nat) /\ Len(frame) = HeaderBytes + Len(text)
      /\ writes[i].stream \in {Stdout, Stderr}
      /\ frame[1] = writes[i].stream /\ frame[2] = 0 /\ frame[3] = Len(text)
      /\ \A j \in 1 .. Len(text) : frame[HeaderBytes + j] = text[j]
  BY <1>1, <1>2, <1>3, <1>4, <1>5, <1>6 DEF HeaderBytes
<1>8. frame = FrameOf(writes[i]) /\ text = writes[i].text
  BY DEF frame, header, text, FrameOf
<1> QED BY <1>7, <1>8

(* F joins the frames of the writes, E their entries, and g holds what the *)
(* decoding finds in the first L bytes of the frames.                      *)
Decoding(writes, frames, entries, F, E, T, payload, g) ==
    LET n == Len(writes)
        B == F[n]
        L == Len(payload)
    IN  /\ Logged(writes)
        /\ Len(frames) = n /\ Joining(F, frames, Nat)
        /\ \A i \in 1 .. n : frames[i] = FrameOf(writes[i])
        /\ Len(entries) = n /\ Joining(E, entries, T)
        /\ \A i \in 1 .. n :
              entries[i] = EntriesOf(writes[i].stream, writes[i].text)
        /\ payload \in Seq(Nat) /\ L <= Len(B)
        /\ \A j \in 1 .. L : payload[j] = B[j]
        /\ FramedFrom(payload, g, 0 .. L)

FoundOf(T) == [entries : Seq(T), truncated : BOOLEAN, malformed : {FALSE}]

(* At the beginning of a frame: the rest is decoded, and if nothing of it  *)
(* was cut the entries are all there.                                      *)
DecodedFrom(i, n, F, E, T, L, g) ==
    LET found == g[LenAt(F, i)] IN
    LenAt(F, i) <= L =>
        /\ found \in FoundOf(T)
        /\ L = LenAt(F, n) => E[i] \o found.entries = E[n]

LEMMA DecodedAtEnd ==
    ASSUME NEW writes, NEW frames, NEW entries, NEW F, NEW E, NEW T,
           NEW payload, NEW g,
           Decoding(writes, frames, entries, F, E, T, payload, g)
    PROVE  DecodedFrom(Len(writes), Len(writes), F, E, T, Len(payload), g)
<1> DEFINE n == Len(writes)
           L == Len(payload)
           o == LenAt(F, n)
<1>1. n \in Nat /\ L \in Nat
  BY LenProperties DEF Decoding, Logged
<1>2. n \in 0 .. n /\ E[n] \in Seq(T) /\ F[n] \in Seq(Nat)
  BY <1>1 DEF Decoding, Joining
<1>3. o \in Nat /\ L <= o
  BY <1>2, LenProperties DEF Decoding, LenAt
<1>4. ASSUME o <= L
      PROVE  g[o] \in FoundOf(T) /\ E[n] \o g[o].entries = E[n]
  <2>1. L - o = 0 /\ o \in 0 .. L
    BY <1>1, <1>3, <1>4
  <2> HIDE DEF o
  <2>2. g[o] = FrameAt(payload, g, o)
    BY <2>1 DEF Decoding, FramedFrom
  <2>3. g[o] = Ended
    BY <2>1, <2>2 DEF FrameAt
  <2>4. <<>> \in Seq(T) /\ E[n] \o <<>> = E[n]
    BY <1>2, EmptySeq, ConcatEmptySeq
  <2> QED BY <2>3, <2>4 DEF Ended, FoundOf
<1> QED BY <1>4 DEF DecodedFrom

LEMMA DecodedOnce ==
    ASSUME MaxLogBytes \in Nat,
           NEW writes, NEW frames, NEW entries, NEW F, NEW E, NEW T,
           NEW payload, NEW g,
           Decoding(writes, frames, entries, F, E, T, payload, g),
           NEW m \in 1 .. Len(writes),
           DecodedFrom(m, Len(writes), F, E, T, Len(payload), g)
    PROVE  DecodedFrom(m - 1, Len(writes), F, E, T, Len(payload), g)
<1> DEFINE n == Len(writes)
           L == Len(payload)
           o == LenAt(F, m - 1)
           text == writes[m].text
           stream == writes[m].stream
           size == Len(text)
<1>1. n \in Nat /\ L \in Nat
  BY LenProperties DEF Decoding, Logged
<1>2. /\ m \in 0 .. n /\ m - 1 \in 0 .. n /\ n \in 0 .. n /\ n \in m .. n
  BY <1>1
<1>3. /\ text \in Seq(Nat) /\ size \in Nat /\ size <= MaxLogBytes
      /\ stream \in {Stdout, Stderr}
      /\ LenAt(frames, m) = HeaderBytes + size
      /\ frames[m][1] = stream /\ frames[m][2] = 0 /\ frames[m][3] = size
      /\ \A j \in 1 .. size : frames[m][HeaderBytes + j] = text[j]
  BY FrameBytes DEF Decoding, LenAt
<1>4. /\ o \in Nat
      /\ LenAt(F, m) = o + LenAt(frames, m)
      /\ LenAt(F, m) <= LenAt(F, n)
      /\ \A j \in 1 .. LenAt(frames, m) : F[n][o + j] = frames[m][j]
  <2>1. /\ Joining(F, frames, Nat) /\ Len(frames) = n
    BY DEF Decoding
  <2>2. /\ LenAt(F, m - 1) \in Nat
        /\ LenAt(F, m) = LenAt(F, m - 1) + LenAt(frames, m)
    BY <2>1, JoinsStep
  <2>3. /\ LenAt(F, m) <= LenAt(F, Len(frames))
        /\ \A j \in 1 .. LenAt(frames, m) :
              F[Len(frames)][LenAt(F, m - 1) + j] = frames[m][j]
    BY <2>1, PartInPlace
  <2> QED BY <2>1, <2>2, <2>3
<1>5. /\ L <= LenAt(F, n) /\ \A j \in 1 .. L : payload[j] = F[n][j]
  BY DEF Decoding, LenAt
<1>6. /\ E[m - 1] \in Seq(T) /\ entries[m] \in Seq(T)
      /\ E[m] = E[m - 1] \o entries[m] /\ E[n] \in Seq(T)
      /\ entries[m] = EntriesOf(stream, text)
  <2>1. entries \in [1 .. n -> Seq(T)]
    BY LenProperties DEF Decoding, Joining
  <2> QED BY <1>2, <2>1 DEF Decoding, Joining, Joins
<1> HIDE DEF o, text, stream, size
<1>7. ASSUME o <= L
      PROVE  /\ g[o] \in FoundOf(T)
             /\ L = LenAt(F, n) => E[m - 1] \o g[o].entries = E[n]
  <2>1. g[o] = FrameAt(payload, g, o)
    <3>1. o \in 0 .. L
      BY <1>1, <1>4, <1>7
    <3> QED BY <3>1 DEF Decoding, FramedFrom
  <2>2. <<>> \in Seq(T)
    BY EmptySeq
  <2>3. CASE L - o < HeaderBytes + size
    <3>1. L # LenAt(F, n)
      BY <1>1, <1>3, <1>4, <1>5, <2>3 DEF HeaderBytes
    <3>2. g[o] \in {Ended, FrameCut}
      <4>1. CASE L - o < HeaderBytes
        BY <2>1, <4>1 DEF FrameAt, HeaderCut
      <4>2. CASE ~(L - o < HeaderBytes)
        <5>1. /\ L - o # 0 /\ o + 2 \in 1 .. L /\ o + 3 \in 1 .. L
              /\ 2 \in 1 .. HeaderBytes + size /\ 3 \in 1 .. HeaderBytes + size
          BY <1>1, <1>3, <1>4, <4>2 DEF HeaderBytes
        <5>2. payload[o + 2] = 0 /\ payload[o + HeaderBytes] = size
          BY <1>3, <1>4, <1>5, <5>1 DEF HeaderBytes
        <5>3. ~(size > MaxLogBytes)
          BY <1>3
        <5> QED BY <2>1, <2>3, <4>2, <5>1, <5>2, <5>3 DEF FrameAt
      <4> QED BY <4>1, <4>2
    <3>3. Ended \in FoundOf(T) /\ FrameCut \in FoundOf(T)
      BY <2>2 DEF Ended, FrameCut, FoundOf
    <3> QED BY <3>1, <3>2, <3>3
  <2>4. CASE ~(L - o < HeaderBytes + size)
    <3> DEFINE e == o + HeaderBytes + size
               found == g[e]
    <3>1. /\ L - o # 0 /\ ~(L - o < HeaderBytes) /\ o + 1 \in 1 .. L
          /\ o + 2 \in 1 .. L /\ o + 3 \in 1 .. L
          /\ 1 \in 1 .. HeaderBytes + size
          /\ 2 \in 1 .. HeaderBytes + size /\ 3 \in 1 .. HeaderBytes + size
      BY <1>1, <1>3, <1>4, <2>4 DEF HeaderBytes
    <3>2. /\ payload[o + 1] = stream
          /\ payload[o + 2] = 0 /\ payload[o + HeaderBytes] = size
      BY <1>3, <1>4, <1>5, <3>1 DEF HeaderBytes
    <3>3. ~(size > MaxLogBytes)
      BY <1>3
    <3>4. SubSeq(payload, o + HeaderBytes + 1, o + HeaderBytes + size) = text
      <4> DEFINE b == o + HeaderBytes + 1
                 cut == SubSeq(payload, b, e)
      <4>1. /\ b \in Int /\ e \in Int /\ e - b + 1 = size
            /\ (IF b <= e THEN e - b + 1 ELSE 0) = size
        BY <1>3, <1>4 DEF HeaderBytes
      <4>2. \A j \in 1 .. size :
               /\ HeaderBytes + j \in 1 .. HeaderBytes + size
               /\ o + (HeaderBytes + j) \in 1 .. L
               /\ b + j - 1 = o + (HeaderBytes + j)
        BY <1>1, <1>3, <1>4, <2>4 DEF HeaderBytes
      <4>3. \A i \in b .. e : i \in 1 .. L
        BY <1>1, <1>3, <1>4, <2>4 DEF HeaderBytes
      <4>4. \A i \in 1 .. L : payload[i] \in Nat
        BY LenProperties DEF Decoding
      <4> HIDE DEF b, e
      <4>5. /\ cut \in Seq(Nat)
            /\ Len(cut) = IF b <= e THEN e - b + 1 ELSE 0
            /\ \A j \in 1 .. e - b + 1 : cut[j] = payload[b + j - 1]
        BY <4>1, <4>3, <4>4, SubSeqProperties
      <4> HIDE DEF cut
      <4>6. ASSUME NEW j \in 1 .. size PROVE cut[j] = text[j]
        <5>1. cut[j] = payload[o + (HeaderBytes + j)]
          BY <4>1, <4>2, <4>5
        <5>2. F[n][o + (HeaderBytes + j)] = frames[m][HeaderBytes + j]
          BY <1>3, <1>4, <4>2
        <5> QED BY <1>3, <1>5, <4>2, <5>1, <5>2
      <4>7. cut = text
        BY <1>3, <4>1, <4>5, <4>6, SeqEqual DEF size
      <4> QED BY <4>7 DEF cut, b, e
    <3>5. g[o] = [g[e] EXCEPT !.entries = EntriesOf(stream, text) \o @]
      BY <1>3, <2>1, <2>4, <3>1, <3>2, <3>3, <3>4 DEF FrameAt
    <3>6. e = LenAt(F, m) /\ e <= L
      BY <1>1, <1>3, <1>4, <2>4 DEF HeaderBytes
    <3>7. /\ found \in FoundOf(T)
          /\ L = LenAt(F, n) => E[m] \o found.entries = E[n]
      <4>1. LenAt(F, m) <= L
        BY <3>6
      <4> QED BY <3>6, <4>1 DEF DecodedFrom
    <3> HIDE DEF found
    <3>8. found.entries \in Seq(T)
      BY <3>7 DEF FoundOf
    <3>9. g[o] = [found EXCEPT !.entries = entries[m] \o @]
      BY <1>6, <3>5 DEF found
    <3>10. entries[m] \o found.entries \in Seq(T)
      BY <1>6, <3>8, ConcatProperties
    <3>11. /\ g[o] \in FoundOf(T)
           /\ g[o].entries = entries[m] \o found.entries
      BY <3>7, <3>9, <3>10 DEF FoundOf
    <3>12. (E[m - 1] \o entries[m]) \o found.entries
              = E[m - 1] \o (entries[m] \o found.entries)
      <4> DEFINE x == E[m - 1]
                 y == entries[m]
                 z == found.entries
      <4>1. x \in Seq(T) /\ y \in Seq(T) /\ z \in Seq(T)
        BY <1>6, <3>8
      <4> HIDE DEF x, y, z
      <4>2. (x \o y) \o z = x \o (y \o z)
        BY <4>1, ConcatAssociative
      <4> QED BY <4>2 DEF x, y, z
    <3> QED BY <1>6, <3>7, <3>11, <3>12
  <2> QED BY <2>3, <2>4
<1> QED BY <1>7 DEF DecodedFrom, o

(* What the engine sends is bytes: with a terminal any, otherwise those of *)
(* the frames.                                                             *)
LEMMA FramedIsBytes ==
    ASSUME MaxLogBytes \in Nat, NEW writes, Logged(writes),
           NEW terminal \in BOOLEAN
    PROVE  Framed(writes, terminal) \in Seq(Nat)
<1> DEFINE parts == [i \in DOMAIN writes |->
               IF terminal THEN writes[i].text
               ELSE <<writes[i].stream, 0, Len(writes[i].text)>> \o writes[i].text]
<1>1. Len(writes) \in Nat /\ DOMAIN writes = 1 .. Len(writes)
  BY LenProperties DEF Logged
<1>2. ASSUME NEW i \in 1 .. Len(writes) PROVE parts[i] \in Seq(Nat)
  <2>1. writes[i].text \in Seq(Nat) /\ FrameOf(writes[i]) \in Seq(Nat)
    BY FrameBytes
  <2> QED BY <1>1, <2>1 DEF FrameOf
<1>3. parts \in [1 .. Len(writes) -> Seq(Nat)]
  <2>1. parts = [i \in 1 .. Len(writes) |-> parts[i]]
    BY <1>1
  <2> HIDE DEF parts
  <2> QED BY <1>2, <2>1
<1> HIDE DEF parts
<1>4. parts \in Seq(Seq(Nat))
  BY <1>1, <1>3, SeqDef
<1>5. PICK F : Joining(F, parts, Nat) /\ Seqs!FlattenSeq(parts) = F[Len(parts)]
  BY <1>4, FlattenJoins
<1>6. F[Len(parts)] \in Seq(Nat)
  <2>1. Len(parts) \in 0 .. Len(parts)
    BY <1>4, LenProperties
  <2> QED BY <1>5, <2>1 DEF Joining
<1> QED BY <1>5, <1>6 DEF Framed, parts

(* The first bytes of a framed log are decoded, and all of them into all   *)
(* of its entries.                                                         *)
LEMMA FramesAreDecoded ==
    ASSUME MaxLogBytes \in Nat, NEW writes, Logged(writes),
           NEW L \in 0 .. Len(Framed(writes, FALSE))
    PROVE  \E T : LET found == FramesFrom(SubSeq(Framed(writes, FALSE), 1, L)) IN
              /\ found \in FoundOf(T)
              /\ L = Len(Framed(writes, FALSE)) =>
                    found.entries = Written(writes, FALSE)
<1> DEFINE n == Len(writes)
           B == Framed(writes, FALSE)
           frames == [i \in DOMAIN writes |->
               <<writes[i].stream, 0, Len(writes[i].text)>> \o writes[i].text]
           entries == [i \in DOMAIN writes |->
               EntriesOf(writes[i].stream, writes[i].text)]
           T == UNION {{entries[i][k] : k \in DOMAIN entries[i]} : i \in 1 .. n}
           payload == SubSeq(B, 1, L)
<1>1. n \in Nat /\ DOMAIN writes = 1 .. n
  BY LenProperties DEF Logged
<1>2. \A i \in 1 .. n : frames[i] = FrameOf(writes[i])
  BY <1>1 DEF FrameOf
<1>3. \A i \in 1 .. n : entries[i] = EntriesOf(writes[i].stream, writes[i].text)
  BY <1>1
<1>4. frames = [i \in 1 .. n |-> frames[i]] /\ entries = [i \in 1 .. n |-> entries[i]]
  BY <1>1
<1>5. B = Seqs!FlattenSeq(frames)
  BY DEF Framed
<1>6. Written(writes, FALSE) = Seqs!FlattenSeq(entries)
  BY DEF Written
<1> HIDE DEF frames, entries
<1>7. ASSUME NEW i \in 1 .. n PROVE frames[i] \in Seq(Nat)
  BY <1>2, FrameBytes
<1>8. frames \in Seq(Seq(Nat)) /\ Len(frames) = n
  BY <1>1, <1>4, <1>7, SeqDef
<1>9. ASSUME NEW i \in 1 .. n PROVE entries[i] \in Seq(T)
  <2>1. writes[i].text \in Seq(Nat)
    BY FrameBytes
  <2>2. \A k \in DOMAIN entries[i] : entries[i][k] \in T
    OBVIOUS
  <2> HIDE DEF T
  <2> QED BY <1>3, <2>1, <2>2, EntriesAreSeq
<1> HIDE DEF T
<1>10. entries \in Seq(Seq(T)) /\ Len(entries) = n
  BY <1>1, <1>4, <1>9, SeqDef
<1>11. PICK F : Joining(F, frames, Nat) /\ Seqs!FlattenSeq(frames) = F[Len(frames)]
  BY <1>8, FlattenJoins
<1>12. PICK E : Joining(E, entries, T) /\ Seqs!FlattenSeq(entries) = E[Len(entries)]
  BY <1>10, FlattenJoins
<1>13. B = F[n] /\ Written(writes, FALSE) = E[n]
  BY <1>5, <1>6, <1>8, <1>10, <1>11, <1>12
<1>14. B \in Seq(Nat)
  BY FramedIsBytes
<1> HIDE DEF B
<1>15. /\ payload \in Seq(Nat) /\ Len(payload) = L
       /\ \A j \in 1 .. L : payload[j] = B[j]
  <2>1. Len(B) \in Nat /\ \A j \in 1 .. Len(B) : B[j] \in Nat
    BY <1>14, LenProperties
  <2>2. L \in 0 .. Len(B)
    BY DEF B
  <2>3. \A j \in 1 .. L : j \in 1 .. Len(B) /\ j = 1 + j - 1
    BY <2>1, <2>2
  <2>4. /\ payload \in Seq(Nat)
        /\ Len(payload) = IF 1 <= L THEN L - 1 + 1 ELSE 0
        /\ \A j \in 1 .. L - 1 + 1 : payload[j] = B[1 + j - 1]
    BY <2>1, <2>2, <2>3, SubSeqProperties
  <2> HIDE DEF payload
  <2> QED BY <2>1, <2>2, <2>3, <2>4
<1> HIDE DEF payload
<1>16. PICK g : /\ FramedFrom(payload, g, 0 .. Len(payload))
                /\ FramesFrom(payload) = g[0]
  BY <1>15, FramesAreFound
<1>17. Decoding(writes, frames, entries, F, E, T, payload, g)
  <2>1. L <= Len(B)
    <3>1. L \in 0 .. Len(B)
      BY DEF B
    <3>2. Len(B) \in Nat
      BY <1>14, LenProperties
    <3> QED BY <3>1, <3>2
  <2> QED BY <1>2, <1>3, <1>8, <1>10, <1>11, <1>12, <1>13, <1>15, <1>16, <2>1
          DEF Decoding
<1> DEFINE Q(i) == DecodedFrom(i, n, F, E, T, Len(payload), g)
           bad == {k \in 0 .. n : ~Q(n - k)}
<1>18. Q(n)
  BY <1>17, DecodedAtEnd
<1>19. ASSUME NEW m \in 1 .. n, Q(m) PROVE Q(m - 1)
  BY <1>17, <1>19, DecodedOnce
<1> HIDE DEF Q
<1>20. Q(0)
  <2>1. ASSUME bad # {} PROVE FALSE
    <3>1. bad \subseteq Nat
      OBVIOUS
    <3>2. PICK k \in bad : \A j \in bad : k <= j
      <4> HIDE DEF bad
      <4> QED BY <2>1, <3>1, SmallestOf
    <3>3. k # 0
      <4>1. n - 0 = n
        BY <1>1
      <4> QED BY <1>18, <3>2, <4>1
    <3>4. k - 1 \in 0 .. n /\ k - 1 < k /\ n - (k - 1) \in 1 .. n
          /\ n - (k - 1) - 1 = n - k
      BY <1>1, <3>2, <3>3
    <3>5. Q(n - (k - 1))
      BY <3>2, <3>4
    <3>6. Q(n - (k - 1) - 1)
      BY <1>19, <3>4, <3>5
    <3> QED BY <3>2, <3>4, <3>6
  <2>2. n \in 0 .. n /\ n - n = 0
    BY <1>1
  <2> QED BY <2>1, <2>2
<1>21. F[0] = <<>> /\ E[0] = <<>> /\ LenAt(F, 0) = 0 /\ 0 <= Len(payload)
  BY <1>11, <1>12, <1>15, EmptySeq DEF Joining, Joins, LenAt
<1>22. /\ g[0] \in FoundOf(T)
       /\ L = Len(B) => E[0] \o g[0].entries = E[n]
  BY <1>13, <1>15, <1>20, <1>21 DEF Q, DecodedFrom, LenAt
<1>23. E[0] \o g[0].entries = g[0].entries
  <2> DEFINE s == g[0].entries
  <2>1. s \in Seq(T)
    BY <1>22 DEF FoundOf
  <2> HIDE DEF s
  <2>2. <<>> \o s = s
    BY <2>1, ConcatEmptySeq
  <2> QED BY <1>21, <2>2 DEF s
<1>24. /\ FramesFrom(payload) \in FoundOf(T)
       /\ L = Len(B) => FramesFrom(payload).entries = Written(writes, FALSE)
  BY <1>13, <1>16, <1>22, <1>23
<1> QED BY <1>24 DEF payload, B

(* The runs part a body in two.  In however many chunks it arrives, the    *)
(* log of a container is decoded without an error, and what was asked of   *)
(* the engine is told whole or truncated (docker.py 174-209, 415-431,      *)
(* 709-747).                                                               *)
THEOREM LogsInAnyChunks ==
    ASSUME MaxLogBytes \in Nat, NEW writes, Logged(writes),
           NEW terminal \in BOOLEAN, NEW tail \in Nat,
           NEW chunks \in Seq(Seq(Nat)),
           Seqs!FlattenSeq(chunks) = Framed(writes, terminal)
    PROVE  LET r == LogResult(chunks, ~terminal, tail) IN
              /\ ~r.malformed
              /\ r.truncated \/ r.entries = Written(writes, terminal)
<1> DEFINE B == Framed(writes, terminal)
           n == Len(B)
           L == IF n <= MaxLogBytes THEN n ELSE MaxLogBytes
           body == ReadBody(chunks, MaxLogBytes)
           decoded == DecodeLogs(body.bytes, ~terminal)
           total == Len(decoded.entries)
           r == LogResult(chunks, ~terminal, tail)
<1>1. B \in Seq(Nat)
  BY FramedIsBytes
<1>2. Seqs!FlattenSeq(chunks) = B
  OBVIOUS
<1> HIDE DEF B
<1>3. n \in Nat /\ L \in 0 .. n /\ (n <= MaxLogBytes <=> L = n)
  BY <1>1, LenProperties
<1>4. body = [bytes |-> SubSeq(B, 1, L), truncated |-> ~(n <= MaxLogBytes)]
  <2>1. body = Kept(B, MaxLogBytes)
    BY <1>2, BodyIsCut
  <2> QED BY <2>1 DEF Kept
<1> HIDE DEF body, L
<1>5. \E T : /\ ~decoded.malformed /\ decoded.entries \in Seq(T)
             /\ L = n => decoded.entries = Written(writes, terminal)
  <2>1. CASE terminal
    <3> DEFINE bytes == SubSeq(B, 1, L)
               entries == EntriesOf(Stdout, bytes)
               T == {entries[i] : i \in DOMAIN entries}
    <3>1. bytes \in Seq(Nat)
      <4>1. \A j \in 1 .. L : B[j] \in Nat
        BY <1>1, <1>3, LenProperties
      <4> QED BY <1>3, <4>1, SubSeqProperties
    <3>2. L = n => bytes = B
      BY <1>1, SubSeqFull
    <3>3. entries \in Seq(T)
      <4>1. \A i \in DOMAIN entries : entries[i] \in T
        OBVIOUS
      <4> HIDE DEF T, bytes
      <4> QED BY <3>1, <4>1, EntriesAreSeq
    <3>4. decoded = [Ended EXCEPT !.entries = entries]
      BY <1>4, <2>1 DEF DecodeLogs
    <3>5. Written(writes, terminal) = EntriesOf(Stdout, B)
      BY <2>1 DEF Written, B
    <3>6. ~decoded.malformed /\ decoded.entries = entries
      <4> HIDE DEF entries, decoded
      <4> QED BY <3>4 DEF Ended
    <3>7. L = n => entries = Written(writes, terminal)
      BY <3>2, <3>5
    <3> HIDE DEF entries, decoded, T
    <3> QED BY <3>3, <3>6, <3>7
  <2>2. CASE ~terminal
    <3>1. terminal = FALSE /\ B = Framed(writes, FALSE)
      BY <2>2 DEF B
    <3>2. PICK T : LET found == FramesFrom(SubSeq(B, 1, L)) IN
             /\ found \in FoundOf(T)
             /\ L = n => found.entries = Written(writes, FALSE)
      BY <1>3, <3>1, FramesAreDecoded
    <3>3. decoded = FramesFrom(SubSeq(B, 1, L))
      BY <1>4, <2>2 DEF DecodeLogs
    <3> HIDE DEF decoded
    <3> QED BY <3>1, <3>2, <3>3 DEF FoundOf
  <2> QED BY <2>1, <2>2
<1>6. PICK T : /\ ~decoded.malformed /\ decoded.entries \in Seq(T)
               /\ L = n => decoded.entries = Written(writes, terminal)
  BY <1>5
<1>7. /\ r.malformed = decoded.malformed
      /\ r.entries = SubSeq(decoded.entries,
                            (IF total > tail THEN total - tail ELSE 0) + 1, total)
      /\ r.truncated <=> body.truncated \/ decoded.truncated \/ total > tail
  BY DEF LogResult, body
<1> HIDE DEF r, decoded
<1>8. ASSUME ~r.truncated PROVE r.entries = Written(writes, terminal)
  <2>1. ~body.truncated /\ ~(total > tail)
    BY <1>7, <1>8
  <2>2. L = n
    BY <1>3, <1>4, <2>1
  <2>3. r.entries = SubSeq(decoded.entries, 1, total)
    <3>1. (IF total > tail THEN total - tail ELSE 0) = 0 /\ 0 + 1 = 1
      BY <2>1
    <3> QED BY <1>7, <3>1
  <2>4. r.entries = decoded.entries
    BY <1>6, <2>3, SubSeqFull
  <2> QED BY <1>6, <2>2, <2>4
<1>9. /\ ~r.malformed
      /\ r.truncated \/ r.entries = Written(writes, terminal)
  BY <1>6, <1>7, <1>8
<1> QED BY <1>9 DEF r

(* The end of a log is one.                                                *)
LEMMA LastAreLogged ==
    ASSUME NEW log, Logged(log), NEW tail \in Nat
    PROVE  Logged(LastMessages(log, tail))
<1> DEFINE M == [stream : {Stdout, Stderr}, text : Seq(Nat)]
           n == Len(log)
           from == IF n > tail THEN n - tail + 1 ELSE 1
           end == LastMessages(log, tail)
<1>1. log \in Seq(M) /\ \A i \in 1 .. n : Len(log[i].text) <= MaxLogBytes
  BY DEF Logged
<1>2. n \in Nat
  BY <1>1, LenProperties
<1>3. from \in 1 .. n + 1
  BY <1>2
<1> HIDE DEF M, n, from
<1>4. end = SubSeq(log, from, n)
  BY DEF LastMessages, from, n
<1>5. \A i \in 1 .. n : log[i] \in M
  BY <1>1, LenProperties DEF n
<1>6. \A i \in from .. n : log[i] \in M
  BY <1>2, <1>3, <1>5
<1>7. /\ end \in Seq(M)
      /\ Len(end) = IF from <= n THEN n - from + 1 ELSE 0
      /\ \A i \in 1 .. Len(end) : end[i] = log[from + i - 1]
  BY <1>2, <1>3, <1>4, <1>6, SubSeqProperties
<1> HIDE DEF end
<1>8. ASSUME NEW i \in 1 .. Len(end) PROVE Len(end[i].text) <= MaxLogBytes
  <2>1. from + i - 1 \in 1 .. n
    BY <1>2, <1>3, <1>7
  <2> QED BY <1>1, <1>7, <2>1
<1> QED BY <1>7, <1>8 DEF Logged, M, end

(* A body parted in two.                                                   *)
LEMMA TwoChunks ==
    ASSUME NEW B \in Seq(Nat), NEW chunks \in Chunkings(B)
    PROVE  chunks \in Seq(Seq(Nat)) /\ Seqs!FlattenSeq(chunks) = B
<1>1. PICK k \in 0 .. Len(B) :
         chunks = <<SubSeq(B, 1, k), SubSeq(B, k + 1, Len(B))>>
  BY DEF Chunkings
<1> DEFINE a == SubSeq(B, 1, k)
           b == SubSeq(B, k + 1, Len(B))
<1>2. Len(B) \in Nat /\ \A j \in 1 .. Len(B) : B[j] \in Nat
  BY LenProperties
<1>3. a \in Seq(Nat)
  BY FirstOnes
<1>4. b \in Seq(Nat)
  BY <1>2, SubSeqProperties
<1>5. a \o b = B
  <2>1. 1 \in 1 .. Len(B) + 1 /\ k \in 1 - 1 .. Len(B) /\ Len(B) \in k .. Len(B)
    BY <1>2
  <2>2. a \o b = SubSeq(B, 1, Len(B))
    BY <2>1, ConcatAdjacentSubSeq
  <2> QED BY <2>2, SubSeqFull
<1> HIDE DEF a, b
<1>6. chunks = <<a, b>>
  BY <1>1 DEF a, b
<1>7. chunks \in Seq(Seq(Nat)) /\ Len(chunks) = 2
  BY <1>3, <1>4, <1>6
<1>8. PICK F : Joining(F, chunks, Nat) /\ Seqs!FlattenSeq(chunks) = F[2]
  BY <1>7, FlattenJoins
<1>9. F[0] = <<>> /\ F[1] = F[0] \o a /\ F[2] = F[1] \o b
  <2>1. \A i \in 1 .. 2 : F[i] = F[i - 1] \o chunks[i]
    BY <1>7, <1>8 DEF Joining, Joins
  <2>2. F[0] = <<>>
    BY <1>8 DEF Joining, Joins
  <2>3. 1 \in 1 .. 2 /\ 2 \in 1 .. 2 /\ 1 - 1 = 0 /\ 2 - 1 = 1
    OBVIOUS
  <2> QED BY <1>6, <2>1, <2>2, <2>3
<1>10. <<>> \o a = a
  BY <1>3, ConcatEmptySeq
<1> QED BY <1>5, <1>7, <1>8, <1>9, <1>10

LEMMA EngineHoldsDocuments == Spec => [](engine \subseteq Documents)
<1>1. Init => engine \subseteq Documents
  BY DEF Init
<1>2. (engine \subseteq Documents) /\ [Next]_vars => (engine \subseteq Documents)'
  <2> SUFFICES ASSUME engine \subseteq Documents, [Next]_vars
               PROVE  engine' \subseteq Documents
    OBVIOUS
  <2>1. ASSUME NEW d \in Documents, Create(d) \/ Remove(d)
        PROVE  engine' \subseteq Documents
    BY <2>1 DEF Create, Remove, EngineMoves
  <2>2. ASSUME NEW c \in Callers, CallStep(c) PROVE engine' = engine
    BY <2>2 DEF CallStep, Refuse, Begin, TakeClient, RequestFails, RequestAstray,
                List, Inspect, Read, Forget
  <2>3. ASSUME CloseDriver \/ UNCHANGED vars PROVE engine' = engine
    BY <2>3 DEF CloseDriver, vars
  <2> QED BY <2>1, <2>2, <2>3 DEF Next
<1> QED BY <1>1, <1>2, PTL DEF Spec

(* However long a log is, whatever limit and tail it is cut to, wherever   *)
(* its body is parted: what the driver cuts off what it is sent, its       *)
(* result tells; one that tells of no cut is the messages that were asked  *)
(* for, entry for entry (docker.py 187-210, 415-431, 709-747).             *)
THEOREM LogsAreToldAsAsked == Spec => []LogsToldAsAsked
<1>1. engine \subseteq Documents => LogsToldAsAsked
  <2> SUFFICES ASSUME engine \subseteq Documents,
                      NEW d \in engine, NEW log \in Logs, NEW tail \in 1 .. MaxTail
               PROVE  ToldAsAsked(log, d.tty, tail)
    BY DEF LogsToldAsAsked
  <2> DEFINE last == LastMessages(log, tail)
  <2>1. MaxLogBytes \in Nat /\ MaxTail \in Nat /\ d.tty \in BOOLEAN
    BY LogsAssumption
  <2>2. tail \in Nat
    BY <2>1
  <2>3. Logged(last)
    <3>1. Logged(log)
      BY LogsAssumption DEF Logged
    <3> QED BY <2>2, <3>1, LastAreLogged
  <2>4. Sent(log, d.tty, tail) = Framed(last, d.tty)
    BY DEF Sent
  <2> HIDE DEF last
  <2>5. ASSUME NEW chunks \in Chunkings(Framed(last, d.tty))
        PROVE  LET r == LogResult(chunks, ~d.tty, tail)
               IN  r.truncated \/ r.entries = Written(last, d.tty)
    <3>1. Framed(last, d.tty) \in Seq(Nat)
      BY <2>1, <2>3, FramedIsBytes
    <3>2. /\ chunks \in Seq(Seq(Nat))
          /\ Seqs!FlattenSeq(chunks) = Framed(last, d.tty)
      BY <3>1, TwoChunks
    <3> QED BY <2>1, <2>2, <2>3, <3>2, LogsInAnyChunks
  <2> QED BY <2>4, <2>5 DEF ToldAsAsked, last
<1> QED BY <1>1, EngineHoldsDocuments, PTL

(* Wherever the limit cuts the stream of a container's log, what is left   *)
(* is decoded without an error (docker.py 709-737).                        *)
THEOREM CutLogsAreDecoded == Spec => []CutLogsDecode
<1>1. engine \subseteq Documents => CutLogsDecode
  <2> SUFFICES ASSUME engine \subseteq Documents,
                      NEW d \in engine, NEW log \in Logs
               PROVE  CutsDecode(log, d.tty, MaxTail)
    BY DEF CutLogsDecode
  <2> DEFINE last == LastMessages(log, MaxTail)
  <2>1. MaxLogBytes \in Nat /\ MaxTail \in Nat /\ d.tty \in BOOLEAN
    BY LogsAssumption
  <2>2. Logged(last)
    <3>1. Logged(log)
      BY LogsAssumption DEF Logged
    <3> QED BY <2>1, <3>1, LastAreLogged
  <2>3. Sent(log, d.tty, MaxTail) = Framed(last, d.tty)
    BY DEF Sent
  <2> HIDE DEF last
  <2>4. ASSUME NEW chunks \in Chunkings(Framed(last, d.tty))
        PROVE  ~LogResult(chunks, ~d.tty, MaxTail).malformed
    <3>1. Framed(last, d.tty) \in Seq(Nat)
      BY <2>1, <2>2, FramedIsBytes
    <3>2. /\ chunks \in Seq(Seq(Nat))
          /\ Seqs!FlattenSeq(chunks) = Framed(last, d.tty)
      BY <3>1, TwoChunks
    <3> QED BY <2>1, <2>2, <3>2, LogsInAnyChunks
  <2> QED BY <2>3, <2>4 DEF CutsDecode
<1> QED BY <1>1, EngineHoldsDocuments, PTL
=============================================================================
