----------------------------- MODULE DockerReads ----------------------------
(***************************************************************************)
(* The operations of DockerDriver and PortainerDriver (docker.py,          *)
(* portainer.py) against an engine whose containers come and go between    *)
(* the requests of one call.                                               *)
(*                                                                         *)
(* query, and describe of a project or a service, make one list request.   *)
(* describe of a container inspects it.  stats, logs and revision inspect  *)
(* it, compare it with the address, and then read by the same address in a *)
(* second request.  Before every request the driver's client is taken      *)
(* (LazyClient).  Calls of several threads interleave.                     *)
(***************************************************************************)
EXTENDS LazyClient, DockerInventory, LogDecoding

CONSTANTS
    Documents,   \* the containers the engine may hold, as documents
    Asks,        \* function: a caller to the calls it makes
    Writings,    \* URIs to parse, canonical or not
    Logs         \* what a container may have written: sequences of messages

VARIABLES
    engine,      \* the documents of the containers that exist
    call,        \* per caller: the call under way or just answered, or None
    stage,       \* per caller: which request of the call is next
    tty,         \* per caller: Config.Tty of the container it inspected
    answer,      \* per caller: how the call ended, or None
    held         \* history: per caller, what the address named during the call,
                 \* and whether another than the engine answered a request

readVars == <<call, stage, tty, answer, held>>
vars     == <<clientVars, engine, readVars>>

Secondary == {"stats", "logs", "revision"}    \* operations with a second request

Call(op, uri) == [op |-> op, uri |-> uri]

ASSUME ReadsAssumption ==
    \A c \in Callers : \A r \in Asks[c] :
        r.op \in {"query", "describe"} \cup Secondary

(* An alias has a slash inside, names and aliases can be sorted, and no    *)
(* container is named like another's ID or the beginning of it.            *)
ASSUME NamingAssumption ==
    /\ DOMAIN NameOrder \subseteq Nat
    /\ \A d \in Documents :
          /\ d.id \in DOMAIN Short
          /\ d.aliases \cap Segments = {}
          /\ \A n \in NamesOf(d) : \E i \in DOMAIN NameOrder : NameOrder[i] = n
    /\ \A d, e \in Documents :
          d.id # e.id =>
              {d.id, Short[d.id]} \cap {e.name, e.id, Short[e.id]} = {}

(* What a container writes is bytes on either stream.  The engine splits   *)
(* long writes far below the limit: a frame is never longer than it.       *)
ASSUME LogsAssumption ==
    /\ MaxLogBytes \in Nat /\ MaxTail \in Nat
    /\ \A d \in Documents : d.tty \in BOOLEAN
    /\ \A log \in Logs :
          /\ log \in Seq([stream : {Stdout, Stderr}, text : Seq(Nat)])
          /\ \A i \in 1 .. Len(log) : Len(log[i].text) <= MaxLogBytes

(* The engine resolves a name, an ID or the beginning of one.  Of the      *)
(* beginnings, the twelve characters the driver itself matches.            *)
Resolve(docs, container) ==
    {d \in docs : container \in {d.name, d.id, Short[d.id]}}

(* What an address names: its own container, none, another one, or one     *)
(* whose document the driver refuses.  Defined by the labels alone.        *)
Project(d) == IF d.project = None THEN Orphans ELSE d.project

Belongs(d, a) == Project(d) = a.project /\ d.service = a.service

Standing(docs, a) ==
    LET named == Resolve(docs, a.container) IN
    IF a.container = None
    THEN IF ListFails(docs) THEN "unusable"
         ELSE IF \E d \in docs : /\ Project(d) = a.project
                                 /\ a.service \in {None, d.service}
         THEN "own" ELSE "vacant"
    ELSE IF named = {} THEN "vacant"
    ELSE IF \E d \in named : ~Readable(d) THEN "unusable"
    ELSE IF \A d \in named : Belongs(d, a) THEN "own" ELSE "foreign"

StandingOf(docs, r) ==
    IF r.op = "query" THEN IF ListFails(docs) THEN "unusable" ELSE "own"
    ELSE Standing(docs, Parse(r.uri))

InCall(c) == stage[c] \in {"list", "inspect", "read"}

Init ==
    /\ ClientInit
    /\ engine = {}
    /\ call = [c \in Callers |-> None]
    /\ stage = [c \in Callers |-> "idle"]
    /\ tty = [c \in Callers |-> FALSE]
    /\ answer = [c \in Callers |-> None]
    /\ held = [c \in Callers |-> {}]

-----------------------------------------------------------------------------
(* The engine: names and IDs are unique among its containers.              *)

EngineMoves(docs) ==
    /\ engine' = docs
    /\ held' = [c \in Callers |->
                    IF InCall(c) THEN held[c] \cup {StandingOf(docs, call[c])}
                    ELSE held[c]]
    /\ UNCHANGED <<clientVars, call, stage, tty, answer>>

Create(d) ==
    /\ \A e \in engine : e.name # d.name /\ e.id # d.id
    /\ EngineMoves(engine \cup {d})

Remove(d) ==
    /\ d \in engine
    /\ EngineMoves(engine \ {d})

-----------------------------------------------------------------------------
(* A call.                                                                 *)

Finish(c, outcome, of) ==
    /\ answer' = [answer EXCEPT ![c] = [outcome |-> outcome, of |-> of]]
    /\ stage' = [stage EXCEPT ![c] = "answered"]

(* Refused before anything is asked of the engine.                         *)
Refused(r) ==
    /\ r.op # "query"
    /\ LET a == Parse(r.uri)
       IN  \/ a = Invalid
           \/ a.target_reference # Reference
           \/ r.op \in Secondary /\ a.container = None

Refuse(c, r) ==
    /\ stage[c] = "idle"
    /\ Refused(r)
    /\ call' = [call EXCEPT ![c] = r]
    /\ Finish(c, "DriverOperationInvalid", "none")
    /\ UNCHANGED <<clientVars, engine, tty, held>>

Begin(c, r) ==
    /\ stage[c] = "idle"
    /\ ~Refused(r)
    /\ call' = [call EXCEPT ![c] = r]
    /\ stage' = [stage EXCEPT ![c] =
                    IF r.op = "query" THEN "list"
                    ELSE IF Parse(r.uri).container = None THEN "list"
                    ELSE "inspect"]
    /\ held' = [held EXCEPT ![c] = {StandingOf(engine, r)}]
    /\ EnterClient(c)
    /\ UNCHANGED <<engine, tty, answer>>

TakeClient(c) == GetClient(c) /\ UNCHANGED <<engine, readVars>>

(* _read_response and _get_json: unreachable, 401, 403 or another error    *)
(* status; or too long, not JSON or not of the expected kind.              *)
RequestFails(c) ==
    /\ InCall(c) /\ at[c] = "has"
    /\ \E outcome \in {"DriverUnavailable", "DriverProtocolError"} :
          Finish(c, outcome, "none")
    /\ LeaveClient(c)
    /\ UNCHANGED <<engine, call, tty, held>>

(* The 404 of a request, whichever it is: only revision catches that of    *)
(* its second one.                                                         *)
Missing(c) ==
    IF stage[c] = "read" /\ call[c].op = "revision" THEN "none"
    ELSE "DriverResourceNotFound"

(* A 404 that is not the engine's: Portainer's, for an environment it does *)
(* not know, or a proxy's.  The driver cannot tell.                        *)
RequestAstray(c) ==
    /\ InCall(c) /\ at[c] = "has"
    /\ held' = [held EXCEPT ![c] = @ \cup {"astray"}]
    /\ Finish(c, Missing(c), "none")
    /\ LeaveClient(c)
    /\ UNCHANGED <<engine, call, tty>>

ListOutcome(r) ==
    IF ListFails(engine) THEN "DriverProtocolError"
    ELSE IF r.op = "query"
    THEN IF r.uri \in ResourceTypes THEN "ok" ELSE "DriverOperationInvalid"
    ELSE IF Cardinality(Query(engine, AggregateQuery(Parse(r.uri)))) = 1
    THEN "ok" ELSE "DriverOperationInvalid"

List(c) ==
    /\ stage[c] = "list" /\ at[c] = "has"
    /\ Finish(c, ListOutcome(call[c]), "none")
    /\ LeaveClient(c)
    /\ UNCHANGED <<engine, call, tty, held>>

(* A bug: a container of another service counts as a vanished one.         *)
InspectOutcome_ForeignIsGone(a) ==
    LET named == Resolve(engine, a.container) IN
    IF \E d \in named : ~Readable(d) THEN "DriverProtocolError"
    ELSE IF \E d \in named : AssertMatches(a, ContainerFromInspect(d))
    THEN "ok" ELSE "DriverResourceNotFound"

InspectOutcome(a) ==
    LET named == Resolve(engine, a.container) IN
    IF named = {} THEN "DriverResourceNotFound"
    ELSE IF \E d \in named : ~Readable(d) THEN "DriverProtocolError"
    ELSE IF \A d \in named : AssertMatches(a, ContainerFromInspect(d))
    THEN "ok" ELSE "DriverOperationInvalid"

(* The inspect: the answer of a describe, or the check before the second   *)
(* request.                                                                *)
Inspect(c) ==
    LET a       == Parse(call[c].uri)
        outcome == InspectOutcome(a)
    IN  /\ stage[c] = "inspect" /\ at[c] = "has"
        /\ IF outcome = "ok" /\ call[c].op \in Secondary
           THEN /\ stage' = [stage EXCEPT ![c] = "read"]
                /\ \E d \in Resolve(engine, a.container) :
                      tty' = [tty EXCEPT ![c] = d.tty]
                /\ EnterClient(c)
                /\ UNCHANGED answer
           ELSE /\ Finish(c, outcome, Standing(engine, a))
                /\ LeaveClient(c)
                /\ UNCHANGED tty
        /\ UNCHANGED <<engine, call, held>>

(* The file holds a hash or something else, or the archive is no tar.      *)
ArchiveOutcomes == {"ok", "none", "DriverProtocolError"}

(* What the second request may come to when it is answered for container   *)
(* d: the log is decoded as the container inspected would have framed it.  *)
ReadOutcomes(op, framed, d) ==
    CASE op = "stats" -> {"ok"}
      [] op = "revision" -> ArchiveOutcomes
      [] op = "logs" ->
            {IF LogResult(<<Sent(log, d.tty, MaxTail)>>, framed, MaxTail).malformed
             THEN "DriverProtocolError" ELSE "ok" : log \in Logs}

Read(c) ==
    LET a     == Parse(call[c].uri)
        named == Resolve(engine, a.container)
    IN  /\ stage[c] = "read" /\ at[c] = "has"
        /\ \E outcome \in IF named = {} THEN {Missing(c)}
                          ELSE UNION {ReadOutcomes(call[c].op, ~tty[c], d) :
                                        d \in named} :
              Finish(c, outcome, Standing(engine, a))
        /\ LeaveClient(c)
        /\ UNCHANGED <<engine, call, tty, held>>

(* The caller has its answer.                                              *)
Forget(c) ==
    /\ stage[c] = "answered"
    /\ stage' = [stage EXCEPT ![c] = "idle"]
    /\ call' = [call EXCEPT ![c] = None]
    /\ tty' = [tty EXCEPT ![c] = FALSE]
    /\ answer' = [answer EXCEPT ![c] = None]
    /\ held' = [held EXCEPT ![c] = {}]
    /\ UNCHANGED <<clientVars, engine>>

CloseDriver == Close /\ UNCHANGED <<engine, readVars>>

CallStep(c) ==
    \/ \E r \in Asks[c] : Refuse(c, r) \/ Begin(c, r)
    \/ TakeClient(c) \/ RequestFails(c) \/ RequestAstray(c)
    \/ List(c) \/ Inspect(c) \/ Read(c)
    \/ Forget(c)

Next ==
    \/ \E c \in Callers : CallStep(c)
    \/ \E d \in Documents : Create(d) \/ Remove(d)
    \/ CloseDriver

Spec == Init /\ [][Next]_vars

-----------------------------------------------------------------------------
(* Properties of the answers.                                              *)

Answered(c, outcome) == answer[c] # None /\ answer[c].outcome = outcome

OfContainer(r) == r.op # "query" /\ Parse(r.uri).container # None

(* The report loop deletes on it (runner.py 157-162): a container is       *)
(* reported as not found only if the address named nothing at some moment  *)
(* of the call, or another than the engine answered a request of it, never *)
(* because it named something else, or one request of the engine failed.   *)
(* That it is always absence (base.py 119-126) is false: a proxy's 404, or *)
(* Portainer's for an environment it does not know, is told alike.         *)
NotFoundIsAnswered ==
    \A c \in Callers :
        Answered(c, "DriverResourceNotFound") =>
            held[c] \cap {"vacant", "astray"} # {}

(* An answer is never given for an address that named another project's or *)
(* service's container during the whole of the call.                       *)
AnswersPassedTheCheck ==
    \A c \in Callers :
        (Answered(c, "ok") /\ OfContainer(call[c])) => "own" \in held[c]

(* A caller is told that its request is invalid only where it is: refused  *)
(* as written, of a type that does not exist, or for an address that named *)
(* nothing of its own at some moment of the call.                          *)
InvalidOnlyIfSo ==
    \A c \in Callers :
        Answered(c, "DriverOperationInvalid") =>
            \/ Refused(call[c])
            \/ call[c].op = "query" /\ call[c].uri \notin ResourceTypes
            \/ held[c] \cap {"vacant", "foreign"} # {}

(* What stats, revision and logs return is of a container that belongs to  *)
(* the addressed project and service: without the check an address that    *)
(* was recycled "would still have its archive read and reported as if it   *)
(* were the addressed resource" (docker.py 257-262).                       *)
ReadsAddressed ==
    \A c \in Callers :
        (Answered(c, "ok") /\ call[c].op \in Secondary) =>
            answer[c].of = "own"

-----------------------------------------------------------------------------
(* Properties of the inventory.  They say of every inventory the engine    *)
(* comes to hold what a list of it is made into, and are evaluated where   *)
(* no call is under way.                                                   *)

Quiet == \A c \in Callers : stage[c] = "idle"

Describes(uri, id) ==
    LET a == Parse(uri) IN
    /\ a # Invalid
    /\ {d.id : d \in Resolve(engine, a.container)} = {id}
    /\ InspectOutcome(a) = "ok"

(* Every container of a list can be described by the URI it was listed     *)
(* with and by the one its own inspect gives it, although link aliases and *)
(* names that are no segments make the two differ.                         *)
ListedIsDescribable ==
    (Quiet /\ ~ListFails(engine)) =>
        \A d \in engine :
            /\ Describes(ContainerResource(ContainerFromList(d)).uri, d.id)
            /\ Describes(ContainerResource(ContainerFromInspect(d)).uri, d.id)

(* Every service and project of a list is described by its URI as what it  *)
(* was listed as, and no two resources have one URI.                       *)
AggregatesDescribable ==
    (Quiet /\ ~ListFails(engine)) =>
        LET containers == ListContainers(engine)
            groups == ServiceResources(containers) \cup ProjectResources(containers)
            all    == groups \cup {ContainerResource(c) : c \in containers}
        IN  /\ \A r \in groups :
                  /\ Parse(r.uri) # Invalid
                  /\ Query(engine, AggregateQuery(Parse(r.uri))) = {r}
            /\ Cardinality({r.uri : r \in all}) = Cardinality(all)

(* No container is hidden or counted twice: the projects' counts add up to *)
(* the containers, and so do the services' with the unlabelled ones.       *)
CountsAddUp ==
    (Quiet /\ ~ListFails(engine)) =>
        LET containers == ListContainers(engine)
            Total(groups) == MapThenSumSet(LAMBDA r : r.container_count, groups)
        IN  /\ Total(ProjectResources(containers)) = Cardinality(engine)
            /\ Total(ServiceResources(containers))
                  + Cardinality({d \in engine : d.service = None})
                  = Cardinality(engine)

(* Whatever the driver's size limit or count of lines cuts off what the    *)
(* engine sends of a container's log, the result says that something is    *)
(* missing; one that does not is the messages asked for.                   *)
LogsToldAsAsked ==
    Quiet => \A d \in engine, log \in Logs, tail \in 1 .. MaxTail :
                ToldAsAsked(log, d.tty, tail)

(* The size limit may cut the stream anywhere, inside a header included:   *)
(* what it leaves is never taken for a malformed stream.                   *)
CutLogsDecode ==
    Quiet => \A d \in engine, log \in Logs : CutsDecode(log, d.tty, MaxTail)

(* Addresses and their writing, where the engine is empty: every address   *)
(* of the hierarchy can be written and read back, and a value that is read *)
(* is the canonical writing of an address of the hierarchy, so that no two *)
(* URIs name one resource (uri.py 5-9).                                    *)
UrisCanonical ==
    (Quiet /\ engine = {}) =>
        /\ RoundTrip({a \in Addresses : a.target_reference = Reference})
        /\ ParsesOnlyCanonical(Writings)
=============================================================================
