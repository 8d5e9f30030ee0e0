--------------------------- MODULE DockerDocuments --------------------------
(***************************************************************************)
(* What docker.py reads from the documents of the engine: a container from *)
(* its entry in the list and from its inspect document.  A document is a   *)
(* record of what the code can tell apart; a document whose ID, types or   *)
(* lengths are not as expected is one that is not sound.                   *)
(***************************************************************************)
EXTENDS DockerUri, FiniteSets, FiniteSetsExt

CONSTANTS
    Reference,   \* the driver's target reference
    Short,       \* function: an ID to its first twelve characters
    NameOrder    \* the names and link aliases, in sorted order

ASSUME DocumentsAssumption ==
    /\ Reference \in References
    /\ \A id \in DOMAIN Short : {id, Short[id]} \subseteq Plain

(* Docker lists a container under its name and, for each container linked  *)
(* to it, under an alias with a slash inside, which is no segment.         *)
NamesOf(d) == ({d.name} \cup d.aliases) \ {None}

Rank(name) == CHOOSE i \in DOMAIN NameOrder : NameOrder[i] = name

FirstName(names) ==
    IF names = {} THEN None
    ELSE CHOOSE n \in names : \A m \in names : Rank(n) <= Rank(m)

Parses(address) == Parse(Build(address)) # Invalid

LabelsUsable(d) ==
    \/ d.project = None /\ d.service = None
    \/ /\ d.project # None /\ d.service # None
       /\ Parses(Address(Reference, d.project, d.service, None))

Readable(d) == d.sound /\ LabelsUsable(d)

(* A bug: any name is taken for a segment.                                 *)
Container_NameAlways(d, raw) ==
    LET shown == IF raw = None THEN Short[d.id] ELSE raw
    IN  [id |-> d.id, address_name |-> shown, display_name |-> shown,
         project |-> IF d.project = None THEN Orphans ELSE d.project,
         service |-> d.service, state |-> d.state, image |-> d.image]

(* _container: unlabelled containers go under _orphans, and a name that    *)
(* cannot be a segment is replaced by the short ID.                        *)
Container(d, raw) ==
    LET project == IF d.project = None THEN Orphans ELSE d.project
        shown   == IF raw = None THEN Short[d.id] ELSE raw
    IN  [id           |-> d.id,
         address_name |-> IF Parses(Address(Reference, project, d.service,
                                            shown))
                          THEN shown ELSE Short[d.id],
         display_name |-> shown,
         project      |-> project,
         service      |-> d.service,
         state        |-> d.state,
         image        |-> d.image]

ContainerFromList(d)    == Container(d, FirstName(NamesOf(d)))
ContainerFromInspect(d) == Container(d, d.name)

(* A bug: the service label is not compared.                               *)
AssertMatches_NoService(address, c) ==
    /\ address.project = c.project
    /\ address.container \in {c.address_name, c.id, Short[c.id]}

(* A bug: an ID is accepted in its full form only.                         *)
AssertMatches_NoShortId(address, c) ==
    /\ address.project = c.project
    /\ address.service = c.service
    /\ address.container \in {c.address_name, c.id}

AssertMatches(address, c) ==
    /\ address.project = c.project
    /\ address.service = c.service
    /\ address.container \in {c.address_name, c.id, Short[c.id]}
=============================================================================
