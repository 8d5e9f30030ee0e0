--------------------------- MODULE DockerInventory --------------------------
(***************************************************************************)
(* DockerDriver.query and the describe of a project or a service: what one *)
(* list of the engine's containers is made into (docker.py).  `docs` is    *)
(* the set of documents the engine holds when it answers.                  *)
(***************************************************************************)
EXTENDS DockerDocuments

CONSTANT MaxContainers    \* _MAX_CONTAINERS

ASSUME InventoryAssumption == MaxContainers \in Nat

ResourceTypes == {"project", "service", "container"}

Resource(type, address, name, state, image, count) ==
    [uri |-> Build(address), resource_type |-> type, name |-> name,
     project |-> address.project, service |-> address.service,
     state |-> state, image |-> image, container_count |-> count]

ResourceQuery(type, project, service, name, state) ==
    [resource_type |-> type, project |-> project, service |-> service,
     name |-> name, state |-> state]

(* One unusable container, or one too many, fails the whole list.          *)
ListFails(docs) ==
    \/ Cardinality(docs) > MaxContainers
    \/ \E d \in docs : ~Readable(d)

ListContainers(docs) == {ContainerFromList(d) : d \in docs}

ContainerResource(c) ==
    Resource("container",
             Address(Reference, c.project, c.service, c.address_name),
             c.display_name, c.state, c.image, None)

Aggregate(values) ==
    LET unique == values \ {None}
    IN  IF unique = {} THEN None
        ELSE IF Cardinality(unique) = 1 THEN CHOOSE v \in unique : TRUE
        ELSE "mixed"

ServiceResource(containers, project, service) ==
    LET items == {c \in containers : c.project = project /\ c.service = service}
    IN  Resource("service", Address(Reference, project, service, None), service,
                 Aggregate({c.state : c \in items}), Aggregate({c.image : c \in items}),
                 Cardinality(items))

ServiceResources(containers) ==
    {ServiceResource(containers, c.project, c.service) :
        c \in {x \in containers : x.service # None}}

ProjectResource(containers, project) ==
    LET items == {c \in containers : c.project = project}
    IN  Resource("project", Address(Reference, project, None, None), project,
                 Aggregate({c.state : c \in items}), None, Cardinality(items))

(* A bug: a project is made of services, which hides the orphans.         *)
ProjectResources_OfServices(containers) ==
    {ProjectResource(containers, r.project) : r \in ServiceResources(containers)}

ProjectResources(containers) ==
    {ProjectResource(containers, c.project) : c \in containers}

(* A bug: the project is not compared.                                     *)
Matches_AnyProject(r, q) ==
    /\ q.service \in {None, r.service}
    /\ q.name \in {None, r.name}
    /\ q.state \in {None, r.state}

Matches(r, q) ==
    /\ q.project \in {None, r.project}
    /\ q.service \in {None, r.service}
    /\ q.name \in {None, r.name}
    /\ q.state \in {None, r.state}

(* The resources of a query; the list is read before the type is looked    *)
(* at, and a type that is not one of the three is refused.                 *)
Query(docs, q) ==
    LET containers == ListContainers(docs)
    IN  {r \in CASE q.resource_type = "container"
                      -> {ContainerResource(c) : c \in containers}
                 [] q.resource_type = "service" -> ServiceResources(containers)
                 [] q.resource_type = "project" -> ProjectResources(containers)
         : Matches(r, q)}

(* What describe asks of the list for an address without a container.      *)
AggregateQuery(address) ==
    IF address.service # None
    THEN ResourceQuery("service", address.project, address.service,
                       address.service, None)
    ELSE ResourceQuery("project", address.project, None, address.project, None)

=============================================================================
