----------------------- MODULE DockerInventory_proofs -----------------------
(***************************************************************************)
(* Proofs about the driver's inventory, for any references, segments and   *)
(* containers.  An address has one writing, what a list of the engine's    *)
(* containers is made into can be described, and its counts add up to the  *)
(* containers.                                                             *)
(***************************************************************************)
EXTENDS DockerReads_proofs

-----------------------------------------------------------------------------
(* The writing of addresses.                                               *)

LEMMA KeywordsAreSegments ==
    /\ "docker" \in Segments /\ "project" \in Segments
    /\ "service" \in Segments /\ "container" \in Segments
BY UriAssumption DEF Keywords, Segments

(* Segments put together.                                                  *)
LEMMA NothingJoined ==
    /\ \A u, v, w : <<u, v, w>> \o <<>> = <<u, v, w>>
    /\ \A u, v, w, x, y : <<u, v, w, x, y>> \o <<>> = <<u, v, w, x, y>>
<1>1. ASSUME NEW u, NEW v, NEW w PROVE <<u, v, w>> \o <<>> = <<u, v, w>>
  <2>1. <<u, v, w>> \in Seq({u, v, w})
    OBVIOUS
  <2> QED BY <2>1, ConcatEmptySeq
<1>2. ASSUME NEW u, NEW v, NEW w, NEW x, NEW y
      PROVE  <<u, v, w, x, y>> \o <<>> = <<u, v, w, x, y>>
  <2>1. <<u, v, w, x, y>> \in Seq({u, v, w, x, y})
    OBVIOUS
  <2> QED BY <2>1, ConcatEmptySeq
<1> QED BY <1>1, <1>2

LEMMA TwoJoined ==
    \A u, v, w, x, y : <<u, v, w>> \o <<x, y>> = <<u, v, w, x, y>>
<1> SUFFICES ASSUME NEW u, NEW v, NEW w, NEW x, NEW y
             PROVE  <<u, v, w>> \o <<x, y>> = <<u, v, w, x, y>>
  OBVIOUS
<1> DEFINE S == {u, v, w, x, y}
           s == <<u, v, w>>
           t == <<x, y>>
           j == s \o t
           k == <<u, v, w, x, y>>
<1>1. s \in Seq(S) /\ t \in Seq(S) /\ k \in Seq(S)
  OBVIOUS
<1>2. Len(s) = 3 /\ Len(t) = 2 /\ Len(k) = 5
  OBVIOUS
<1>3. /\ j \in Seq(S) /\ Len(j) = Len(s) + Len(t)
      /\ \A i \in 1 .. Len(s) + Len(t) :
            j[i] = IF i <= Len(s) THEN s[i] ELSE t[i - Len(s)]
  BY <1>1, ConcatProperties
<1>4. Len(j) = 5 /\ Len(j) = Len(k)
  BY <1>2, <1>3
<1>5. \A i \in 1 .. Len(j) : j[i] = k[i]
  <2>1. /\ j[1] = u /\ j[2] = v /\ j[3] = w /\ j[4] = x /\ j[5] = y
    BY <1>2, <1>3
  <2> HIDE DEF j
  <2> QED BY <1>4, <2>1
<1> QED BY <1>1, <1>3, <1>4, <1>5, SeqEqual

LEMMA TwoMoreJoined ==
    \A u, v, w, x, y, z, a :
        <<u, v, w, x, y>> \o <<z, a>> = <<u, v, w, x, y, z, a>>
<1> SUFFICES ASSUME NEW u, NEW v, NEW w, NEW x, NEW y, NEW z, NEW a
             PROVE  <<u, v, w, x, y>> \o <<z, a>> = <<u, v, w, x, y, z, a>>
  OBVIOUS
<1> DEFINE S == {u, v, w, x, y, z, a}
           s == <<u, v, w, x, y>>
           t == <<z, a>>
           j == s \o t
           k == <<u, v, w, x, y, z, a>>
<1>1. s \in Seq(S) /\ t \in Seq(S) /\ k \in Seq(S)
  OBVIOUS
<1>2. Len(s) = 5 /\ Len(t) = 2 /\ Len(k) = 7
  OBVIOUS
<1>3. /\ j \in Seq(S) /\ Len(j) = Len(s) + Len(t)
      /\ \A i \in 1 .. Len(s) + Len(t) :
            j[i] = IF i <= Len(s) THEN s[i] ELSE t[i - Len(s)]
  BY <1>1, ConcatProperties
<1>4. Len(j) = 7 /\ Len(j) = Len(k)
  BY <1>2, <1>3
<1>5. \A i \in 1 .. Len(j) : j[i] = k[i]
  <2>1. /\ j[1] = u /\ j[2] = v /\ j[3] = w /\ j[4] = x /\ j[5] = y
        /\ j[6] = z /\ j[7] = a
    BY <1>2, <1>3
  <2> HIDE DEF j
  <2> QED BY <1>4, <2>1
<1> QED BY <1>1, <1>3, <1>4, <1>5, SeqEqual

(* The paths of the hierarchy, one for each kind of address.               *)
LEMMA PathShapes ==
    ASSUME NEW a
    PROVE  /\ a.service = None /\ a.container = None =>
                  PathOf(a) = <<"docker", "project", a.project>>
           /\ a.service # None /\ a.container = None =>
                  PathOf(a) = <<"docker", "project", a.project,
                                "service", a.service>>
           /\ a.service = None /\ a.container # None =>
                  PathOf(a) = <<"docker", "project", a.project,
                                "container", a.container>>
           /\ a.service # None /\ a.container # None =>
                  PathOf(a) = <<"docker", "project", a.project,
                                "service", a.service,
                                "container", a.container>>
<1> DEFINE p == a.project
           s == a.service
           c == a.container
           base  == <<"docker", "project", p>>
           below == IF s = None THEN <<>> ELSE <<"service", s>>
           leaf  == IF c = None THEN <<>> ELSE <<"container", c>>
<1>1. PathOf(a) = base \o below \o leaf
  BY DEF PathOf
<1> HIDE DEF p, s, c
<1>2. base \o <<>> = base /\ base \o <<>> \o <<>> = base
  BY NothingJoined
<1>3. base \o <<"service", s>> \o <<>> = <<"docker", "project", p, "service", s>>
  BY TwoJoined, NothingJoined
<1>4. base \o <<>> \o <<"container", c>>
         = <<"docker", "project", p, "container", c>>
  BY TwoJoined, NothingJoined
<1>5. base \o <<"service", s>> \o <<"container", c>>
         = <<"docker", "project", p, "service", s, "container", c>>
  <2>1. base \o <<"service", s>> = <<"docker", "project", p, "service", s>>
    BY TwoJoined
  <2>2. <<"docker", "project", p, "service", s>> \o <<"container", c>>
           = <<"docker", "project", p, "service", s, "container", c>>
    BY TwoMoreJoined
  <2> HIDE DEF base
  <2> QED BY <2>1, <2>2
<1> HIDE DEF base
<1>6. s = None /\ c = None => PathOf(a) = base
  BY <1>1, <1>2
<1>7. s # None /\ c = None => PathOf(a) = base \o <<"service", s>> \o <<>>
  BY <1>1
<1>8. s = None /\ c # None => PathOf(a) = base \o <<>> \o <<"container", c>>
  BY <1>1
<1>9. s # None /\ c # None
         => PathOf(a) = base \o <<"service", s>> \o <<"container", c>>
  BY <1>1
<1> QED BY <1>3, <1>4, <1>5, <1>6, <1>7, <1>8, <1>9 DEF p, s, c, base

(* What AddressOf makes of them is the address again.                      *)
LEMMA WritingIsRead ==
    ASSUME NEW a \in Addresses, a.target_reference = Reference
    PROVE  Parse(Build(a)) = a
<1> DEFINE p == PathOf(a)
           v == Build(a)
           parsed == Urlsplit(v)
<1>1. /\ v.clean /\ v.scheme = "env" /\ v.netloc = Reference /\ v.path = p
      /\ v.query = None /\ v.fragment = None
  BY DEF Build
<1>2. /\ a = Address(Reference, a.project, a.service, a.container)
      /\ a.project \in Segments
      /\ a.service = None \/ a.service \in Segments
      /\ a.container = None \/ a.container \in Segments
      /\ a.project = Orphans => a.service = None
      /\ a.project # Orphans /\ a.service = None => a.container = None
  BY UriAssumption DEF Addresses, Address, Segments
<1>3. Reference \in References
  BY DocumentsAssumption
<1>4. /\ Len(p) >= 3
      /\ \A i \in 1 .. Len(p) : p[i] \in Segments
      /\ p[1] = "docker" /\ p[2] = "project"
      /\ AddressOf(Reference, p) = a
  <2> HIDE DEF p
  <2> USE <1>2, KeywordsAreSegments
  <2>1. CASE a.service = None /\ a.container = None
    <3>1. p = <<"docker", "project", a.project>>
      BY <2>1, PathShapes DEF p
    <3>2. Len(p) = 3 /\ Len(p) >= 3 /\ p[1] = "docker" /\ p[2] = "project" /\ p[3] = a.project
      BY <3>1
    <3>3. AddressOf(Reference, p) = a
      BY <2>1, <3>2 DEF AddressOf
    <3>4. \A i \in 1 .. Len(p) : p[i] \in Segments
      BY <3>2
    <3> QED BY <3>2, <3>3, <3>4
  <2>2. CASE a.service # None /\ a.container = None
    <3>1. p = <<"docker", "project", a.project, "service", a.service>>
      BY <2>2, PathShapes DEF p
    <3>2. /\ Len(p) = 5 /\ Len(p) >= 3 /\ p[1] = "docker" /\ p[2] = "project"
          /\ p[3] = a.project /\ p[4] = "service" /\ p[5] = a.service
      BY <3>1
    <3>3. AddressOf(Reference, p) = a
      BY <2>2, <3>2 DEF AddressOf
    <3>4. \A i \in 1 .. Len(p) : p[i] \in Segments
      BY <2>2, <3>2
    <3> QED BY <3>2, <3>3, <3>4
  <2>3. CASE a.service = None /\ a.container # None
    <3>1. p = <<"docker", "project", a.project, "container", a.container>>
      BY <2>3, PathShapes DEF p
    <3>2. /\ Len(p) = 5 /\ Len(p) >= 3 /\ p[1] = "docker" /\ p[2] = "project"
          /\ p[3] = a.project /\ p[4] = "container" /\ p[5] = a.container
      BY <3>1
    <3>3. AddressOf(Reference, p) = a
      BY <2>3, <3>2 DEF AddressOf
    <3>4. \A i \in 1 .. Len(p) : p[i] \in Segments
      BY <2>3, <3>2
    <3> QED BY <3>2, <3>3, <3>4
  <2>4. CASE a.service # None /\ a.container # None
    <3>1. p = <<"docker", "project", a.project, "service", a.service,
                "container", a.container>>
      BY <2>4, PathShapes DEF p
    <3>2. /\ Len(p) = 7 /\ Len(p) >= 3 /\ p[1] = "docker" /\ p[2] = "project"
          /\ p[3] = a.project /\ p[4] = "service" /\ p[5] = a.service
          /\ p[6] = "container" /\ p[7] = a.container
      BY <3>1
    <3>3. AddressOf(Reference, p) = a
      BY <2>4, <3>2 DEF AddressOf
    <3>4. \A i \in 1 .. Len(p) : p[i] \in Segments
      BY <2>4, <3>2
    <3> QED BY <3>2, <3>3, <3>4
  <2> QED BY <2>1, <2>2, <2>3, <2>4
<1> HIDE DEF p
<1> HIDE DEF v
<1>5. /\ parsed.scheme = "env" /\ parsed.hostname = Reference
      /\ parsed.query = "" /\ parsed.fragment = ""
  BY <1>1, <1>3, UriAssumption DEF Urlsplit
<1> HIDE DEF parsed
<1>6. WellFormed(v)
  BY <1>1, <1>3, <1>4, <1>5, Zenon DEF WellFormed, parsed
<1>7. Parse(v) = AddressOf(Reference, p)
  BY <1>1, <1>4, <1>5, <1>6 DEF Parse, parsed, v
<1> QED BY <1>4, <1>7 DEF v

(* What is read is an address of the hierarchy.                            *)
LEMMA ReadIsAddress ==
    ASSUME NEW v, Parse(v) # Invalid
    PROVE  Parse(v) \in Addresses /\ Build(Parse(v)) = v
<1> DEFINE s == v.path
           host == Urlsplit(v).hostname
<1>1. /\ Parse(v) = AddressOf(host, s)
      /\ AddressOf(host, s) # Invalid
      /\ WellFormed(v)
  BY DEF Parse
<1>2. /\ host \in References
      /\ \A i \in 1 .. Len(s) : s[i] \in Segments
  BY <1>1 DEF WellFormed
<1> HIDE DEF host
<1>3. None \notin Segments /\ Orphans \in Segments
  BY UriAssumption DEF Segments
<1>4. AddressOf(host, s) \in Addresses
  <2>1. CASE Len(s) = 3
    <3>1. s[3] \in Segments
      BY <1>2, <2>1
    <3>2. AddressOf(host, s) = Address(host, s[3], None, None)
      BY <2>1 DEF AddressOf
    <3> QED BY <1>2, <3>1, <3>2 DEF Address, Addresses, Segments
  <2>2. CASE Len(s) = 5 /\ s[3] = Orphans /\ s[4] = "container"
    <3>1. s[5] \in Segments
      BY <1>2, <2>2
    <3>2. AddressOf(host, s) = Address(host, Orphans, None, s[5])
      BY <2>2 DEF AddressOf
    <3> QED BY <1>2, <3>1, <3>2 DEF Address, Addresses
  <2>3. CASE Len(s) = 5 /\ s[3] # Orphans /\ s[4] = "service"
    <3>1. s[5] \in Segments /\ s[3] \in Plain
      BY <1>2, <2>3 DEF Segments
    <3>2. AddressOf(host, s) = Address(host, s[3], s[5], None)
      BY <2>3 DEF AddressOf
    <3> QED BY <1>2, <1>3, <3>1, <3>2 DEF Address, Addresses
  <2>4. CASE /\ Len(s) = 7 /\ s[3] # Orphans
             /\ s[4] = "service" /\ s[6] = "container"
    <3>1. s[5] \in Segments /\ s[7] \in Segments /\ s[3] \in Plain
      BY <1>2, <2>4 DEF Segments
    <3>2. AddressOf(host, s) = Address(host, s[3], s[5], s[7])
      BY <2>4 DEF AddressOf
    <3> QED BY <1>2, <1>3, <3>1, <3>2 DEF Address, Addresses
  <2> QED BY <1>1, <2>1, <2>2, <2>3, <2>4 DEF AddressOf
<1> QED BY <1>1, <1>4, ParseShape

(* No two URIs name one resource, and every resource has one: urlsplit     *)
(* reads many a writing as it reads the canonical one, and the others are  *)
(* refused (uri.py 5-9, 45-126).                                           *)
THEOREM UrisAreCanonical == Spec => []UrisCanonical
<1>1. UrisCanonical
  <2>1. RoundTrip({a \in Addresses : a.target_reference = Reference})
    BY WritingIsRead DEF RoundTrip
  <2>2. ParsesOnlyCanonical(Writings)
    BY ReadIsAddress DEF ParsesOnlyCanonical
  <2> QED BY <2>1, <2>2 DEF UrisCanonical
<1> QED BY <1>1, PTL

-----------------------------------------------------------------------------
(* What is listed.                                                         *)

(* The engine holds documents, finitely many, and names and IDs are unique *)
(* among them.                                                             *)
EngineInv ==
    /\ engine \subseteq Documents
    /\ IsFiniteSet(engine)
    /\ \A d, e \in engine : d.name = e.name \/ d.id = e.id => d = e

LEMMA EngineInit == Init => EngineInv
BY FS_EmptySet DEF Init, EngineInv

LEMMA EngineNext == EngineInv /\ [Next]_vars => EngineInv'
<1> SUFFICES ASSUME EngineInv, [Next]_vars PROVE EngineInv'
  OBVIOUS
<1>1. ASSUME NEW d \in Documents, Create(d) PROVE EngineInv'
  <2>1. engine' = engine \cup {d}
    BY <1>1 DEF Create, EngineMoves
  <2>2. IsFiniteSet(engine')
    BY <2>1, FS_AddElement DEF EngineInv
  <2> QED BY <1>1, <2>1, <2>2 DEF Create, EngineInv
<1>2. ASSUME NEW d \in Documents, Remove(d) PROVE EngineInv'
  <2>1. engine' = engine \ {d}
    BY <1>2 DEF Remove, EngineMoves
  <2>2. IsFiniteSet(engine')
    BY <2>1, FS_RemoveElement DEF EngineInv
  <2> QED BY <2>1, <2>2 DEF EngineInv
<1>3. CASE UNCHANGED engine
  BY <1>3 DEF EngineInv
<1>4. ASSUME NEW c \in Callers, CallStep(c) PROVE UNCHANGED engine
  BY <1>4 DEF CallStep, Refuse, Begin, TakeClient, RequestFails, RequestAstray,
      List, Inspect, Read, Forget
<1>5. CloseDriver => UNCHANGED engine
  BY DEF CloseDriver
<1> QED BY <1>1, <1>2, <1>3, <1>4, <1>5 DEF Next, vars

(* Of some names that can be sorted, the first is one.                     *)
LEMMA FirstNameIsOne ==
    ASSUME NEW names, names # {},
           \A n \in names : \E i \in DOMAIN NameOrder : NameOrder[i] = n
    PROVE  FirstName(names) \in names
<1> DEFINE ranks == {Rank(n) : n \in names}
<1>1. ranks \subseteq Nat /\ ranks # {}
  BY NamingAssumption DEF Rank
<1>2. \E x \in ranks : \A y \in ranks : x <= y
  <2> HIDE DEF ranks
  <2> QED BY <1>1, SmallestOf
<1>3. \E n \in names : \A m \in names : Rank(n) <= Rank(m)
  BY <1>2
<1> QED BY <1>3 DEF FirstName

(* Labels that can be used are those of a service, or none.                *)
LEMMA LabelsAre ==
    ASSUME NEW d, LabelsUsable(d)
    PROVE  \/ d.project = None /\ d.service = None
           \/ d.project \in Plain /\ d.service \in Segments
<1>1. CASE /\ d.project # None /\ d.service # None
           /\ Parses(Address(Reference, d.project, d.service, None))
  <2> DEFINE a == Address(Reference, d.project, d.service, None)
             v == Build(a)
  <2>1. a.project = d.project /\ a.service = d.service /\ a.container = None
    BY DEF Address
  <2>2. v.path = <<"docker", "project", d.project, "service", d.service>>
    BY <1>1, <2>1, PathShapes DEF Build
  <2>3. /\ Parse(v) # Invalid /\ WellFormed(v)
        /\ AddressOf(Urlsplit(v).hostname, v.path) # Invalid
    BY <1>1 DEF Parses, Parse
  <2> HIDE DEF v
  <2>4. /\ Len(v.path) = 5 /\ v.path[3] = d.project /\ v.path[4] = "service"
        /\ v.path[5] = d.service
    BY <2>2
  <2>5. d.project \in Segments /\ d.service \in Segments
    <3>1. 3 \in 1 .. Len(v.path) /\ 5 \in 1 .. Len(v.path)
      BY <2>4
    <3> QED BY <2>3, <2>4, <3>1 DEF WellFormed
  <2>6. d.project # Orphans
    BY <2>3, <2>4 DEF AddressOf
  <2> QED BY <2>5, <2>6 DEF Segments
<1> QED BY <1>1 DEF LabelsUsable

(* The address that a container is given.                                  *)
Given(c) == Address(Reference, c.project, c.service, c.address_name)

LEMMA GivenIsAddress ==
    ASSUME NEW d \in Documents, LabelsUsable(d),
           NEW raw \in {None, d.name} \cup d.aliases
    PROVE  /\ Given(Container(d, raw)) \in Addresses
           /\ Given(Container(d, raw)).target_reference = Reference
           /\ Container(d, raw).project = Project(d)
           /\ Container(d, raw).service = d.service
           /\ Container(d, raw).address_name # None
           /\ Container(d, raw).address_name \in {d.name, Short[d.id]}
<1> DEFINE c == Container(d, raw)
           shown == IF raw = None THEN Short[d.id] ELSE raw
           a == Address(Reference, Project(d), d.service, shown)
<1>1. Short[d.id] \in Segments /\ Short[d.id] # None
  BY NamingAssumption, DocumentsAssumption, UriAssumption DEF Segments
<1>2. \/ Project(d) = Orphans /\ d.service = None
      \/ Project(d) \in Plain /\ d.service \in Segments /\ d.service # None
  BY LabelsAre, UriAssumption DEF Project, Segments
<1>3. /\ c.project = Project(d) /\ c.service = d.service
      /\ c.address_name = IF Parses(a) THEN shown ELSE Short[d.id]
  BY DEF Container, Project
<1>4. shown # None
  BY <1>1
<1>5. ASSUME Parses(a) PROVE shown \in Segments
  <2> DEFINE v == Build(a)
  <2>1. a.project = Project(d) /\ a.service = d.service /\ a.container = shown
    BY DEF Address
  <2>2. WellFormed(v)
    BY <1>5 DEF Parses, Parse
  <2>3. v.path = PathOf(a)
    BY DEF Build
  <2> HIDE DEF v, a, shown
  <2>4. CASE d.service = None
    <3>1. v.path = <<"docker", "project", Project(d), "container", shown>>
      BY <1>4, <2>1, <2>3, <2>4, PathShapes
    <3>2. 5 \in 1 .. Len(v.path) /\ v.path[5] = shown
      BY <3>1
    <3> QED BY <2>2, <3>2 DEF WellFormed
  <2>5. CASE d.service # None
    <3>1. v.path = <<"docker", "project", Project(d), "service", d.service,
                     "container", shown>>
      BY <1>4, <2>1, <2>3, <2>5, PathShapes
    <3>2. 7 \in 1 .. Len(v.path) /\ v.path[7] = shown
      BY <3>1
    <3> QED BY <2>2, <3>2 DEF WellFormed
  <2> QED BY <2>4, <2>5
<1>6. c.address_name \in Segments /\ c.address_name \in {d.name, Short[d.id]}
  BY <1>1, <1>3, <1>5, NamingAssumption
<1>7. Reference \in References
  BY DocumentsAssumption
<1>8. Given(c) \in Addresses /\ Given(c).target_reference = Reference
  <2> HIDE DEF c
  <2> QED BY <1>2, <1>3, <1>6, <1>7, UriAssumption
          DEF Given, Address, Addresses
<1> QED BY <1>3, <1>6, <1>8, UriAssumption

(* A container is the only one that its name, or the beginning of its ID,  *)
(* leads to.                                                               *)
LEMMA NameLeadsToOne ==
    ASSUME EngineInv, NEW d \in engine, NEW name \in {d.name, Short[d.id]}
    PROVE  Resolve(engine, name) = {d}
<1>1. d \in Resolve(engine, name)
  BY DEF Resolve
<1>2. ASSUME NEW e \in engine, name \in {e.name, e.id, Short[e.id]}
      PROVE  e = d
  <2>1. e.id = d.id \/ e.name = d.name
    BY <1>2, NamingAssumption DEF EngineInv
  <2> QED BY <2>1 DEF EngineInv
<1> QED BY <1>1, <1>2 DEF Resolve

LEMMA GivenDescribes ==
    ASSUME EngineInv, ~ListFails(engine), NEW d \in engine,
           NEW raw \in {None, d.name} \cup d.aliases
    PROVE  Describes(ContainerResource(Container(d, raw)).uri, d.id)
<1> DEFINE c == Container(d, raw)
           v == Build(Given(c))
<1>1. ContainerResource(c).uri = v
  BY DEF ContainerResource, Resource, Given
<1>2. d \in Documents /\ Readable(d) /\ LabelsUsable(d)
  BY DEF EngineInv, ListFails, Readable
<1>3. /\ Given(c) \in Addresses
      /\ Given(c).target_reference = Reference
      /\ c.project = Project(d) /\ c.service = d.service
      /\ c.address_name # None
      /\ c.address_name \in {d.name, Short[d.id]}
  BY <1>2, GivenIsAddress
<1>4. Parse(v) = Given(c)
  BY <1>3, WritingIsRead
<1> HIDE DEF v
<1>5. Given(c) # Invalid
  BY <1>3, InvalidAssumption
<1>6. Resolve(engine, Given(c).container) = {d}
  BY <1>3, NameLeadsToOne DEF Given, Address
<1>7. Belongs(d, Given(c))
  BY <1>3 DEF Belongs, Given, Address
<1>8. Given(c).container # None
  BY <1>3 DEF Given, Address
<1> HIDE DEF c
<1>9. AssertMatches(Given(c), ContainerFromInspect(d))
  BY <1>3, <1>4, <1>5, <1>6, <1>7, <1>8, ReachedMatches
<1>10. InspectOutcome(Given(c)) = "ok"
  BY <1>2, <1>6, <1>9 DEF InspectOutcome
<1>11. {e.id : e \in Resolve(engine, Given(c).container)} = {d.id}
  BY <1>6
<1>12. Describes(v, d.id)
  BY <1>4, <1>5, <1>10, <1>11 DEF Describes
<1> QED BY <1>1, <1>12 DEF c

(* Each name of a listed container is its name, an alias, or none.         *)
LEMMA ListedName ==
    ASSUME NEW d \in Documents
    PROVE  FirstName(NamesOf(d)) \in {None, d.name} \cup d.aliases
<1>1. CASE NamesOf(d) = {}
  BY <1>1 DEF FirstName
<1>2. CASE NamesOf(d) # {}
  <2>1. FirstName(NamesOf(d)) \in NamesOf(d)
    BY <1>2, FirstNameIsOne, NamingAssumption
  <2> QED BY <2>1 DEF NamesOf
<1> QED BY <1>1, <1>2

(* The report loop keeps what it lists by the URIs of the list and asks    *)
(* for details by the same ones (runner.py 149-175).                       *)
THEOREM ListedAreDescribable == Spec => []ListedIsDescribable
<1>1. EngineInv => ListedIsDescribable
  <2> SUFFICES ASSUME EngineInv, ~ListFails(engine), NEW d \in engine
               PROVE  /\ Describes(ContainerResource(ContainerFromList(d)).uri, d.id)
                      /\ Describes(ContainerResource(ContainerFromInspect(d)).uri, d.id)
    BY DEF ListedIsDescribable
  <2>1. FirstName(NamesOf(d)) \in {None, d.name} \cup d.aliases
    BY ListedName DEF EngineInv
  <2> QED BY <2>1, GivenDescribes DEF ContainerFromList, ContainerFromInspect
<1> QED BY <1>1, EngineInit, EngineNext, PTL DEF Spec

-----------------------------------------------------------------------------
(* Services and projects.                                                  *)

(* The addresses of what is listed are of the hierarchy, and a container's *)
(* is of no other container.                                               *)
LEMMA ListedAddresses ==
    ASSUME EngineInv, ~ListFails(engine)
    PROVE  /\ \A c \in ListContainers(engine) :
                  /\ Given(c) \in Addresses
                  /\ ProjectAddress(c) \in Addresses
                  /\ c.service # None => ServiceAddress(c) \in Addresses
                  /\ c.project # None /\ c.address_name # None
           /\ \A c, e \in ListContainers(engine) :
                  c.address_name = e.address_name => c = e
<1>1. ASSUME NEW d \in engine
      PROVE  LET c == ContainerFromList(d)
             IN  /\ Given(c) \in Addresses
                 /\ ProjectAddress(c) \in Addresses
                 /\ c.service # None => ServiceAddress(c) \in Addresses
                 /\ c.project # None /\ c.address_name # None
                 /\ c.address_name \in {d.name, Short[d.id]}
  <2> DEFINE c == ContainerFromList(d)
  <2>1. d \in Documents /\ LabelsUsable(d)
    BY DEF EngineInv, ListFails, Readable
  <2>2. FirstName(NamesOf(d)) \in {None, d.name} \cup d.aliases
    BY <2>1, ListedName
  <2>3. /\ Given(c) \in Addresses
        /\ c.project = Project(d) /\ c.service = d.service
        /\ c.address_name # None
        /\ c.address_name \in {d.name, Short[d.id]}
    BY <2>1, <2>2, GivenIsAddress DEF ContainerFromList
  <2>4. \/ Project(d) = Orphans /\ d.service = None
        \/ Project(d) \in Plain /\ d.service \in Segments
    BY <2>1, LabelsAre, UriAssumption DEF Project, Segments
  <2> HIDE DEF c
  <2>5. ProjectAddress(c) \in Addresses /\ c.project # None
    BY <2>3, <2>4, DocumentsAssumption, UriAssumption
    DEF ProjectAddress, Address, Addresses, Segments
  <2>6. c.service # None => ServiceAddress(c) \in Addresses
    BY <2>3, <2>4, DocumentsAssumption, UriAssumption
    DEF ServiceAddress, Address, Addresses, Segments
  <2> QED BY <2>3, <2>5, <2>6 DEF c
<1>2. ASSUME NEW d \in engine, NEW e \in engine,
             ContainerFromList(d).address_name = ContainerFromList(e).address_name
      PROVE  d = e
  <2> DEFINE n == ContainerFromList(d).address_name
  <2>1. Resolve(engine, n) = {d} /\ Resolve(engine, n) = {e}
    BY <1>1, <1>2, NameLeadsToOne
  <2> QED BY <2>1
<1> QED BY <1>1, <1>2 DEF ListContainers

(* The image of a finite set under a function is finite.                   *)
LEMMA FiniteImage ==
    ASSUME NEW S, IsFiniteSet(S), NEW f, DOMAIN f = S,
           f = [x \in S |-> f[x]]
    PROVE  IsFiniteSet({f[x] : x \in S})
<1> DEFINE T == {f[x] : x \in S}
<1>1. f \in Surjection(S, T)
  BY DEF Surjection
<1> QED BY <1>1, FS_Surjection

LEMMA ListIsFinite ==
    ASSUME NEW docs, IsFiniteSet(docs)
    PROVE  /\ IsFiniteSet(ListContainers(docs))
           /\ IsFiniteSet(ServiceResources(ListContainers(docs)))
           /\ IsFiniteSet(ProjectResources(ListContainers(docs)))
           /\ IsFiniteSet({ContainerResource(c) : c \in ListContainers(docs)})
<1> DEFINE containers == ListContainers(docs)
           labelled == {c \in containers : c.service # None}
<1>1. IsFiniteSet(containers)
  <2> DEFINE f == [d \in docs |-> ContainerFromList(d)]
  <2>1. IsFiniteSet({f[d] : d \in docs})
    <3>1. DOMAIN f = docs /\ f = [d \in docs |-> f[d]]
      OBVIOUS
    <3> HIDE DEF f
    <3> QED BY <3>1, FiniteImage
  <2>2. containers = {f[d] : d \in docs}
    BY DEF ListContainers
  <2> QED BY <2>1, <2>2
<1> HIDE DEF containers
<1>2. IsFiniteSet(labelled)
  BY <1>1, FS_Subset
<1>3. IsFiniteSet(ServiceResources(containers))
  <2> DEFINE f == [c \in labelled |-> ServiceResource(containers, c.project, c.service)]
  <2>1. IsFiniteSet({f[c] : c \in labelled})
    <3>1. DOMAIN f = labelled /\ f = [c \in labelled |-> f[c]]
      OBVIOUS
    <3> HIDE DEF f, labelled
    <3> QED BY <1>2, <3>1, FiniteImage
  <2>2. ServiceResources(containers) = {f[c] : c \in labelled}
    BY DEF ServiceResources
  <2> QED BY <2>1, <2>2
<1>4. IsFiniteSet(ProjectResources(containers))
  <2> DEFINE f == [c \in containers |-> ProjectResource(containers, c.project)]
  <2>1. IsFiniteSet({f[c] : c \in containers})
    <3>1. DOMAIN f = containers /\ f = [c \in containers |-> f[c]]
      OBVIOUS
    <3> HIDE DEF f
    <3> QED BY <1>1, <3>1, FiniteImage
  <2>2. ProjectResources(containers) = {f[c] : c \in containers}
    BY DEF ProjectResources
  <2> QED BY <2>1, <2>2
<1>5. IsFiniteSet({ContainerResource(c) : c \in containers})
  <2> DEFINE f == [c \in containers |-> ContainerResource(c)]
  <2>1. IsFiniteSet({f[c] : c \in containers})
    <3>1. DOMAIN f = containers /\ f = [c \in containers |-> f[c]]
      OBVIOUS
    <3> HIDE DEF f
    <3> QED BY <1>1, <3>1, FiniteImage
  <2>2. {ContainerResource(c) : c \in containers} = {f[c] : c \in containers}
    OBVIOUS
  <2> QED BY <2>1, <2>2
<1> QED BY <1>1, <1>3, <1>4, <1>5 DEF containers

(* Two resources of one list have different URIs.                          *)
LEMMA UrisTellApart ==
    ASSUME EngineInv, ~ListFails(engine),
           NEW containers, containers = ListContainers(engine),
           NEW all, all = ServiceResources(containers)
                             \cup ProjectResources(containers)
                             \cup {ContainerResource(c) : c \in containers},
           NEW r \in all, NEW s \in all, r.uri = s.uri
    PROVE  r = s
<1> DEFINE A == {a \in Addresses : a.target_reference = Reference}
           labelled == {c \in containers : c.service # None}
           Service(c) == ServiceResource(containers, c.project, c.service)
           Proj(c)    == ProjectResource(containers, c.project)
<1>1. /\ all = {Service(c) : c \in labelled} \cup {Proj(c) : c \in containers}
                  \cup {ContainerResource(c) : c \in containers}
  BY DEF ServiceResources, ProjectResources
<1>2. /\ \A c \in containers :
            /\ Given(c) \in A /\ ProjectAddress(c) \in A
            /\ c.project # None /\ c.address_name # None
            /\ ContainerResource(c).uri = Build(Given(c))
            /\ Proj(c).uri = Build(ProjectAddress(c))
      /\ \A c \in labelled :
            /\ ServiceAddress(c) \in A
            /\ Service(c).uri = Build(ServiceAddress(c))
  BY ListedAddresses
  DEF Given, ProjectAddress, ServiceAddress, Address, ContainerResource,
      ProjectResource, ServiceResource, Resource
<1>3. \A a, b \in A : Build(a) = Build(b) => a = b
  BY WritingIsRead
<1>4. \A c, e \in containers :
        /\ Given(c) # ProjectAddress(e)
        /\ Given(c) # ServiceAddress(e)
        /\ e.service # None => ProjectAddress(c) # ServiceAddress(e)
        /\ Given(c) = Given(e) => c = e
        /\ ProjectAddress(c) = ProjectAddress(e) => c.project = e.project
        /\ ServiceAddress(c) = ServiceAddress(e)
              => c.project = e.project /\ c.service = e.service
  BY <1>2, ListedAddresses DEF Given, ProjectAddress, ServiceAddress, Address
<1>5. \A c, e \in containers : c.project = e.project => Proj(c) = Proj(e)
  OBVIOUS
<1>6. \A c, e \in labelled : c.project = e.project /\ c.service = e.service
                               => Service(c) = Service(e)
  OBVIOUS
<1> DEFINE IsService(x) == \E c \in labelled : x = Service(c)
           IsProject(x) == \E c \in containers : x = Proj(c)
           IsOne(x) == \E c \in containers : x = ContainerResource(c)
<1>7. IsService(r) \/ IsProject(r) \/ IsOne(r)
  BY <1>1
<1>8. IsService(s) \/ IsProject(s) \/ IsOne(s)
  BY <1>1
<1> HIDE DEF Service, Proj, A
<1>9. CASE IsService(r) /\ IsService(s)
  BY <1>2, <1>3, <1>4, <1>6, <1>9
<1>10. CASE IsProject(r) /\ IsProject(s)
  BY <1>2, <1>3, <1>4, <1>5, <1>10
<1>11. CASE IsOne(r) /\ IsOne(s)
  BY <1>2, <1>3, <1>4, <1>11
<1>12. ~(IsService(r) /\ IsProject(s)) /\ ~(IsProject(r) /\ IsService(s))
  BY <1>2, <1>3, <1>4
<1>13. ~(IsService(r) /\ IsOne(s)) /\ ~(IsOne(r) /\ IsService(s))
  BY <1>2, <1>3, <1>4
<1>14. ~(IsProject(r) /\ IsOne(s)) /\ ~(IsOne(r) /\ IsProject(s))
  BY <1>2, <1>3, <1>4
<1> HIDE DEF IsService, IsProject, IsOne
<1> QED BY <1>7, <1>8, <1>9, <1>10, <1>11, <1>12, <1>13, <1>14

(* What describe returns of a project or a service is what the list said   *)
(* of it, and no resource shadows another (docker.py 97-131, uri.py 5-9).  *)
THEOREM AggregatesAreDescribable == Spec => []AggregatesDescribable
<1>1. EngineInv => AggregatesDescribable
  <2> SUFFICES ASSUME EngineInv, ~ListFails(engine)
               PROVE  AggregatesDescribable
    BY DEF AggregatesDescribable
  <2> DEFINE containers == ListContainers(engine)
             groups == ServiceResources(containers) \cup ProjectResources(containers)
             all    == groups \cup {ContainerResource(c) : c \in containers}
             uris   == {r.uri : r \in all}
  <2>1. ASSUME NEW r \in groups
        PROVE  /\ Parse(r.uri) # Invalid
               /\ Query(engine, AggregateQuery(Parse(r.uri))) = {r}
    <3>1. CASE r \in ServiceResources(containers)
      <4>1. PICK c \in containers :
              c.service # None /\ r = ServiceResource(containers, c.project, c.service)
        BY <3>1 DEF ServiceResources
      <4>2. r.uri = Build(ServiceAddress(c))
        BY <4>1 DEF ServiceResource, Resource, ServiceAddress
      <4>3. /\ ServiceAddress(c) \in Addresses /\ c.project # None
            /\ ServiceAddress(c).target_reference = Reference
        BY <4>1, ListedAddresses DEF ServiceAddress, Address
      <4>4. Parse(r.uri) = ServiceAddress(c)
        BY <4>2, <4>3, WritingIsRead
      <4>5. Query(engine, AggregateQuery(ServiceAddress(c))) = {r}
        BY <4>1, <4>3, AggregateIs
      <4> QED BY <4>3, <4>4, <4>5, InvalidAssumption
    <3>2. CASE r \in ProjectResources(containers)
      <4>1. PICK c \in containers : r = ProjectResource(containers, c.project)
        BY <3>2 DEF ProjectResources
      <4>2. r.uri = Build(ProjectAddress(c))
        BY <4>1 DEF ProjectResource, Resource, ProjectAddress
      <4>3. /\ ProjectAddress(c) \in Addresses /\ c.project # None
            /\ ProjectAddress(c).target_reference = Reference
        BY <4>1, ListedAddresses DEF ProjectAddress, Address
      <4>4. Parse(r.uri) = ProjectAddress(c)
        BY <4>2, <4>3, WritingIsRead
      <4>5. Query(engine, AggregateQuery(ProjectAddress(c))) = {r}
        BY <4>1, <4>3, AggregateIs
      <4> QED BY <4>3, <4>4, <4>5, InvalidAssumption
    <3> QED BY <3>1, <3>2
  <2>2. IsFiniteSet(all)
    BY ListIsFinite, FS_Union DEF EngineInv
  <2>3. \A r, s \in all : r.uri = s.uri => r = s
    BY UrisTellApart
  <2>4. Cardinality(uris) = Cardinality(all)
    <3> DEFINE f == [r \in all |-> r.uri]
    <3> HIDE DEF all
    <3>1. f \in Bijection(all, uris)
      BY <2>3 DEF Bijection, Injection, Surjection, IsInjective
    <3> HIDE DEF f, uris
    <3> QED BY <2>2, <3>1, FS_Bijection DEF ExistsBijection
  <2> HIDE DEF containers
  <2> QED BY <2>1, <2>4 DEF AggregatesDescribable, containers
<1> QED BY <1>1, EngineInit, EngineNext, PTL DEF Spec

-----------------------------------------------------------------------------
(* The counts.                                                             *)

(* Counts of disjoint groups add up to the size of their union.            *)
LEMMA CountsAreSizes ==
    ASSUME NEW G, NEW part, Apart(part, G),
           \A r \in G : r.container_count = Cardinality(part[r])
    PROVE  MapThenSumSet(LAMBDA r : r.container_count, G)
              = Cardinality(Joined(part, G))
<1> DEFINE w == [r \in G |-> r.container_count]
           Sums(g) == g = [s \in SUBSET G |->
                             IF s = {} THEN 0
                             ELSE (CHOOSE r \in s : TRUE).container_count
                                     + g[s \ {CHOOSE r \in s : TRUE}]]
<1>1. /\ \A r \in G : w[r] = Cardinality(part[r])
      /\ \A s \in SUBSET G : s # {} =>
            w[CHOOSE r \in s : TRUE] = (CHOOSE r \in s : TRUE).container_count
  OBVIOUS
<1> HIDE DEF w
<1>2. ASSUME NEW g PROVE Sums(g) <=> SumsUp(g, w, G)
  BY <1>1 DEF SumsUp
<1> HIDE DEF Sums
<1>3. PICK h : Sums(h)
  <2>1. SumsUp([s \in SUBSET G |-> Cardinality(Joined(part, s))], w, G)
    BY <1>1, SizesSumUp
  <2> QED BY <1>2, <2>1
<1>4. PICK g : Sums(g) /\ MapThenSumSet(LAMBDA r : r.container_count, G) = g[G]
  BY <1>3 DEF Sums, MapThenSumSet, MapThenFoldSet
<1> QED BY <1>1, <1>2, <1>4, SumIsSize

(* Each container of the engine is listed, once.                           *)
LEMMA ListedOnce ==
    ASSUME EngineInv
    PROVE  /\ Cardinality(ListContainers(engine)) = Cardinality(engine)
           /\ Cardinality({c \in ListContainers(engine) : c.service = None})
                = Cardinality({d \in engine : d.service = None})
<1> DEFINE f == [d \in engine |-> ContainerFromList(d)]
           bare == {d \in engine : d.service = None}
           g == [d \in bare |-> ContainerFromList(d)]
           listedBare == {c \in ListContainers(engine) : c.service = None}
<1>1. \A d \in engine : /\ ContainerFromList(d).id = d.id
                        /\ ContainerFromList(d).service = d.service
  BY DEF ContainerFromList, Container
<1>2. \A d, e \in engine : d.id = e.id => d = e
  BY DEF EngineInv
<1>3. \A d, e \in engine : ContainerFromList(d) = ContainerFromList(e) => d = e
  BY <1>1, <1>2
<1>4. f \in Bijection(engine, ListContainers(engine))
  BY <1>3 DEF Bijection, Injection, Surjection, IsInjective, ListContainers
<1>5. g \in Bijection(bare, listedBare)
  BY <1>1, <1>3 DEF Bijection, Injection, Surjection, IsInjective, ListContainers
<1>6. IsFiniteSet(engine) /\ IsFiniteSet(bare)
  BY FS_Subset DEF EngineInv
<1> HIDE DEF f, g, bare, listedBare
<1>7. ExistsBijection(engine, ListContainers(engine)) /\ ExistsBijection(bare, listedBare)
  BY <1>4, <1>5 DEF ExistsBijection
<1> QED BY <1>6, <1>7, FS_Bijection DEF bare, listedBare

LEMMA ProjectsAddUp ==
    ASSUME NEW containers, IsFiniteSet(containers),
           IsFiniteSet(ProjectResources(containers))
    PROVE  MapThenSumSet(LAMBDA r : r.container_count, ProjectResources(containers))
              = Cardinality(containers)
<1> DEFINE G == ProjectResources(containers)
           Of(p) == {c \in containers : c.project = p}
           part == [r \in G |-> Of(r.project)]
<1>1. \A r \in G : \E c \in containers : r = ProjectResource(containers, c.project)
  BY DEF ProjectResources
<1>2. \A c \in containers : ProjectResource(containers, c.project) \in G
  BY DEF ProjectResources
<1>3. \A p : /\ ProjectResource(containers, p).project = p
             /\ ProjectResource(containers, p).container_count = Cardinality(Of(p))
  BY DEF ProjectResource, Resource, Address
<1> HIDE DEF G
<1>4. \A r \in G : r.container_count = Cardinality(part[r])
  BY <1>1, <1>3
<1>5. \A r, s \in G : r # s => r.project # s.project
  BY <1>1, <1>3
<1>6. Apart(part, G)
  <2>1. \A r \in G : IsFiniteSet(part[r])
    BY FS_Subset
  <2>2. \A r, s \in G : r # s => part[r] \cap part[s] = {}
    BY <1>5
  <2>3. IsFiniteSet(G)
    BY DEF G
  <2> HIDE DEF part
  <2> QED BY <2>1, <2>2, <2>3 DEF Apart
<1>7. Joined(part, G) = containers
  <2>1. Joined(part, G) \subseteq containers
    BY DEF Joined
  <2>2. ASSUME NEW c \in containers PROVE c \in Joined(part, G)
    <3>1. c \in part[ProjectResource(containers, c.project)]
      BY <1>2, <1>3
    <3> QED BY <1>2, <3>1 DEF Joined
  <2> QED BY <2>1, <2>2
<1> HIDE DEF part
<1> QED BY <1>4, <1>6, <1>7, CountsAreSizes DEF G

LEMMA ServicesAddUp ==
    ASSUME NEW containers, IsFiniteSet(containers),
           IsFiniteSet(ServiceResources(containers))
    PROVE  MapThenSumSet(LAMBDA r : r.container_count, ServiceResources(containers))
              = Cardinality({c \in containers : c.service # None})
<1> DEFINE G == ServiceResources(containers)
           labelled == {c \in containers : c.service # None}
           Of(p, s) == {c \in containers : c.project = p /\ c.service = s}
           part == [r \in G |-> Of(r.project, r.service)]
<1>1. \A r \in G : \E c \in labelled :
          r = ServiceResource(containers, c.project, c.service)
  BY DEF ServiceResources
<1>2. \A c \in labelled : ServiceResource(containers, c.project, c.service) \in G
  BY DEF ServiceResources
<1>3. \A p, s : /\ ServiceResource(containers, p, s).project = p
                /\ ServiceResource(containers, p, s).service = s
                /\ ServiceResource(containers, p, s).container_count
                      = Cardinality(Of(p, s))
  BY DEF ServiceResource, Resource, Address
<1> HIDE DEF G
<1>4. \A r \in G : r.container_count = Cardinality(part[r]) /\ r.service # None
  BY <1>1, <1>3
<1>5. \A r, s \in G : r # s => r.project # s.project \/ r.service # s.service
  BY <1>1, <1>3
<1>6. Apart(part, G)
  <2>1. \A r \in G : IsFiniteSet(part[r])
    BY FS_Subset
  <2>2. \A r, s \in G : r # s => part[r] \cap part[s] = {}
    BY <1>5
  <2>3. IsFiniteSet(G)
    BY DEF G
  <2> HIDE DEF part
  <2> QED BY <2>1, <2>2, <2>3 DEF Apart
<1>7. Joined(part, G) = labelled
  <2>1. Joined(part, G) \subseteq labelled
    BY <1>4 DEF Joined
  <2>2. ASSUME NEW c \in labelled PROVE c \in Joined(part, G)
    <3>1. c \in part[ServiceResource(containers, c.project, c.service)]
      BY <1>2, <1>3
    <3> QED BY <1>2, <3>1 DEF Joined
  <2> QED BY <2>1, <2>2
<1> HIDE DEF part
<1> QED BY <1>4, <1>6, <1>7, CountsAreSizes DEF G

(* However many containers, projects and services there are, a list hides  *)
(* no container behind an aggregate and counts none twice                  *)
(* (docker.py 356-389).                                                    *)
THEOREM CountsAreComplete == Spec => []CountsAddUp
<1>1. EngineInv => CountsAddUp
  <2> SUFFICES ASSUME EngineInv PROVE CountsAddUp
    OBVIOUS
  <2> DEFINE containers == ListContainers(engine)
             labelled == {c \in containers : c.service # None}
             bare == {c \in containers : c.service = None}
             unlabelled == {d \in engine : d.service = None}
  <2>1. /\ IsFiniteSet(containers) /\ IsFiniteSet(ServiceResources(containers))
        /\ IsFiniteSet(ProjectResources(containers))
    BY ListIsFinite DEF EngineInv
  <2>2. /\ Cardinality(containers) = Cardinality(engine)
        /\ Cardinality(bare) = Cardinality(unlabelled)
    BY ListedOnce
  <2> HIDE DEF containers
  <2>3. IsFiniteSet(labelled) /\ IsFiniteSet(bare)
    BY <2>1, FS_Subset
  <2>4. /\ Cardinality(labelled) \in Nat /\ Cardinality(bare) \in Nat
        /\ labelled \cup bare = containers /\ Cardinality(labelled \cap bare) = 0
    BY <2>3, FS_CardinalityType, FS_EmptySet
  <2>5. Cardinality(labelled \cup bare)
           = Cardinality(labelled) + Cardinality(bare) - Cardinality(labelled \cap bare)
    BY <2>3, FS_Union
  <2> HIDE DEF labelled, bare, unlabelled
  <2>6. Cardinality(labelled) + Cardinality(unlabelled) = Cardinality(engine)
    <3>1. Cardinality(engine)
             = Cardinality(labelled) + Cardinality(bare) - Cardinality(labelled \cap bare)
      BY <2>2, <2>4, <2>5, Zenon
    <3>2. Cardinality(engine) = Cardinality(labelled) + Cardinality(bare)
      BY <2>4, <3>1
    <3> QED BY <2>2, <3>2
  <2>7. MapThenSumSet(LAMBDA r : r.container_count, ProjectResources(containers))
           = Cardinality(engine)
    BY <2>1, <2>2, ProjectsAddUp
  <2>8. MapThenSumSet(LAMBDA r : r.container_count, ServiceResources(containers))
           = Cardinality(labelled)
    BY <2>1, ServicesAddUp DEF labelled
  <2>9. MapThenSumSet(LAMBDA r : r.container_count, ServiceResources(containers))
           + Cardinality(unlabelled) = Cardinality(engine)
    BY <2>6, <2>8
  <2> QED BY <2>7, <2>9 DEF CountsAddUp, containers, unlabelled
<1> QED BY <1>1, EngineInit, EngineNext, PTL DEF Spec
=============================================================================
