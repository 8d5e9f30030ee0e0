----------------------------- MODULE DockerUri ------------------------------
(***************************************************************************)
(* The env:// addresses of a Docker target, src/miraasdk/driver/uri.py.    *)
(*                                                                         *)
(* A value is the parts it is written in: the scheme before the colon, the *)
(* network location between the slashes and the path, the segments of the  *)
(* path, and what follows a question mark and a number sign, or None where *)
(* there is none; clean says of its characters what the code asks first.   *)
(* A part is a token; which tokens the regular expressions match, and what *)
(* urlsplit lowers or takes apart, are parameters.                         *)
(***************************************************************************)
EXTENDS Naturals, Sequences

CONSTANTS
    References,  \* the hosts that _REFERENCE matches within its 63 characters
    Plain,       \* the segments that _SEGMENT matches
    Lowered,     \* function: schemes not in lower case to the same lowered
    HostNames,   \* function: network locations that are not as urlsplit
                 \* reads their host, to that host or None
    Invalid,     \* DockerUriInvalid was raised
    None

Keywords == {"docker", "project", "service", "container"}
Orphans  == "_orphans"
Segments == Plain \cup {Orphans}

ASSUME UriAssumption ==
    /\ Keywords \subseteq Plain
    /\ Orphans \notin Plain
    /\ None \notin Segments
    /\ "env" \notin DOMAIN Lowered
    /\ DOMAIN HostNames \cap References = {}

Address(reference, project, service, container) ==
    [target_reference |-> reference, project |-> project,
     service |-> service, container |-> container]

-----------------------------------------------------------------------------
PathOf(a) ==
    <<"docker", "project", a.project>>
        \o (IF a.service = None THEN <<>> ELSE <<"service", a.service>>)
        \o (IF a.container = None THEN <<>> ELSE <<"container", a.container>>)

Build(a) ==
    [clean |-> TRUE, scheme |-> "env", netloc |-> a.target_reference,
     path |-> PathOf(a), query |-> None, fragment |-> None]

(* urllib.parse.urlsplit: the scheme and the host come back in lower case, *)
(* and an empty query or fragment as if it were not there.                 *)
Urlsplit(v) ==
    LET OrEmpty(part) == IF part = None THEN "" ELSE part
    IN  [scheme   |-> IF v.scheme \in DOMAIN Lowered THEN Lowered[v.scheme]
                      ELSE v.scheme,
         hostname |-> IF v.netloc \in DOMAIN HostNames THEN HostNames[v.netloc]
                      ELSE v.netloc,
         query    |-> OrEmpty(v.query),
         fragment |-> OrEmpty(v.fragment)]

(* clean: not empty, at most 1024 characters, no whitespace, control       *)
(* character or percent sign, a host and a port urlsplit can read.  A path *)
(* ends in a slash when its last segment is empty.                         *)
WellFormed(v) ==
    LET parsed == Urlsplit(v) IN
    /\ v.clean
    /\ parsed.scheme = "env"
    /\ parsed.query = "" /\ parsed.fragment = ""
    /\ v.netloc = parsed.hostname
    /\ parsed.hostname \in References
    /\ Len(v.path) >= 3
    /\ \A i \in 1 .. Len(v.path) : v.path[i] \in Segments
    /\ v.path[1] = "docker" /\ v.path[2] = "project"

AddressOf(host, s) ==
    CASE Len(s) = 3 -> Address(host, s[3], None, None)
      [] Len(s) = 5 /\ s[3] = Orphans /\ s[4] = "container"
            -> Address(host, s[3], None, s[5])
      [] Len(s) = 5 /\ s[3] # Orphans /\ s[4] = "service"
            -> Address(host, s[3], s[5], None)
      [] Len(s) = 7 /\ s[3] # Orphans /\ s[4] = "service" /\ s[6] = "container"
            -> Address(host, s[3], s[5], s[7])
      [] OTHER -> Invalid

(* A bug: what urlsplit has read is not compared with what was written.    *)
Parse_AsRead(v) ==
    IF ~WellFormed(v) THEN Invalid
    ELSE AddressOf(Urlsplit(v).hostname, v.path)

Parse(v) ==
    IF ~WellFormed(v) THEN Invalid
    ELSE LET a == AddressOf(Urlsplit(v).hostname, v.path)
         IN  IF a # Invalid /\ Build(a) # v THEN Invalid ELSE a

-----------------------------------------------------------------------------
(* The hierarchy, defined without the grammar: projects; services of a     *)
(* project; containers of a service; containers without Compose labels.    *)
Addresses ==
    LET labelled == [target_reference : References, project : Plain,
                     service : Segments \cup {None},
                     container : Segments \cup {None}]
        orphaned == [target_reference : References, project : {Orphans},
                     service : {None}, container : Segments \cup {None}]
    IN  {a \in labelled : a.service = None => a.container = None}
            \cup orphaned

ASSUME InvalidAssumption == Invalid \notin Addresses

RoundTrip(addresses) == \A a \in addresses : Parse(Build(a)) = a

ParsesOnlyCanonical(values) ==
    \A v \in values :
        Parse(v) # Invalid => Parse(v) \in Addresses /\ Build(Parse(v)) = v
=============================================================================
