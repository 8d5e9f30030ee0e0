---------------------------- MODULE MCDockerReads ---------------------------
(***************************************************************************)
(* Small instances of DockerReads for TLC.                                 *)
(*                                                                         *)
(* web: the container most calls are about; web2 its successor after a     *)
(* redeploy, with a terminal; stray, of that name in another service;      *)
(* broken, of that name with half of its labels; peer, of the same service *)
(* name in another project; job, unlabelled, with a name that is no        *)
(* segment and a link alias that sorts before it.                          *)
(***************************************************************************)
EXTENDS DockerReads, TLC

CONSTANTS first, second

TwoCallers == {first, second}
OneCaller  == {first}

AllReferences == {"prod", "other"}

ShortIds == [i1 |-> "s1", i2 |-> "s2", i3 |-> "s3", i4 |-> "s4", i5 |-> "s5",
             i6 |-> "s6"]
Names    == <<"db/link", "job-", "web", "web1">>
Segs     == Keywords \cup DOMAIN ShortIds
                \cup {ShortIds[i] : i \in DOMAIN ShortIds}
                \cup {"web", "web1", "p", "q", "s", "t"}

Doc(id, name, aliases, project, service, state, terminal) ==
    [id |-> id, name |-> name, aliases |-> aliases, project |-> project,
     service |-> service, state |-> state, image |-> "img", tty |-> terminal,
     sound |-> TRUE]

web    == Doc("i1", "web", {"db/link"}, "p", "s", "running", FALSE)
web2   == Doc("i2", "web", {}, "p", "s", "running", TRUE)
stray  == Doc("i3", "web", {}, "p", "t", "running", FALSE)
broken == Doc("i4", "web", {}, "p", None, "running", FALSE)
peer   == Doc("i5", "web1", {}, "q", "s", "exited", FALSE)
job    == Doc("i6", "job-", {"db/link"}, None, None, "exited", TRUE)

AllDocuments  == {web, web2, stray, broken, peer, job}
SwapDocuments == {web, stray}

Of(project, service, container) ==
    Build(Address("prod", project, service, container))

CallsOfFirst ==
    {Call("query", "service"), Call("query", "volume"),
     Call("describe", Of("p", "s", None)), Call("describe", Of("p", "s", "s1")),
     Call("describe", Build(Address("other", "p", "s", "web"))),
     Call("stats", Of("p", "s", "web")), Call("logs", Of("p", "s", "web")),
     Call("revision", Of("p", "s", "web")), Call("logs", Of("p", "s", None))}
CallsOfSecond == {Call("query", "container")}

TwoAsk == (first :> CallsOfFirst) @@ (second :> CallsOfSecond)
OneAsks == first :> {Call("revision", Of("p", "s", "web")),
                 Call("stats", Of("p", "s", "web"))}

LoweredSchemes == [ENV |-> "env"]
OtherHosts == [Prod |-> "prod"] @@ ("prod:80" :> "prod") @@ ("" :> None)

(* One segment of each kind: a keyword in and out of place, a name, the    *)
(* orphans, one that the grammar refuses, and the empty one that a slash   *)
(* at the end leaves.                                                      *)
Paths == {<<"docker", "project">> \o rest :
            rest \in UNION {[1 .. n -> {"service", "container", "p", Orphans,
                                        "job-", ""}]
                            : n \in 0 .. 3}}
         \cup {<<"docker", "project">> \o rest :
            rest \in UNION {[1 .. n -> {"service", "container", "p", Orphans}]
                            : n \in 4 .. 5}}
(* Every path as it should be written, and a few with everything urlsplit  *)
(* forgives.                                                               *)
SomeWritings ==
    [clean : {TRUE}, scheme : {"env"}, netloc : {"prod"}, path : Paths,
     query : {None}, fragment : {None}]
    \cup
    [clean : BOOLEAN, scheme : {"env", "ENV", "http"},
     netloc : {"prod", "Prod", "prod:80", ""},
     path : {<<>>, PathOf(Address("prod", "p", None, None)),
             PathOf(Address("prod", "p", "s", "web"))},
     query : {None, "", "q"}, fragment : {None, ""}]

Line(n) == [i \in 1 .. n |-> IF i = n THEN Newline ELSE 97]
Write(stream, n) == [stream |-> stream, text |-> Line(n)]
TwoLines == [stream |-> Stdout, text |-> <<97, Newline, 97>>]
(* One message of two lines; logs longer than the tail; and, with a limit  *)
(* of six bytes and headers of three, cuts between two frames, in a header *)
(* and in a line.                                                          *)
SomeLogs ==
    {<<>>, <<TwoLines>>, <<Write(Stdout, 3)>>,
     <<Write(Stdout, 3), Write(Stderr, 1)>>,
     <<Write(Stderr, 1), Write(Stdout, 2), Write(Stdout, 1)>>,
     <<Write(Stderr, 1), Write(Stderr, 5), Write(Stdout, 2)>>}

=============================================================================
