---------------------------- MODULE DockerEngine ----------------------------
(***************************************************************************)
(* The Docker engine whose state mira-driver polls.  It is outside the     *)
(* repository: it is modelled from the fields of the inspect, list and     *)
(* stats documents that docker.py reads (Id, State.Status, FinishedAt,     *)
(* RestartCount, OOMKilled, the CPU counters) and from what the comments   *)
(* of runner.py say of them.                                               *)
(*                                                                         *)
(* A container is addressed by its URI.  Containers come and go under a    *)
(* URI (a redeploy removes one and creates another with the same project,  *)
(* service and name), so an address is not an identity.  Containers of two *)
(* services can have the same name one after the other: the engine is      *)
(* asked for a name, and its names are unique at any time.                 *)
(*                                                                         *)
(* The host may be a remote one: it can reboot while its poller lives on.  *)
(***************************************************************************)
EXTENDS Naturals

CONSTANTS
    Uris,       \* the container addresses of the target
    NameOf,     \* the name each URI ends in, by which the engine is asked
    None,       \* Python's None: no container, no sample, no baseline
    MaxBirths,  \* bound: containers ever created
    MaxDeaths,  \* bound: container deaths
    MaxTicks,   \* bound: units of host CPU time between two boots
    MaxBoots    \* bound: reboots of the host

VARIABLES
    engine,     \* the container at each URI, or None
    births,     \* containers created so far; the newest one's id
    deaths,     \* deaths so far; the newest one's FinishedAt
    oomDeaths,  \* history: the FinishedAt stamps of the deaths by OOM
    hostCpu,    \* system_cpu_usage: CPU time of the whole host since it booted
    boots       \* history: reboots of the host so far

engineVars == <<engine, births, deaths, oomDeaths, hostCpu, boots>>

Never == 0      \* the zero FinishedAt, which _lifecycle_timestamp maps to None

Container == [id       : Nat,
              status   : {"running", "restarting", "exited"},
              finished : Nat,
              restarts : Nat,
              oom      : BOOLEAN,
              cpu      : Nat]

ASSUME BoundsAssumption ==
    /\ MaxBirths \in Nat /\ MaxDeaths \in Nat
    /\ MaxTicks \in Nat /\ MaxBoots \in Nat
ASSUME NoneAssumption == None \notin Container

Occupied == {u \in Uris : engine[u] # None}

(* The addresses that end in the same name, and the one of them, if any,   *)
(* whose container has the name now.                                       *)
Namesakes(u) == {v \in Uris : NameOf[v] = NameOf[u]}
Holders(u)   == {v \in Namesakes(u) : engine[v] # None}

EngineTypeOK ==
    /\ engine \in [Uris -> Container \cup {None}]
    /\ births \in Nat
    /\ deaths \in Nat
    /\ oomDeaths \subseteq Nat
    /\ hostCpu \in Nat
    /\ boots \in Nat

EngineInit ==
    /\ engine = [u \in Uris |-> None]
    /\ births = 0
    /\ deaths = 0
    /\ oomDeaths = {}
    /\ hostCpu = 0
    /\ boots = 0

-----------------------------------------------------------------------------
(* A container as it is made, as a death leaves it, and as it runs again.  *)
(* The engine counts an automatic restart when it decides on it, at the    *)
(* death: until the container runs again its status is "restarting" and    *)
(* OOMKilled still tells how it died; it resets when the container starts  *)
(* (runner.py 256 says so).                                                *)
Fresh(n) == [id |-> n, status |-> "running", finished |-> Never,
             restarts |-> 0, oom |-> FALSE, cpu |-> 0]

Killed(c, stamp, oom, restart) ==
    [c EXCEPT !.status = IF restart THEN "restarting" ELSE "exited",
              !.finished = stamp,
              !.restarts = IF restart THEN @ + 1 ELSE @,
              !.oom = oom,
              !.cpu = 0]

Started(c, n) ==
    [c EXCEPT !.status = "running", !.oom = FALSE, !.restarts = n]

Create(u) ==
    /\ Holders(u) = {}
    /\ births < MaxBirths
    /\ births' = births + 1
    /\ engine' = [engine EXCEPT ![u] = Fresh(births + 1)]
    /\ UNCHANGED <<deaths, oomDeaths, hostCpu, boots>>

Die(u, oom, restart) ==
    /\ engine[u] # None
    /\ engine[u].status = "running"
    /\ deaths < MaxDeaths
    /\ deaths' = deaths + 1
    /\ oomDeaths' = IF oom THEN oomDeaths \cup {deaths + 1} ELSE oomDeaths
    /\ engine' = [engine EXCEPT ![u] = Killed(@, deaths + 1, oom, restart)]
    /\ UNCHANGED <<births, hostCpu, boots>>

AutoRestart(u) ==
    /\ engine[u] # None
    /\ engine[u].status = "restarting"
    /\ engine' = [engine EXCEPT ![u] = Started(@, @.restarts)]
    /\ UNCHANGED <<births, deaths, oomDeaths, hostCpu, boots>>

(* "docker start" resets RestartCount as well.                             *)
ManualStart(u) ==
    /\ engine[u] # None
    /\ engine[u].status = "exited"
    /\ engine' = [engine EXCEPT ![u] = Started(@, 0)]
    /\ UNCHANGED <<births, deaths, oomDeaths, hostCpu, boots>>

Remove(u) ==
    /\ engine[u] # None
    /\ engine' = [engine EXCEPT ![u] = None]
    /\ UNCHANGED <<births, deaths, oomDeaths, hostCpu, boots>>

(* A unit of host CPU time passes, spent in one running container or idle. *)
Tick(busy) ==
    /\ hostCpu < MaxTicks
    /\ hostCpu' = hostCpu + 1
    /\ \A u \in busy : engine[u].status = "running"
    /\ engine' = [u \in Uris |->
                    IF u \in busy THEN [engine[u] EXCEPT !.cpu = @ + 1]
                                  ELSE engine[u]]
    /\ UNCHANGED <<births, deaths, oomDeaths, boots>>

(* The host has gone down, its containers with it, and comes up again with *)
(* its counter at zero.                                                    *)
BootHost ==
    /\ boots < MaxBoots
    /\ \A u \in Occupied : engine[u].status # "running"
    /\ boots' = boots + 1
    /\ hostCpu' = 0
    /\ UNCHANGED <<engine, births, deaths, oomDeaths>>

EngineNext ==
    \/ \E u \in Uris : \/ Create(u)
                       \/ \E oom, restart \in BOOLEAN : Die(u, oom, restart)
                       \/ AutoRestart(u)
                       \/ ManualStart(u)
                       \/ Remove(u)
    \/ \E busy \in {{}} \cup {{u} : u \in Occupied} : Tick(busy)
    \/ BootHost
=============================================================================
