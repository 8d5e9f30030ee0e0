---------------------------- MODULE DriverRunner ----------------------------
(***************************************************************************)
(* The driver report loop, src/miraasdk/driver/runner.py.                  *)
(*                                                                         *)
(* One cycle of DriverRunner is a sequence of separate requests to the     *)
(* Docker engine: the list, then for every listed container an inspect, a  *)
(* stats and a revision read and, when an event is detected, a log read.   *)
(* A read is two requests: an inspect, which must find the addressed       *)
(* container, and a request by its name, which gets what has the name by   *)
(* then.  The engine moves between any two requests.                       *)
(*                                                                         *)
(* The finished snapshot is handed to every sink; what a sink's receiver   *)
(* then knows is its view.  A request that its publish did not wait for    *)
(* can reach the receiver at any later time.  The 404 of an inspect is     *)
(* taken to be the engine's; NotFoundIsAnswered in DockerReads says what   *)
(* is so without that.                                                     *)
(***************************************************************************)
EXTENDS DockerEngine, Integers, FiniteSets

CONSTANTS
    Sinks,              \* the receivers, one per configured sink
    FlakySinks,         \* the sinks whose publish may raise
    Slots,              \* bound: requests of a sink nobody waits for any more
    StatsSupported,     \* the driver has a stats operation
    RevisionSupported,  \* the driver has a revision operation
    MaxFaults,          \* bound: calls that abort a cycle
    MaxCrashes          \* bound: deaths of the driver process

ASSUME SinksAssumption == Sinks # {} /\ FlakySinks \subseteq Sinks
ASSUME ProbesAssumption ==
    StatsSupported \in BOOLEAN /\ RevisionSupported \in BOOLEAN
ASSUME RunnerBoundsAssumption == MaxFaults \in Nat /\ MaxCrashes \in Nat

VARIABLES
    pc,            \* where the cycle is
    todo,          \* listed URIs the loop has not reached
    cur,           \* the URI in hand, or None
    details,       \* its inspect answer, or None
    stats,         \* its stats sample, or None
    observations,  \* per URI: the observation made this cycle, or None
    events,        \* the events detected this cycle
    baselines,     \* _baselines: per URI what the last whole cycle saw, or None
    unsent,        \* the sinks this cycle's snapshot has not been offered to
    view,          \* per sink: the inventory its receiver holds, or None
    late,          \* per sink and slot: a report it may still take, or None
    faults,        \* cycle-aborting calls so far
    crashes,       \* process deaths so far
    during,        \* history: per URI what the engine held during the cycle
    prior,         \* history: per URI the details the baseline was made from
    heard          \* history: how often a receiver was told of each death

localVars   == <<todo, cur, details, stats, observations, events>>
historyVars == <<during, prior, heard>>
boundVars   == <<faults, crashes>>
runnerVars  == <<pc, localVars, baselines, unsent, view, late, boundVars,
                 historyVars>>
vars        == <<engineVars, runnerVars>>

(* Whose a sample is and in which run of the host it was taken is history. *)
Sample      == [id : Nat, boot : Nat, total : Nat, system : Nat]
Figure      == [busy : Int, elapsed : Int]
Observation == [details  : Container,
                stats    : Sample \cup {None},
                cpu      : Figure \cup {None},
                revision : Nat \cup {None}]
Baseline    == [restarts : Nat, finished : Nat, stats : Sample \cup {None}]
Kinds       == {"container.oom_killed", "container.exited",
                "container.restarted"}
Event       == [kind : Kinds, uri : Uris, of : Container,
                logTail : Nat \cup {None}]

Stamps      == 1 .. MaxDeaths    \* the FinishedAt of every death there can be
Inventories == [Uris -> Container \cup {None}]
Report      == [inventory : Inventories, news : [Stamps -> Nat]]

ASSUME NoneIsNoRecord ==
    None \notin Sample \cup Observation \cup Baseline \cup Inventories
                 \cup Report

-----------------------------------------------------------------------------
(* What the runner computes.                                               *)

(* A bug: counters that went backwards are used.                           *)
CpuPercent_NoResetCheck(previous, current) ==
    IF previous = None \/ current = None THEN None
    ELSE LET busy    == current.total - previous.total
             elapsed == current.system - previous.system
         IN  IF elapsed <= 0 THEN None
             ELSE [busy |-> busy, elapsed |-> elapsed]

CpuPercent(previous, current) ==
    IF previous = None \/ current = None THEN None
    ELSE LET busy    == current.total - previous.total
             elapsed == current.system - previous.system
         IN  IF busy < 0 \/ elapsed <= 0
             THEN None      \* counters reset: re-baseline silently
             ELSE [busy |-> busy, elapsed |-> elapsed]

Died(previous, d) ==
    d.finished # Never /\ d.finished # previous.finished

Restarted(previous, d) == d.restarts > previous.restarts

Detected(previous, d) ==
    previous # None /\ (Died(previous, d) \/ Restarted(previous, d))

(* A bug: the mechanical kind takes precedence.                            *)
EventKind_RestartFirst(previous, d) ==
    IF Restarted(previous, d) THEN "container.restarted"
    ELSE IF d.oom THEN "container.oom_killed"
    ELSE "container.exited"

EventKind(previous, d) ==
    IF d.oom THEN "container.oom_killed"
    ELSE IF Restarted(previous, d) THEN "container.restarted"
    ELSE "container.exited"

BaselineOf(o) ==
    IF o = None THEN None
    ELSE [restarts |-> o.details.restarts, finished |-> o.details.finished,
          stats |-> o.stats]

(* A bug: a container that was not found is reported as last seen.         *)
Inventory_Remembers == [u \in Uris |-> IF observations[u] = None THEN prior[u]
                                       ELSE observations[u].details]

Inventory == [u \in Uris |-> IF observations[u] = None THEN None
                             ELSE observations[u].details]

NewsOf(f) == Cardinality({e \in events : e.of.finished = f})

(* What this cycle's snapshot tells a receiver.                            *)
Snapshot == [inventory |-> Inventory, news |-> [f \in Stamps |-> NewsOf(f)]]

NoObservations == [u \in Uris |-> None]

-----------------------------------------------------------------------------
Init ==
    /\ EngineInit
    /\ pc = "idle"
    /\ todo = {} /\ cur = None /\ details = None /\ stats = None
    /\ observations = NoObservations
    /\ events = {}
    /\ baselines = [u \in Uris |-> None]
    /\ unsent = {}
    /\ view = [s \in Sinks |-> None]
    /\ late = [s \in Sinks |-> [i \in Slots |-> None]]
    /\ faults = 0 /\ crashes = 0
    /\ during = [u \in Uris |-> {}]
    /\ prior = [u \in Uris |-> None]
    /\ heard = [s \in Sinks |-> [f \in Stamps |-> 0]]

Collecting == pc \in {"next", "stats", "stats_read", "revision",
                      "revision_read", "postmortem", "log_read"}
CycleOpen  == Collecting \/ pc = "publish"

(* The locals of _collect and run_once go with the frame that held them.   *)
DropFrame ==
    /\ todo' = {} /\ cur' = None /\ details' = None /\ stats' = None
    /\ observations' = NoObservations
    /\ events' = {}
    /\ unsent' = {}
    /\ during' = [u \in Uris |-> {}]

(* Containers start, die and are replaced while the cycle runs.            *)
EngineStep ==
    /\ EngineNext
    /\ during' = IF CycleOpen
                 THEN [u \in Uris |-> during[u] \cup {engine'[u]}]
                 ELSE during
    /\ UNCHANGED <<pc, localVars, baselines, unsent, view, late, boundVars,
                   prior, heard>>

-----------------------------------------------------------------------------
(* The cycle.                                                              *)

Query ==
    /\ pc = "idle"
    /\ pc' = "next"
    /\ todo' = Occupied
    /\ during' = [u \in Uris |-> {engine[u]}]
    /\ UNCHANGED <<engineVars, cur, details, stats, observations, events,
                   baselines, unsent, view, late, boundVars, prior, heard>>

Describe(u) ==
    /\ pc = "next" /\ u \in todo
    /\ engine[u] # None
    /\ pc' = "stats"
    /\ todo' = todo \ {u}
    /\ cur' = u
    /\ details' = engine[u]
    /\ UNCHANGED <<engineVars, stats, observations, events, baselines, unsent,
                   view, late, boundVars, historyVars>>

(* A bug: a container that was not found is observed all the same.         *)
DescribeNotFound_Observed(u) ==
    /\ pc = "next" /\ u \in todo
    /\ Holders(u) = {}
    /\ pc' = "stats"
    /\ todo' = todo \ {u}
    /\ cur' = u
    /\ UNCHANGED <<engineVars, details, stats, observations, events, baselines,
                   unsent, view, late, boundVars, historyVars>>

(* Vanished between list and inspect: confirmed absence, skipped.          *)
DescribeNotFound(u) ==
    /\ pc = "next" /\ u \in todo
    /\ Holders(u) = {}
    /\ todo' = todo \ {u}
    /\ UNCHANGED <<engineVars, pc, cur, details, stats, observations, events,
                   baselines, unsent, view, late, boundVars, historyVars>>

LeaveCycle ==
    /\ pc' = "idle"
    /\ DropFrame
    /\ UNCHANGED <<engineVars, baselines, view, late, crashes, prior, heard>>

(* Another service's container has the name by now.  The inspect fails the *)
(* identity check, with an error that is not the one for absence.          *)
DescribeForeign(u) ==
    /\ pc = "next" /\ u \in todo
    /\ engine[u] = None /\ Holders(u) # {}
    /\ LeaveCycle
    /\ UNCHANGED faults

(* A bug: an inspect that fails skips its container.                       *)
AbortCycle_SkipsContainer ==
    /\ pc = "next"
    /\ faults < MaxFaults
    /\ faults' = faults + 1
    /\ \E u \in todo : todo' = todo \ {u}
    /\ UNCHANGED <<engineVars, pc, cur, details, stats, observations, events,
                   baselines, unsent, view, late, crashes, historyVars>>

(* A bug: an aborted cycle keeps the baselines of what it observed only.   *)
AbortCycle_DropsBaselines ==
    /\ pc = "idle" \/ (pc = "next" /\ todo # {})
    /\ faults < MaxFaults
    /\ faults' = faults + 1
    /\ pc' = "idle"
    /\ DropFrame
    /\ baselines' = [u \in Uris |-> IF observations[u] = None THEN None
                                    ELSE baselines[u]]
    /\ UNCHANGED <<engineVars, view, late, crashes, prior, heard>>

(* Any other DriverError of the list or of an inspect leaves run_once;     *)
(* run_forever logs it and waits for the next cycle.                       *)
AbortCycle ==
    /\ pc = "idle" \/ (pc = "next" /\ todo # {})
    /\ faults < MaxFaults
    /\ faults' = faults + 1
    /\ LeaveCycle

-----------------------------------------------------------------------------
(* The reads.  Each is an inspect and, if that finds the addressed         *)
(* container, a request by name; an error of either is no answer.          *)

CheckStats ==
    /\ pc = "stats"
    /\ \/ pc' = "revision"
       \/ /\ StatsSupported
          /\ engine[cur] # None
          /\ pc' = "stats_read"
    /\ UNCHANGED <<engineVars, localVars, baselines, unsent, view, late,
                   boundVars, historyVars>>

(* A bug: an error of the stats call falls back on the last sample.        *)
ReadStats_FallsBack ==
    /\ pc = "stats_read"
    /\ pc' = "revision"
    /\ \/ stats' = IF baselines[cur] = None THEN None ELSE baselines[cur].stats
       \/ \E v \in Holders(cur) :
            /\ engine[v].status = "running"
            /\ stats' = [id |-> engine[v].id, boot |-> boots,
                         total |-> engine[v].cpu, system |-> hostCpu]
    /\ UNCHANGED <<engineVars, todo, cur, details, observations, events,
                   baselines, unsent, view, late, boundVars, historyVars>>

(* A container that does not run has no CPU counters.                      *)
ReadStats ==
    /\ pc = "stats_read"
    /\ pc' = "revision"
    /\ \/ stats' = None
       \/ \E v \in Holders(cur) :
            /\ engine[v].status = "running"
            /\ stats' = [id |-> engine[v].id, boot |-> boots,
                         total |-> engine[v].cpu, system |-> hostCpu]
    /\ UNCHANGED <<engineVars, todo, cur, details, observations, events,
                   baselines, unsent, view, late, boundVars, historyVars>>

(* With the revision, or without, the observation is made and compared     *)
(* with the baseline.                                                      *)
Observe(revision) ==
    /\ observations' = [observations EXCEPT ![cur] =
          [details  |-> details,
           stats    |-> stats,
           cpu      |-> CpuPercent(IF baselines[cur] = None THEN None
                                   ELSE baselines[cur].stats, stats),
           revision |-> revision]]
    /\ IF Detected(baselines[cur], details)
       THEN /\ pc' = "postmortem"
            /\ UNCHANGED <<cur, details, stats>>
       ELSE /\ pc' = "next"
            /\ cur' = None /\ details' = None /\ stats' = None
    /\ UNCHANGED <<engineVars, todo, events, baselines, unsent, view, late,
                   boundVars, historyVars>>

CheckRevision ==
    /\ pc = "revision"
    /\ \/ Observe(None)
       \/ /\ RevisionSupported
          /\ engine[cur] # None
          /\ pc' = "revision_read"
          /\ UNCHANGED <<engineVars, localVars, baselines, unsent, view, late,
                         boundVars, historyVars>>

(* An image's revision is named by the container that runs it; an image    *)
(* without one reads None.                                                 *)
ReadRevision ==
    /\ pc = "revision_read"
    /\ \E revision \in {None} \cup {engine[v].id : v \in Holders(cur)} :
         Observe(revision)

Announce(logTail) ==
    /\ events' = events \cup
          {[kind |-> EventKind(baselines[cur], details), uri |-> cur,
            of |-> details, logTail |-> logTail]}
    /\ pc' = "next"
    /\ cur' = None /\ details' = None /\ stats' = None
    /\ UNCHANGED <<engineVars, todo, observations, baselines, unsent, view,
                   late, boundVars, historyVars>>

CheckLog ==
    /\ pc = "postmortem"
    /\ \/ Announce(None)
       \/ /\ engine[cur] # None
          /\ pc' = "log_read"
          /\ UNCHANGED <<engineVars, localVars, baselines, unsent, view, late,
                         boundVars, historyVars>>

ReadLog ==
    /\ pc = "log_read"
    /\ \E logTail \in {None} \cup {engine[v].id : v \in Holders(cur)} :
         Announce(logTail)

-----------------------------------------------------------------------------
(* The end of the cycle.                                                   *)

(* A bug: a baseline once made is never replaced.                          *)
FinishCollect_KeepsBaselines ==
    /\ pc = "next" /\ todo = {}
    /\ pc' = "publish"
    /\ baselines' = [u \in Uris |-> IF baselines[u] # None THEN baselines[u]
                                    ELSE BaselineOf(observations[u])]
    /\ prior' = Inventory
    /\ unsent' = Sinks
    /\ UNCHANGED <<engineVars, localVars, view, late, boundVars, during, heard>>

(* The loop is over: the new baselines replace the old ones, before        *)
(* anything is published.                                                  *)
FinishCollect ==
    /\ pc = "next" /\ todo = {}
    /\ pc' = "publish"
    /\ baselines' = [u \in Uris |-> BaselineOf(observations[u])]
    /\ prior' = Inventory
    /\ unsent' = Sinks
    /\ UNCHANGED <<engineVars, localVars, view, late, boundVars, during, heard>>

(* A receiver replaces its inventory wholesale.                            *)
Take(s, r) ==
    /\ view' = [view EXCEPT ![s] = r.inventory]
    /\ heard' = [heard EXCEPT ![s] = [f \in Stamps |-> @[f] + r.news[f]]]

(* The request is on the network, and nobody waits for it any more.        *)
LeaveBehind(s) ==
    \E i \in Slots :
        /\ late[s][i] = None
        /\ late' = [late EXCEPT ![s][i] = Snapshot]

Publish(s) ==
    /\ pc = "publish" /\ s \in unsent
    /\ unsent' = unsent \ {s}
    /\ Take(s, Snapshot)
    /\ UNCHANGED <<engineVars, pc, localVars, baselines, late, boundVars,
                   during, prior>>

(* A bug: a sink that raises ends the loop over the sinks.                 *)
PublishRaises_EndsLoop(s) ==
    /\ pc = "publish" /\ s \in unsent
    /\ s \in FlakySinks
    /\ unsent' = {}
    /\ UNCHANGED <<engineVars, pc, localVars, baselines, view, late, boundVars,
                   historyVars>>

(* The sink raised: logged, and the next sink has its turn.  The receiver  *)
(* may have taken the report and only its answer been lost, or it may      *)
(* still take it, after a timeout.                                         *)
PublishRaises(s) ==
    /\ pc = "publish" /\ s \in unsent
    /\ s \in FlakySinks
    /\ unsent' = unsent \ {s}
    /\ \/ Take(s, Snapshot) /\ UNCHANGED late
       \/ UNCHANGED <<view, heard>> /\ (LeaveBehind(s) \/ UNCHANGED late)
    /\ UNCHANGED <<engineVars, pc, localVars, baselines, boundVars, during,
                   prior>>

FinishCycle ==
    /\ pc = "publish" /\ unsent = {}
    /\ LeaveCycle
    /\ UNCHANGED faults

(* A late request reaches its receiver, or is lost.                        *)
Arrive(s, i) ==
    /\ late[s][i] # None
    /\ late' = [late EXCEPT ![s][i] = None]
    /\ Take(s, late[s][i]) \/ UNCHANGED <<view, heard>>
    /\ UNCHANGED <<engineVars, pc, localVars, baselines, unsent, boundVars,
                   during, prior>>

-----------------------------------------------------------------------------
(* The process can die at any point (any exception that is not a           *)
(* DriverError leaves run_forever; the host kills or replaces it), and     *)
(* the compose file restarts it with an empty memory.  It may die while it *)
(* waits for the answer to a publish.                                      *)

Crash ==
    /\ pc # "down"
    /\ crashes < MaxCrashes
    /\ crashes' = crashes + 1
    /\ pc' = "down"
    /\ DropFrame
    /\ baselines' = [u \in Uris |-> None]
    /\ prior' = [u \in Uris |-> None]
    /\ \/ UNCHANGED late
       \/ pc = "publish" /\ \E s \in unsent : LeaveBehind(s)
    /\ UNCHANGED <<engineVars, view, faults, heard>>

Reboot ==
    /\ pc = "down"
    /\ pc' = "idle"
    /\ UNCHANGED <<engineVars, localVars, baselines, unsent, view, late,
                   boundVars, historyVars>>

RunCycle ==
    \/ Query
    \/ \E u \in Uris : Describe(u) \/ DescribeNotFound(u) \/ DescribeForeign(u)
    \/ AbortCycle
    \/ CheckStats \/ ReadStats
    \/ CheckRevision \/ ReadRevision
    \/ CheckLog \/ ReadLog
    \/ FinishCollect
    \/ \E s \in Sinks : Publish(s) \/ PublishRaises(s)
    \/ FinishCycle

Next ==
    \/ EngineStep
    \/ RunCycle
    \/ \E s \in Sinks, i \in Slots : Arrive(s, i)
    \/ Crash
    \/ Reboot

Spec == Init /\ [][Next]_vars

(* The polling thread is scheduled and the restart policy acts; nothing    *)
(* makes the engine move, a call fail, a late request arrive or the        *)
(* process die.                                                            *)
Fairness == WF_vars(RunCycle) /\ WF_vars(Reboot)

FairSpec == Spec /\ Fairness

(* What the loop promises its receivers, seen through this module.         *)
LateInventories ==
    [s \in Sinks |-> [i \in Slots |-> IF late[s][i] = None THEN None
                                     ELSE late[s][i].inventory]]

Reported == INSTANCE ReportedInventory
                WITH Receivers <- Sinks, tenant <- engine, seen <- during,
                     report <- view, underway <- LateInventories

-----------------------------------------------------------------------------
(* Properties.                                                             *)

(* Every variable has its type; what the runner holds of a cycle exists    *)
(* only where the code's control can hold it.                              *)
TypeOK ==
    /\ EngineTypeOK
    /\ pc \in {"idle", "next", "stats", "stats_read", "revision",
               "revision_read", "postmortem", "log_read", "publish", "down"}
    /\ todo \subseteq Uris
    /\ cur \in Uris \cup {None}
    /\ details \in Container \cup {None}
    /\ stats \in Sample \cup {None}
    /\ observations \in [Uris -> Observation \cup {None}]
    /\ events \subseteq Event
    /\ baselines \in [Uris -> Baseline \cup {None}]
    /\ unsent \subseteq Sinks
    /\ view \in [Sinks -> Inventories \cup {None}]
    /\ late \in [Sinks -> [Slots -> Report \cup {None}]]
    /\ faults \in Nat /\ crashes \in Nat
    /\ during \in [Uris -> SUBSET (Container \cup {None})]
    /\ prior \in [Uris -> Container \cup {None}]
    /\ heard \in [Sinks -> [Stamps -> Nat]]

(* A snapshot on its way to the sinks tells the truth about every URI, at  *)
(* some instant of its own cycle: a reported container held the address    *)
(* with exactly those details, an omitted URI was without one.  Receivers  *)
(* delete on absence, so an omission is a claim (runner.py 157-172).       *)
SnapshotTruthful ==
    pc = "publish" => \A u \in Uris : Inventory[u] \in during[u]

(* Receivers' inventories move by whole reports, each truthful when it was *)
(* made; and only by one whose publish raised, or was cut off by the end   *)
(* of the process, can a receiver be set back behind a later one.  The     *)
(* loop implements the abstract specification that says so, through        *)
(* failing calls, failing sinks, late requests and process restarts.       *)
ReportsAreTruthful == Reported!Spec

(* Revisions, stats and log tails are requested by name, after an inspect  *)
(* in a call of its own.  What they tell may be another container's, but   *)
(* always one that had the name during this very cycle, never a remembered *)
(* one; and another service's only if the address was vacant meanwhile.    *)
ReadsFromThisCycle ==
    LET tenants(u) == {c.id : c \in during[u] \ {None}}
        Held(u, id) ==
            \/ id \in tenants(u)
            \/ None \in during[u] /\ \E v \in Namesakes(u) : id \in tenants(v)
    IN
    /\ \A u \in Uris :
         observations[u] # None =>
            /\ observations[u].revision # None =>
                  Held(u, observations[u].revision)
            /\ observations[u].stats # None =>
                  Held(u, observations[u].stats.id)
    /\ \A e \in events : e.logTail # None => Held(e.uri, e.logTail)

(* An event is made of an observed container exactly if its FinishedAt is  *)
(* newer than the one its address's baseline was made from, with any       *)
(* number of aborted cycles, restarts, resets of RestartCount and changes  *)
(* of tenant between the two inspects.  So the last death of a container   *)
(* that is still there is announced if the address had a baseline; one of  *)
(* a container that was removed since, or replaced, is not (runner.py      *)
(* 13-15), and several of one container between two cycles are one event.  *)
EventsTellNewerDeaths ==
    Collecting =>
        \A u \in Uris :
            (observations[u] # None
                /\ ~(pc \in {"postmortem", "log_read"} /\ u = cur)) =>
                ((\E e \in events : e.uri = u)
                    <=> /\ prior[u] # None
                        /\ observations[u].details.finished
                             > prior[u].finished)

(* An OOM announcement is never false, and an OOM death is announced as    *)
(* anything else only once the container has started again, the limit the  *)
(* comment of _detect_event states (runner.py 254-259).                    *)
OomToldTruly ==
    \A e \in events :
        /\ e.kind = "container.oom_killed" => e.of.finished \in oomDeaths
        /\ (e.kind # "container.oom_killed" /\ e.of.finished \in oomDeaths)
              => e.of.status = "running"

(* No receiver is told of the same death twice, whatever calls failed,     *)
(* whether a failed publish had been taken or is taken later, and across   *)
(* process restarts.                                                       *)
DeathsHeardAtMostOnce ==
    \A s \in Sinks : \A f \in Stamps : heard[s][f] <= 1

(* Two samples of one run of the host make a figure that is never negative *)
(* and never exceeds the host's capacity, although containers' counters    *)
(* reset, an address changes tenants and samples can be another service's. *)
(* Across a reboot of the host the code has only the guard of runner.py    *)
(* 303, which a counter that has grown past its old value passes.          *)
CpuWithinCapacity ==
    Collecting =>
        \A u \in Uris :
            (/\ observations[u] # None /\ observations[u].cpu # None
             /\ observations[u].stats.boot = baselines[u].stats.boot) =>
                LET f == observations[u].cpu
                IN  0 <= f.busy /\ f.busy <= f.elapsed /\ 0 < f.elapsed

(* A CPU figure is a rate of one container: "None until two cycles have    *)
(* sampled the same container" (runner.py 60-61).                          *)
CpuOfOneContainer ==
    Collecting =>
        \A u \in Uris :
            (observations[u] # None /\ observations[u].cpu # None) =>
                baselines[u].stats.id = observations[u].stats.id

(* A sink that does not fail ends with the inventory the engine settles    *)
(* on, whatever happened before and however the other sinks fail.          *)
ReliableViewsConverge ==
    \A s \in Sinks \ FlakySinks : <>[](view[s] = engine)
=============================================================================
