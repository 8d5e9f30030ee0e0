# A verification project for mira-sdk

`miraasdk.driver` is a read-only infrastructure observer. Its process,
`mira-driver`, polls the Docker engine of one host (through a socket proxy or
through Portainer), detects container deaths between polls, and publishes a
snapshot to up to two receivers: mirarun's report cache and movingfirm-admin's
collector. Both replace what they know with what a snapshot says, so a
container missing from a snapshot is deleted downstream. `miraasdk.telemetry`
is a small tracing wrapper, and `scripts/report_build_telemetry.py` a one-shot
CI script.

This directory holds TLA+ models of that code, TLC configurations that check
them on small instances, and proofs checked by TLAPS for every instance. Paths
below are relative to `src/`.

## Inventory

| Part | State | Operations | What is hard | What makes it correct |
|---|---|---|---|---|
| Report loop, `miraasdk/driver/runner.py` `DriverRunner` | `_baselines` (per URI: restart count, finished-at, last stats sample); the frame of the running cycle | `run_once`: list, then per container inspect, stats, revision, event detection, log tail; publish to each sink | every request is of its own and the engine moves between them; an inspect may fail; baselines advance before publishing; a publish that timed out may be applied later; a crash loses the baselines | snapshots are truthful, absence included; an event is made exactly of a container whose FinishedAt is newer than its address's baseline; a death is heard of at most once per receiver; CPU figures mean something; a working receiver converges |
| Process life cycle, `runner.py` `run_forever`, `process.py` `main` | the stop `Event` (flag, lock), where the thread is | poll, ride out a `DriverError`, wait, signal handler | the handler runs on the thread it interrupts; a stop can land anywhere | a failed cycle is retried; a stop ends the loop after at most one more cycle |
| Docker reads, `docker.py` | none of its own | `query`, `describe`, `logs`, `stats`, `revision` | identity check and read are two requests; one bad container fails the list; list and inspect can name a container differently | errors map to the right exception; "not found" is never raised for a container that is another's or unreadable; bounded responses |
| Lazy HTTP clients, `docker.py`, `portainer.py`, `sinks.py` | `_client_instance` | `_client`, `close` | two threads on first use; close between test and return | one client, open, with its credential |
| Resource addresses, `uri.py` | none | `build_docker_uri`, `parse_docker_uri` | what `urlsplit` forgives | one writing per address |
| Log decoding, `docker.py` `_decode_logs` | none | frames to lines | truncation inside frames, two tails (the engine's of messages, the code's of lines) | a result that does not say truncated is what was asked of the engine; a cut is never taken for a malformed stream |
| Host metrics, `metrics.py` | last CPU times | `collect` | baseline advances although a later read fails | utilization in [0, 1] |
| Sinks, `sinks.py` | HTTP client | `publish` | caps, status codes, a timed-out request applied late | fail loud; a receiver holds one cycle's whole inventory, and goes back in time only by a report whose publish raised |
| Configuration, `process.py` | none | `from_environ`, `build_runner`, `main` | combinations of variables | a misconfigured process exits with status 2 |
| Telemetry, `miraasdk/telemetry.py` | bounded queue, `ExportStats` | `span`, `shutdown`, exporter wrapper | overflow, failing exporter, hung exporter at exit | counters add up; a thread that ends a span never waits for the exporter |
| Build report, `scripts/report_build_telemetry.py` | none | inspect image, two posts | best effort, never fails the build | exit status 0 |

The parts interact by plain calls on one thread: `main` builds a runner from
the configuration and runs `run_forever`; a cycle calls the driver, the
metrics collector and then each sink. The concurrency is with the outside: the
engine, the receivers, the signals, and the death and restart of the process.

## Modules

| Module | Models |
|---|---|
| `DockerEngine` | the engine, external: containers under addresses, created, dying (by OOM or not, restarted by policy or not), started, removed; the names it is asked for; CPU counters, and reboots of the host |
| `DriverRunner` | the report loop against that engine |
| `ReportedInventory` | the abstract specification: what receivers are promised |
| `RunLoop` | `run_forever`, the `Event`, its lock and who calls `set()` |
| `ProcessConfig` | `from_environ` and what `build_runner` makes of a configuration, as operators |
| `DriverProcess` | `main`, from its environment to its exit status; extends both |
| `DockerUri` | `uri.py`: building and parsing addresses, with `urlsplit` |
| `DockerDocuments` | a container from its list entry and from its inspect; the identity check |
| `DockerInventory` | `query`: containers, services and projects from one list |
| `LogDecoding` | what the engine sends of a log; the body limit, frames, lines and tail |
| `LazyClient` | `_client` of both drivers and of the sinks, and `close`, step by step |
| `DockerReads` | the driver's operations as requests; composes the five before it |
| `HostMetrics` | a collection and the CPU baseline, on a host that reboots |
| `ReportDelivery` | host metrics, both sinks, the network and the receivers; extends `HostMetrics` |
| `Telemetry` | spans, queue, `_CountingExporter`, `shutdown` |
| `BuildReport` | `report_build_telemetry.py`, from `main` to its exit |
| `MCDriverRunner`, `MCRunLoop`, `MCDriverProcess`, `MCDockerReads`, `MCReportDelivery`, `MCTelemetry` | instances for TLC |
| `Folds_proofs` | induction by a smallest counterexample; sums over finite sets; sequences joined one after the other |
| `DriverRunner_proofs` | types, truth of snapshots and reads, refinement of `ReportedInventory`, CPU figures within capacity between two boots |
| `DriverEvents_proofs` | which deaths are told, OOM is told truly, deaths are heard once |
| `RunLoop_proofs` | at most one cycle after a stop; where the lock is held; the process runs the loop; blank variables are unset ones |
| `DockerReads_proofs` | requests over open clients with their credential; one client without a race; what not found, invalid and an answer mean; logs are told as asked |
| `DockerInventory_proofs` | one writing per address; what is listed can be described; counts are complete |
| `ReportDelivery_proofs` | whole inventories, the caps and fields of what is sent, acknowledgements, utilization, rows within the host's time |
| `Telemetry_proofs` | the export counters; what a build's report posts |

### The report loop

`pc` is where `_collect` and `run_once` are. Each action is one request with
everything the code does before the next one:

| Action | Code |
|---|---|
| `Query` | lines 148-154, the list request and the start of the loop |
| `Describe`, `DescribeNotFound` | 154-162, an inspect that answers, or 404 and `continue` |
| `DescribeForeign` | the inspect finds another service's container under the name: an error that is not absence, so the cycle ends |
| `AbortCycle` | 163-172 (and the query), any other `DriverError`: leaves `run_once`, caught in `run_forever`; baselines stay |
| `CheckStats`, `ReadStats` | `_sample_stats`: the inspect with its identity check, then the request by name; an error of either is a missing sample |
| `CheckRevision`, `ReadRevision` | `_sample_revision`, the same two requests; then `Observe`, 175-184: the CPU figure, the observation, and whether an event is due |
| `CheckLog`, `ReadLog` | 266-286, `_postmortem`, the same two requests; then `Announce`: the event |
| `FinishCollect` | 200-215, new baselines, then the snapshot |
| `Publish`, `PublishRaises` | 122-130, one sink; a sink that raised has been heard, or not, or its request is left behind and may still arrive |
| `FinishCycle` | the end of `run_once`, and the wait |
| `Arrive` | a request left behind reaches its receiver, in any later cycle, or is lost |
| `Crash`, `Reboot` | any exception that is not a `DriverError`, a kill, and the compose file's `restart: unless-stopped`; the process may die while it waits for a publish, and leave the request behind |
| `EngineStep` | between any two of these the engine moves |

The listed containers and the sinks are visited in any order; the code's order
is one of them. Details are the engine's record of the container; a revision
and a log tail are named by the container they were read from, which lets the
properties ask whose they are. The engine is asked for a name: `NameOf` gives
the one an address ends in, several addresses may share it, and the second
request of a read answers for whatever holds the name by then. `cpu_percent`
keeps the two differences it is computed from, and a sample the run of the
host it was taken in. An address is one URI; that the two URIs a container can
have (from the list, and from its inspect) both describe it is checked in
`DockerReads` (`ListedIsDescribable`). What a receiver holds is `view`, the
last inventory it took; what it was told of deaths is counted in `heard`;
`late` keeps the requests left behind, at most one per sink and element of
`Slots`.

Three variables are history and guide no action: `during` collects what each
address held since the cycle's list request, `prior` keeps the inspect answers
the baselines were made from, and `heard` counts announcements. The engine's
`oomDeaths` and `boots`, and whose a sample is, are history too.

`ReportedInventory` says what this amounts to for a receiver: its inventory
moves only by whole reports, and each entry, and each omission, of a report
was true, when it was made, at some instant since the reporter last began to
look. Some reports are underway for a while; one may set a receiver back
behind later reports, which is all mirarun's payload allows (it carries
nothing to order reports by). `DriverRunner` is shown to implement it, with
`tenant <- engine`, `seen <- during`, `report <- view`, `underway <-
LateInventories`.

### The run loop and the process around it

`RunLoop` follows the polling thread through the test of the event, the cycle
and `Event.wait`, with the lock of the event's `Condition` explicit. In
CPython that lock is not re-entrant, and a signal handler runs on the main
thread between two bytecodes, so `Stopper = "signal"` lets nothing of the
thread run until the handler has returned; `Stopper = "thread"` makes `set()`
a concurrent caller, as when an embedding program passes its own event to
`run_forever`.

`DriverProcess` puts `main` around it: an environment is read (`Config`),
found acceptable or refused with status 2 (`Refuse`, `process.py` 285-289),
the parts are built or their constructor raises (`BuildRaises`), the loop runs
(`Run`, steps of `RunLoop`) and `Return` ends with 0. An environment maps each
variable to a token; `Numbers` says which tokens are finite numbers,
`Stripped` and `Lowered` what `strip()` and `lower()` make of a token,
`Hostname` is `socket.gethostname()`.

### The Docker driver's operations

A call (`Begin`) goes through its requests: `List` for `query` and for
`describe` of a project or service; `Inspect` for `describe` of a container;
and `Inspect` then `Read` for `stats`, `logs` and `revision`. `Refuse` is what
is turned down before a request, `RequestFails` every status and body that
`_read_response` and `_get_json` raise on, and `RequestAstray` a 404 that is
not the engine's (a proxy's, or Portainer's for an environment it does not
know), which the code maps to `DriverResourceNotFound` like one of the engine.
Before each request the caller takes the client (`TakeClient`), whose steps
are the test of the slot, the opening and storing of a client, and the second
read of the slot on return (`LazyClient`: `TestKeyed` and `OpenClient` of the
Portainer subclass, then `Test` of its parent). Between any two steps `Create`
and `Remove` change what the engine holds, and other callers move.

The engine holds documents: name, link aliases, ID, labels, state, image, TTY.
`DockerDocuments` makes a container of one as `_container_from_list` and
`_container_from_inspect` do, with the name that is not a segment replaced by
the short ID. `DockerInventory` groups a list into resources, filters it and
aggregates states. A value that is parsed is its parts as written (scheme,
network location, segments, query, fragment); `Urlsplit` says what
`urllib.parse` makes of them (scheme and host lowered, a port taken off, an
empty query or fragment dropped), and the comparison with the canonical
writing then has to refuse what it forgave. A log is a sequence of messages;
the engine is asked for the last ones (`tail`), frames them as the TTY setting
says, and what it sends is cut by the size limit, decoded as the setting
inspected earlier says, and cut to `tail` lines. `held` is history: how the
address stood (own, foreign, vacant, unusable), and whether a 404 came from
elsewhere (astray), during the call, defined by labels and names alone and not
by the check the code makes.

### Delivery

A cycle of `ReportDelivery` observes an inventory, collects host metrics
(`ReadCpu` moves the baseline, `ReadRest` or `CollectFails` follow) and
publishes to mirarun and then admin. `RefuseOversized` is what raises before a
request, `Send` puts the request on the network, and one of `Apply` (a good
status, in time), `Reject` (another status) or `TimeOut` ends the wait.
`ApplyUnheard` is a request that arrives although nobody will hear of it:
after its publish gave up, after later requests, or with its answer lost on
the way. A request that is never applied is one that was lost. `BodyBytes`
counts the payload as it is sent, ports cut and the envelope included. `rows`
are admin's CPU rows, which a late request adds to like any other.

### Telemetry and the build report

`EndSpan` puts a span in the queue or drops it; the export thread takes a
batch and counts it before the delegate is asked (`BeginExport`), and
afterwards counts success or failure in two steps (`Failed`, `CountSpans`)
between which a thread may read the counters. `Shutdown`, `FlushReturns` and
`ProviderStops` are `shutdown`; `Tick` is time, which passes in `shutdown`
only while an export is out. A delegate may never return. Whether
OpenTelemetry's `force_flush` keeps to its `timeout_millis` is unknown to the
code (its docstring says so, `tests/test_telemetry.py` 109-112 says
otherwise), so `timed` is either.

`BuildReport` starts from any environment of the step; each command or post
answers, answers with something unusable, or fails. `CommandTakesTime` moves
the clock while the inspection runs. A `Size` that is no number (`Unusable`)
makes `int()` raise before anything is posted (`LacksSize`).

## Runs

| Run | Instance | Checks |
|---|---|---|
| `events` | one address, a container that dies twice, an aborted cycle, a crash, a flaky sink with a request left behind | `TypeOK`, `EventsTellNewerDeaths`, `OomToldTruly`, `DeathsHeardAtMostOnce` |
| `inventory` | two addresses, two containers, two sinks of which one flaky, with a request left behind, an aborted cycle, a crash | `SnapshotTruthful`, `ReportsAreTruthful`, `ReliableViewsConverge` |
| `tenants` | two addresses of one name, two containers, a death or a reboot of the host, two ticks of CPU time between boots, stats and revisions | `EventsTellNewerDeaths`, `CpuWithinCapacity`, `ReadsFromThisCycle` |
| `process` | both backends' default environments and every one with one variable set otherwise; two stops from threads | `TypeOK`, `AtMostOneLateCycle`, `BlankMeansUnset`, `StopEndsLoop`, `FailedCycleRetried` |
| `reads` | two callers of one PortainerDriver, six documents of which three share a name, at most two at a time in a list that is not too long, six logs, 6-byte bodies, some 1,900 ways to write an address | `RequestsGoThrough`, `OneClientUnlessRaced`, `NotFoundIsAnswered`, `AnswersPassedTheCheck`, `InvalidOnlyIfSo`, `ListedIsDescribable`, `AggregatesDescribable`, `CountsAddUp`, `LogsToldAsAsked`, `CutLogsDecode`, `UrisCanonical` |
| `delivery` | three cycles, inventories within and above a cap, a port string over its limit, one reset of the host's counters | `DeliveryTypeOK`, `UtilizationInRange`, `WholeInventories`, `AcknowledgedUnlessRaised`, `WithinContract`, `RowsWithinHostTime` |
| `telemetry` | two threads, four spans, a queue and a batch of two; and every environment of the build report | `SpansAccountedFor`, `StatsReadable`, `EmittersNeverWait`, `LogRecordPosted`, `DurationIsTheBuilds`, `BuildNeverFails` |
| `cpu_tenant` | one address, two containers, three ticks of CPU time | finds `CpuOfOneContainer` violated |
| `stop_signal` | one signal | finds `StopEndsLoop` violated |
| `reads_swap` | one caller, two containers of one name in two services | finds `ReadsAddressed` violated |
| `startup` | environments with two variables set otherwise | finds `MisconfiguredExitsTwo` violated |
| `telemetry_exit` | as `telemetry` | finds `ExitWithinTimeout` violated |

`telemetry` checks two programs that share nothing in one run: each behaviour
is of one or of the other.

Bounds. `MaxBirths`, `MaxDeaths`, `MaxTicks` (between two boots) and
`MaxBoots` bound the engine, `Slots` the requests left behind, `MaxFaults` the
calls that abort a cycle, `MaxCrashes` the deaths of the process, `MaxStops`
the calls of `set()`. Cycles of the report loop are not bounded: it runs for
ever. Two containers are what a change of tenant takes, under one address or
under two that share a name, and two deaths one known to the baseline and one
that is news, or one on each side of an abort or a crash. One request left
behind is one that a later report overtakes. Truth of an inventory relates the
addresses of one cycle pairwise (one read, one not yet), so two addresses with
a replacement suffice. A reset counter needs one tick before and one after, a
mixed figure one more. `tenants` takes a death or a reboot, not both
(`OneUpset`): each sets counters back, a death those of a container, a reboot
the host's. Its two addresses differ in nothing and are interchangeable
(`Namesake`).

In `reads`, two callers are what a race for the slot takes, and `MaxClients`
leaves each a client to open after a close. The six documents are one of each
kind the code treats differently (web, its successor with a terminal, one of
that name in another service, one with half of its labels, one of the same
service name in another project, one unlabelled with a name that is no segment
and an alias that sorts before it); any of them may be there together unless
they share a name. A header of three bytes and a limit of six let the limit
fall before, in and after a header, in a line and between two frames; one
message of two lines tells the engine's tail from the code's. `UrisCanonical`
takes all paths of up to three segments after `docker/project` over a keyword
in and out of place, a name, the orphans, one the grammar refuses and the
empty one of a trailing slash; those of four and five without the last two;
and for a few paths everything `urlsplit` forgives.

In `delivery`, three cycles are one whose report is late, one that was
acknowledged meanwhile, and one after a collection that failed; three jiffies
are one before, between and after. In `telemetry` four spans fill the queue
while a batch is out and overflow it. The theorems below remove the bounds for
the properties they name.

Fairness. `RunCycle` is weakly fair: the polling thread is scheduled and every
request has a timeout. `Reboot` is weakly fair: the container runs under a
restart policy. Nothing is assumed of the engine, of failures, of the flaky
sink or of crashes; the ones that could stop convergence are bounded, which
states the property as "once they cease". In `RunLoop` threads are weakly fair
and a `set()` waiting for the lock is strongly fair, since the loop holds the
lock for a few bytecodes between long stretches without it. `StopSpec` and
`ProcessSpec` do not make the wait's timeout happen, so that `StopEndsLoop`
cannot be met by the interval running out; `FailedCycleRetried` supposes in
its statement that the wait ends. `TelemetryFairness` schedules the threads
that end spans; of the exporter, and of `shutdown`, it assumes nothing.
`ReportFairness` makes the script go on: every command and connection has a
timeout.

Runs without the deadlock check are those of programs or instances that end:
`process`, `startup` and `stop_signal` (the process may end; that it does not
hang is `StopEndsLoop`), `telemetry` and `telemetry_exit` (both programs end),
and `delivery` (its cycles are bounded). `DriverRunner` and `DockerReads`
never stop, and their runs check for deadlock.

## What the violated properties show

* `CpuOfOneContainer`. A container recreated under the same address is
  detected only by a counter that went backwards (`runner.py` 303). If the new
  container has used at least as much CPU time as the old one had at its last
  sample, the figure is the difference of two containers' counters, where
  lines 60-61 promise "None until two cycles have sampled the same container".
  Between two samples of one run of the host the figure still stays within its
  capacity (`CpuWithinCapacity`); across a reboot of a remote host nothing
  keeps it there.
* `StopEndsLoop` under signals. The handler's `stop.set()` (`process.py` 295)
  takes the lock `Event.wait` may be holding on the thread the handler
  suspended: at its entry or its exit, both once per cycle. The process then
  hangs until it is killed, where line 294 says it stops after the current
  cycle.
* `ReadsAddressed`. `revision`, `stats` and `logs` inspect, compare and then
  read by name in a second request. A container replaced under the name
  between the two is read although it is another service's, which `docker.py`
  257-262 says the check prevents. The window is one request long. What the
  report loop may then report is `ReadsFromThisCycle`.
* `MisconfiguredExitsTwo`. A `PORTAINER_URL` without a scheme passes
  `from_environ` and ends the process with status 1 from the constructor's
  `ValueError`; a sink URL or an endpoint without one is found by nobody, and
  the process runs and never delivers. `docs/deployment.md` 126-128 says that
  configuration errors exit with status 2 at startup.
* `ExitWithinTimeout`. While an export hangs, `shutdown` waits out the
  caller's timeout in `force_flush`, if that keeps to it, and then goes on
  waiting for the same export in the provider's own shutdown, where
  `telemetry.py` 165-169 says exit is delayed by at most the former. The trace
  has a batch with a delegate that does not answer.

Two more disagreements need no run: they are single lines, and the properties
next to them leave them out by name. `NotFoundIsAnswered` does not say that
what is not found is absent (`base.py` 119): a proxy's or Portainer's 404 of
an inspect is told alike (`docker.py` 408-412), and the loop takes it for
"confirmed absence". `WithinContract` does not say that texts have
`min_length=1` (`sinks.py` 8-9, `tests/driver/test_sinks.py` 106-107):
`_reported_resource` leaves out `None` only, and `_bounded_optional`
(`docker.py` 607-612) lets an empty image, state or health through.

## What is proved

From the assumptions named in the modules, for any sets of URIs, sinks,
threads, documents, logs and inventories. Bounds are naturals, `None` is not
one of the records, keywords are segments. `DetailsAssumption`
(`ReportDelivery`): an inventory is finite, and a field that is never left out
is never `None`. `LogsAssumption` (`DockerReads`): a log is a sequence of
writes of bytes to one of two streams, none longer than the size limit (the
engine splits at 16 KB, the limit is 256 KB); without the last part
`CutLogsDecode` would be false, since the code refuses a longer frame as
malformed.

* `TypeCorrect`. `TypeInv` adds to `TypeOK` that a step with a container in
  hand has its inspect answer, and that the events of a cycle are finite.
* `SnapshotsTruthful`. `SnapshotTruthful` speaks of the end of a cycle only.
  `TruthInv` says how it comes about: while a cycle is open the engine's
  present state is recorded, what was observed was seen, and each URI is
  observed, still listed, in hand, or was empty at some instant of the cycle.
* `ReadsAreOfThisCycle`, from `ReadsInv` and `OneHolder` (at most one of the
  addresses that share a name is occupied): what is in hand, observed or
  announced names only containers that held the address during the cycle, or
  its name while the address was vacant (`HolderIsReadable`).
* `LoopImplementsReports`. With `TruthInv`, every step of the loop is a step
  of `ReportedInventory` or invisible to it. A request left behind is a report
  made and left underway (`LeaveBehindLeaves`), and is one whole report when
  it is taken (`ArriveArrives`).
* `EventsAreOfNewerDeaths`. The code compares two timestamps and two counters.
  `EventInv` carries, from the inspect behind a baseline to the inspect of
  this cycle, how the fields of whoever holds the address can have moved: a
  later death has a later stamp, and without one the restart counter has not
  grown, whatever restarts, resets and changes of tenant took place (`Later`,
  `Known`). `DetectionTellsNewer` is the lemma that the comparison is then
  true exactly if FinishedAt is newer. The deaths of a container that is gone,
  and all but the last of one that is there, are not told.
* `OomIsToldTruly`, from `OomInv`: the flag of every container, inspect answer
  and event is the engine's record of that death, or was reset by a start.
* `DeathsAreHeardOnce`, from `NewsInv`: a death belongs to one address
  (`OwnDeaths`), an event is of an observed container, and a death that has
  been heard is spent (`Spent`): no baseline that an inspect of its container
  is still to be compared with lies before it. News under way counts like news
  heard: a death is in the cycle's events, left behind or heard, and in one of
  them once (`NewsLeft`, `NewsArrive`, `ReportsMove`). A crash drops the
  baselines, and with them whatever could have announced it again.
* `CpuFiguresWithinCapacity`, of two samples of one run of the host. `CpuInv`:
  since a sample was taken no more CPU time went to whatever has its name than
  passed on the host, unless that has rebooted (`Fits`, `FigureFits`).
* `StopAdmitsOneCycle`, for any number of stops, from `LateInv`, and
  `LockHeldInsideWait`, from `LockInv`: a `set()` that is between taking the
  lock and releasing it is the one that holds it.
* `ProcessRunsTheLoop`: every behaviour of `ProcessSpec` is one of the run
  loop's `Spec`, so what is proved of the loop holds in the process around it.
* `BlanksAreUnset`, from `EnvironInv` (the process has read one of the
  environments) and `BlankReadsAsUnset`, about the reading of a variable.
* `OneClientIsKept`, from `AloneInv`: without a race, what is open is in the
  slot, and a thread between its test and its store is alone there and found
  the slot empty.
* `RequestsAlwaysGoThrough`. `ClientInv` and, for each thread, `CallerInv`: a
  slot that holds a client holds an open one, with its credential if it is
  Portainer's; a thread past its test finds the slot filled, since others only
  replace what is in it and `close` waits until all are out; and the parent's
  own opening, which knows no credential, is never reached.
* `NotFoundWasAnswered`, `AnswersWereChecked`, `InvalidMeansInvalid`.
  `CallInv`: a call under way has recorded how its address stands now, and one
  that is at its second request has recorded its own container. What remains
  is about data: `ParseShape` (what parsing returns) and `AggregateIsOne` (a
  service or project that has a container in the list is described by exactly
  one resource).
* `UrisAreCanonical`, from two lemmas without a state in them: `WritingIsRead`
  (parsing what is built returns the address) and `ReadIsAddress` (what parses
  is in the hierarchy and is, as written, its address's writing, although
  `urlsplit` reads others alike).
* `ListedAreDescribable`, from `EngineInv` (names and IDs are unique among the
  engine's containers) and `NamingAssumption`: the label rules leave only
  addresses of the hierarchy (`LabelsAre`, `GivenIsAddress`), the name a
  container is listed under is its own or replaced by its short ID, and either
  leads to it alone (`NameLeadsToOne`).
* `AggregatesAreDescribable`: what describe asks of the list is the one
  resource the list was made into (`AggregateIs`), and different resources
  have different addresses (`UrisTellApart`), hence different writings.
* `CountsAreComplete`: the containers of the engine are listed once each
  (`ListedOnce`), the groups of a list are pairwise disjoint and cover it
  (`ProjectsAddUp`, `ServicesAddUp`), and sizes of parts that are apart sum to
  the size of what they join (`SumIsSize`).
* `LogsAreToldAsAsked` and `CutLogsAreDecoded`, both from `LogsInAnyChunks`, a
  theorem without a state in it that goes beyond the runs: they part a body in
  two, it holds of any number of chunks. `BodyIsCut`: however a body is
  parted, its first bytes up to the limit are kept, and it is called truncated
  if and only if there were more (`OneMoreChunk` is the step). `DecodedFrom`
  is the invariant of the decoding: from the beginning of a frame that the cut
  body still reaches, it finds no error, and if nothing was cut what it finds
  completes the entries before it to the whole log. It holds at the end
  (`DecodedAtEnd`), and before a frame if after it (`DecodedOnce`), since what
  is joined stays where it is (`PartInPlace`). The log is what the engine was
  asked for (`LastAreLogged`). That the decoding, a function defined by
  itself, is one at all is `FramesAreFound`.
* `AcknowledgedHolds`, `InventoriesAreWhole`, `DeliveryTypeCorrect`. `DInv`
  joins `CycleInv`, `RequestInv` (a request carries its cycle's inventory),
  `OneCurrent` (at most one request is the one waited for), `RaisedInv` (a
  publish still to be made has not raised) and `ViewInv`. `RequestInv` also
  says that a request on the network is of the publish under way or of one
  that raised, which is why a late one can only bring back a report that
  raised.
* `ContractIsKept`: the caps are tested before a request is made, and what of
  a container's details is kept for mirarun has neither a field it forbids nor
  a `None`, and its ports are cut; the requests and the receiver's inventory
  only carry such payloads.
* `RowsAreWithinHostTime`, from `RowsInv`: there is a ledger, a total that
  grows from cycle to cycle, such that what a cycle's figure tells fits into
  what the ledger has for that cycle (`Booked`), be the figure in hand, on the
  network or in a row; and the ledger's total, together with what the counters
  show since the baseline, has passed on the host (`Balanced`). A sum over
  rows is then no more than the total. Elapsed and busy time have a ledger
  each.
* `UtilizationAlwaysInRange`, from `HostInv`, whatever the counters do.
* `SpansAddUp`, `StatsAlwaysReadable`, from `CountInv`, for any sizes of queue
  and batch.
* `LogRecordIsPosted`, `DurationExcludesInspection`, from `ReportInv` and
  `PostsInv`: a script past a post has made it, and every post of one report
  carries the measurements taken before the first.

Sums, folds and recursive functions. The library's induction theorems take an
operator, which the provers here cannot instantiate. Induction is by a
smallest counterexample instead (`SmallestOf`, from `WFMin`): the set of the
numbers for which a claim fails has a smallest element unless it is empty. The
folds of the community modules and `FramesFrom` are defined by a function that
some equation describes; the proofs first show that there is one (`SumExists`,
`JoinsExists`, `ChunksAreTaken`, `FramesAreFound`), and then say of whichever
the definition chose what the equation makes of it.

Only model-checked: liveness (`ReliableViewsConverge`, `StopEndsLoop`,
`FailedCycleRetried`, `EmittersNeverWait`, `BuildNeverFails`), which rests on
fairness and is out of the prover's reach. Every invariant of the passing runs
is proved.

## Not modelled

* Of the report loop: the events a failed publish loses are not redelivered,
  and the loop states that it promises no complete event history, so no
  property asks for it. `RestartCount` is taken as always present. A container
  is created running. The 404 of an inspect is the engine's (see above). CPU
  figures across a reboot of the host are possible and unbounded.
* Of the driver: the sums made of a stats document (a block I/O total over a
  list that lacks an entry is a partial sum), the rendering of ports and
  networks, label values with a slash in them, and a container named like
  another's ID or short ID (`NamingAssumption`). Docker also answers for other
  unambiguous prefixes of an ID than the twelve characters the code makes.
  `client_factory` is a test seam. `close` during a call of another thread is
  left out: nothing in the code prevents it and nothing promises it.
* Of logs: which end the size limit keeps. A log asked for by its tail and cut
  by size keeps its head, so the newest lines are missing; the result says
  truncated, and the event's `log_tail` does not carry the flag.
* Of the process: intervals above `threading.TIMEOUT_MAX`, which `Event.wait`
  refuses.
* Of sinks: what mirarun's contract says of the least length of texts (see
  above). A process that dies in the middle of a publish is `Crash` of
  `DriverRunner`, not in `ReportDelivery`.
* Of host metrics: a reset sets the counters back by a jiffy. The gauges
  (load, memory, uptime, file systems) are reads that may fail; their parsing
  is not followed.
* Of sinks, telemetry and the build report: formats of payloads, names,
  attributes and headers.
* The package surface: re-exports and `__main__`.

## What is left

The arithmetic of stats documents, and a refinement from `DockerReads` to the
calls as `DriverRunner` sees them, which would tie the two models of the
engine together.
