--------------------------- MODULE ReportDelivery ---------------------------
(***************************************************************************)
(* From a cycle's observations to what its receivers hold: the host        *)
(* metrics of the snapshot, MirarunReportSink and AdminCollectorSink of    *)
(* src/miraasdk/driver/sinks.py, the requests on their way and the         *)
(* receivers.                                                              *)
(*                                                                         *)
(* A publish makes one request and waits for its answer up to a timeout.   *)
(* A request that timed out, or whose answer was lost, may still be        *)
(* applied, after requests of later cycles even: nothing in mirarun's      *)
(* payload orders them.                                                    *)
(***************************************************************************)
EXTENDS HostMetrics, FiniteSets, FiniteSetsExt, Functions

CONSTANTS
    Inventories,    \* per cycle, the inventories it may observe: sets of
                    \* container details
    MaxResources,   \* _MAX_REPORT_RESOURCES
    MaxBodyBytes,   \* _MAX_REPORT_BODY_BYTES
    MaxPortChars,   \* _MAX_REPORTED_PORT_CHARS
    MaxCycles       \* bound: cycles

(* A container's details are a function of its fields; "ports" is the      *)
(* length of its longest port string and "bytes" the size of the others in *)
(* a body.                                                                 *)
ReportFields == {"uri", "name", "project", "ports", "networks", "service",
                 "state", "image", "created_at", "health", "restart_count",
                 "bytes"}
Texts == {"service", "state", "image", "created_at", "health"}
Optional == Texts \cup {"restart_count"}

ASSUME DeliveryAssumption ==
    /\ {MaxResources, MaxBodyBytes, MaxPortChars, MaxCycles} \subseteq Nat
    /\ \A n \in 1 .. MaxCycles : \A i \in Inventories[n] :
          \A d \in i : ReportFields \subseteq DOMAIN d
    /\ \A n \in 1 .. MaxCycles :
          None \notin [cycle : Nat, inventory : Inventories[n]]

(* The fields that are not optional are there, and sizes are counted.  A   *)
(* text may be empty: _bounded_optional (docker.py 607-612) has no least   *)
(* length.                                                                 *)
ASSUME DetailsAssumption ==
    /\ None \notin Nat
    /\ \A n \in 1 .. MaxCycles : \A i \in Inventories[n] :
          /\ IsFiniteSet(i)
          /\ \A d \in i : /\ {d["ports"], d["bytes"]} \subseteq Nat
                          /\ \A f \in ReportFields \ Optional : d[f] # None

VARIABLES
    cycle,       \* the snapshot's collected_at
    stage,       \* "idle", "host", or the sink whose publish is under way
    inventory,   \* the snapshot's containers
    waiting,     \* the publish has sent its request
    requests,    \* the requests on their way; some never arrive
    view,        \* per receiver: the report it holds, or None
    rows,        \* admin's CPU utilization rows: per collected_at, or None
    acked,       \* per sink: the last cycle whose publish returned
    raised,      \* history, per sink: the cycles whose publish raised
    observed     \* history: per cycle, the inventory it observed

deliveryVars == <<cycle, stage, inventory, waiting, requests, view, rows,
                  acked, raised, observed>>
vars == <<hostVars, collectorVars, deliveryVars>>

Cycles == 1 .. MaxCycles
Sinks  == {"mirarun", "admin"}

Init ==
    /\ HostInit
    /\ cycle = 0 /\ stage = "idle" /\ inventory = {}
    /\ waiting = FALSE
    /\ requests = {}
    /\ view = [s \in Sinks |-> None]
    /\ rows = [n \in Cycles |-> None]
    /\ acked = [s \in Sinks |-> 0]
    /\ raised = [s \in Sinks |-> {}]
    /\ observed = [n \in Cycles |-> {}]

-----------------------------------------------------------------------------
(* What the sinks send.                                                    *)

(* A bug: ports go out as the driver renders them.                         *)
ReportedResource_WholePorts(d) ==
    Restrict(d, {f \in ReportFields : f \in Optional => d[f] # None})

ReportedPorts(d) == IF d["ports"] > MaxPortChars THEN MaxPortChars ELSE d["ports"]

(* _reported_resource: the fields mirarun takes, without those that are    *)
(* None, and with ports no longer than it takes.  An empty text stays.     *)
ReportedResource(d) ==
    [f \in {g \in ReportFields : g \in Optional => d[g] # None} |->
        IF f = "ports" THEN ReportedPorts(d) ELSE d[f]]

(* What surrounds the resources of a body.                                 *)
EnvelopeBytes == 1

BodyBytes(i) ==
    EnvelopeBytes + MapThenSumSet(LAMBDA d : d["bytes"] + ReportedPorts(d), i)

Oversized(i) == Cardinality(i) > MaxResources \/ BodyBytes(i) > MaxBodyBytes

Request(s) ==
    [to |-> s, cycle |-> cycle, inventory |-> inventory,
     resources |-> {ReportedResource(d) : d \in inventory},
     row |-> IF s = "admin" THEN figure ELSE None]

-----------------------------------------------------------------------------
(* A cycle: containers, host metrics, then mirarun and admin in turn.      *)

BeginCycle ==
    /\ stage = "idle" /\ cycle < MaxCycles
    /\ cycle' = cycle + 1
    /\ stage' = "host"
    /\ \E i \in Inventories[cycle + 1] :
          /\ inventory' = i
          /\ observed' = [observed EXCEPT ![cycle + 1] = i]
    /\ HostLives
    /\ BeginCollect
    /\ UNCHANGED <<waiting, requests, view, rows, acked, raised>>

Collect ==
    /\ stage = "host"
    /\ CollectStep
    /\ stage' = IF reading' = "collected" THEN "mirarun" ELSE "host"
    /\ UNCHANGED <<hostVars, cycle, inventory, waiting, requests, view, rows,
                   acked, raised, observed>>

AfterSink(s) == IF s = "mirarun" THEN "admin" ELSE "idle"

(* A bug: an answer does not end the wait.                                 *)
Return_StillWaits(s) ==
    /\ stage' = AfterSink(s)
    /\ acked' = [acked EXCEPT ![s] = cycle]
    /\ UNCHANGED <<waiting, raised>>

(* publish returns, or raises what run_once logs.                          *)
Return(s) ==
    /\ stage' = AfterSink(s) /\ waiting' = FALSE
    /\ acked' = [acked EXCEPT ![s] = cycle]
    /\ UNCHANGED raised

Raise(s) ==
    /\ stage' = AfterSink(s) /\ waiting' = FALSE
    /\ raised' = [raised EXCEPT ![s] = @ \cup {cycle}]
    /\ UNCHANGED acked

(* A bug: what exceeds the cap is left out.                                *)
RefuseOversized_Truncates(s) ==
    /\ stage = s /\ ~waiting
    /\ s = "mirarun" /\ Oversized(inventory)
    /\ waiting' = TRUE
    /\ \E i \in SUBSET inventory :
          /\ ~Oversized(i)
          /\ requests' = requests \cup
                {[Request(s) EXCEPT !.inventory = i, !.resources = i]}
    /\ UNCHANGED <<hostVars, collectorVars, cycle, stage, inventory, view, rows,
                   acked, raised, observed>>

(* Above mirarun's caps nothing is sent.                                   *)
RefuseOversized(s) ==
    /\ stage = s /\ ~waiting
    /\ s = "mirarun" /\ Oversized(inventory)
    /\ Raise(s)
    /\ UNCHANGED <<hostVars, collectorVars, cycle, inventory, requests, view,
                   rows, observed>>

Send(s) ==
    /\ stage = s /\ ~waiting
    /\ s = "mirarun" => ~Oversized(inventory)
    /\ waiting' = TRUE
    /\ requests' = requests \cup {Request(s)}
    /\ UNCHANGED <<hostVars, collectorVars, cycle, stage, inventory, view, rows,
                   acked, raised, observed>>

Current(r) == waiting /\ stage = r.to /\ cycle = r.cycle

(* The receiver replaces its inventory; admin adds the metric rows.        *)
Deliver(r) ==
    /\ r \in requests
    /\ requests' = requests \ {r}
    /\ view' = [view EXCEPT ![r.to] = [cycle |-> r.cycle, inventory |-> r.inventory]]
    /\ rows' = IF r.to = "admin" THEN [rows EXCEPT ![r.cycle] = r.row] ELSE rows

(* Answered with 204, or any 2xx from admin, in time.                      *)
Apply(r) ==
    /\ Deliver(r)
    /\ Current(r)
    /\ Return(r.to)
    /\ UNCHANGED <<hostVars, collectorVars, cycle, inventory, observed>>

(* Answered too late, or for a publish that has given up; or the answer is *)
(* lost, and the publish is still waiting.                                 *)
ApplyUnheard(r) ==
    /\ Deliver(r)
    /\ UNCHANGED <<hostVars, collectorVars, cycle, stage, inventory, waiting,
                   acked, raised, observed>>

(* Another status: refused.                                                *)
Reject(r) ==
    /\ r \in requests
    /\ Current(r)
    /\ requests' = requests \ {r}
    /\ Raise(r.to)
    /\ UNCHANGED <<hostVars, collectorVars, cycle, inventory, view, rows, observed>>

(* A bug: a timeout is taken for success.                                  *)
TimeOut_Returns(s) ==
    /\ stage = s /\ waiting
    /\ Return(s)
    /\ UNCHANGED <<hostVars, collectorVars, cycle, inventory, requests, view,
                   rows, observed>>

(* httpx.RequestError, the timeout above all.                              *)
TimeOut(s) ==
    /\ stage = s /\ waiting
    /\ Raise(s)
    /\ UNCHANGED <<hostVars, collectorVars, cycle, inventory, requests, view,
                   rows, observed>>

Next ==
    \/ BeginCycle \/ Collect
    \/ \E s \in Sinks : RefuseOversized(s) \/ Send(s) \/ TimeOut(s)
    \/ \E r \in requests : Apply(r) \/ ApplyUnheard(r) \/ Reject(r)

Spec == Init /\ [][Next]_vars

-----------------------------------------------------------------------------
(* One publish at a time waits for an answer, and nothing on the network   *)
(* is of a cycle that has not begun (runner.py 122-131, sinks.py 74-86).   *)
DeliveryTypeOK ==
    /\ cycle \in 0 .. MaxCycles
    /\ stage \in {"idle", "host"} \cup Sinks
    /\ waiting => stage \in Sinks
    /\ \A r \in requests : r.to \in Sinks /\ r.cycle \in 1 .. cycle
    /\ reading = "none" <=> cycle = 0

(* A receiver deletes on absence: it never comes to hold anything but the  *)
(* whole inventory of one cycle, caps included (sinks.py 34-36).           *)
WholeInventories ==
    \A s \in Sinks :
        view[s] # None => view[s].inventory = observed[view[s].cycle]

(* A publish that returned was applied, and what was acknowledged is only  *)
(* ever undone by an earlier report whose publish raised: the runner can   *)
(* tell from its log that a receiver may be behind.                        *)
AcknowledgedUnlessRaised ==
    \A s \in Sinks :
        acked[s] > 0 =>
            /\ view[s] # None
            /\ view[s].cycle >= acked[s] \/ view[s].cycle \in raised[s]

(* What is sent to mirarun is what its contract takes, as sinks.py 34-39   *)
(* and base.py 46-50 tell it: within the caps, known fields only, no null, *)
(* no port string too long; anything else would be rejected every cycle.   *)
(* Not that its texts have "min_length=1" (sinks.py 8-9): a text that is   *)
(* empty and not None is sent.                                             *)
WithinContract ==
    \A r \in requests :
        r.to = "mirarun" =>
            /\ Cardinality(r.resources) <= MaxResources
            /\ BodyBytes(r.inventory) <= MaxBodyBytes
            /\ \A d \in r.resources :
                  /\ DOMAIN d \subseteq ReportFields
                  /\ \A f \in DOMAIN d : d[f] # None
                  /\ d["ports"] <= MaxPortChars

(* Admin's CPU rows never tell of more time, or of more work, than there   *)
(* was, whatever collections failed, reports were lost or came late, and   *)
(* counters were set back.                                                 *)
RowsWithinHostTime ==
    LET told == {n \in Cycles : rows[n] # None}
    IN  /\ MapThenSumSet(LAMBDA n : rows[n].elapsed, told) <= lived
        /\ MapThenSumSet(LAMBDA n : rows[n].busy, told) <= worked
=============================================================================
