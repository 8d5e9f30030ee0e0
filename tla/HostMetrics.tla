----------------------------- MODULE HostMetrics ----------------------------
(***************************************************************************)
(* The host metrics of one collection, src/miraasdk/driver/metrics.py.     *)
(*                                                                         *)
(* A collection reads loadavg, stat twice, meminfo, uptime and every file  *)
(* system, one after the other, and any of these may fail.  CPU            *)
(* utilization is a rate, from the counters of the collection before:      *)
(* reading them moves the baseline, whatever comes of the rest.            *)
(***************************************************************************)
EXTENDS Integers

CONSTANTS
    MaxJiffies,   \* bound: jiffies the host lives
    MaxResets,    \* bound: reboots of the host, or swaps of proc_path
    None

ASSUME HostAssumption ==
    /\ MaxJiffies \in Nat /\ MaxResets \in Nat
    /\ None \notin [total : Int, idle : Int]

VARIABLES
    cpu,        \* the counters of /proc/stat: [busy, idle], idle with iowait
    previous,   \* _previous_cpu: [total, idle], or None
    reading,    \* where the collection is
    figure,     \* its utilization: [busy, elapsed], or None
    lived,      \* history: jiffies so far
    worked,     \* history: the busy ones among them
    resets      \* counters set back so far

hostVars == <<cpu, lived, worked, resets>>
collectorVars == <<previous, reading, figure>>

Zero == [busy |-> 0, idle |-> 0]

HostInit ==
    /\ cpu = Zero
    /\ lived = 0 /\ worked = 0 /\ resets = 0
    /\ previous = None
    /\ reading = "none"
    /\ figure = None

-----------------------------------------------------------------------------
(* The host, from one reading to the next: it works, it idles or waits for *)
(* its disks, the kernel's iowait counter, a part of idle, may decrease,   *)
(* and a reboot sets the counters back.                                    *)

HostLives ==
    \E busy, idle \in 0 .. MaxJiffies, back \in {0, 1}, from \in {cpu, Zero} :
        /\ lived + busy + idle <= MaxJiffies
        /\ lived' = lived + busy + idle
        /\ worked' = worked + busy
        /\ resets' = IF from = cpu THEN resets ELSE resets + 1
        /\ resets' <= MaxResets
        /\ back <= from.idle + idle
        /\ cpu' = [busy |-> from.busy + busy, idle |-> from.idle + idle - back]

-----------------------------------------------------------------------------
(* The collector.                                                          *)

(* A bug: only the total is checked.                                       *)
Utilization_TotalOnly(old, new) ==
    IF old = None \/ new.total - old.total <= 0 THEN None
    ELSE [busy    |-> (new.total - old.total) - (new.idle - old.idle),
          elapsed |-> new.total - old.total]

(* Since the baseline; counters that went backwards give none.             *)
Utilization(old, new) ==
    IF old = None THEN None
    ELSE LET total == new.total - old.total
             idle  == new.idle - old.idle
         IN  IF total <= 0 \/ idle < 0 \/ idle > total THEN None
             ELSE [busy |-> total - idle, elapsed |-> total]

BeginCollect ==
    /\ reading' = "cpu"
    /\ figure' = None
    /\ UNCHANGED previous

Counters == [total |-> cpu.busy + cpu.idle, idle |-> cpu.idle]

(* A bug: the first baseline is kept.                                      *)
ReadCpu_KeepsBaseline ==
    /\ reading = "cpu"
    /\ reading' = "rest"
    /\ figure' = Utilization(previous, Counters)
    /\ previous' = IF previous = None THEN Counters ELSE previous

(* loadavg, the CPUs listed in stat, and stat's counters.                  *)
ReadCpu ==
    /\ reading = "cpu"
    /\ reading' = "rest"
    /\ figure' = Utilization(previous, Counters)
    /\ previous' = Counters

(* meminfo, uptime and the file systems.                                   *)
ReadRest ==
    /\ reading = "rest"
    /\ reading' = "collected"
    /\ UNCHANGED <<previous, figure>>

(* HostMetricsUnavailable: what was read so far is lost, but the baseline  *)
(* stays where it is.                                                      *)
CollectFails ==
    /\ reading \in {"cpu", "rest"}
    /\ reading' = "collected"
    /\ figure' = None
    /\ UNCHANGED previous

CollectStep == ReadCpu \/ ReadRest \/ CollectFails

-----------------------------------------------------------------------------
(* A utilization lies between none and all of the host, although counters  *)
(* are set back, iowait decreases and collections fail between two reads.  *)
UtilizationInRange ==
    figure # None => 0 <= figure.busy /\ figure.busy <= figure.elapsed
                       /\ 0 < figure.elapsed
=============================================================================
