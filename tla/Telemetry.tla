------------------------------ MODULE Telemetry -----------------------------
(***************************************************************************)
(* The span export of one Mira run, src/miraasdk/telemetry.py: threads end *)
(* spans into a bounded queue, a background thread exports it in batches   *)
(* through _CountingExporter, and shutdown flushes the queue at exit.      *)
(*                                                                         *)
(* The queue, its thread and TracerProvider are OpenTelemetry's, modelled  *)
(* from what telemetry.py and its tests say of them.  The backend answers, *)
(* fails, raises, or never answers.                                        *)
(***************************************************************************)
EXTENDS Integers

CONSTANTS
    Producers,   \* the threads that open spans
    QueueSize,   \* max_queue_size
    BatchSize,   \* max_export_batch_size
    Timeout,     \* timeout_millis of shutdown, in ticks
    Default,     \* what TracerProvider.shutdown waits at most, in ticks
    MaxSpans     \* bound: spans ended

ASSUME TelemetryAssumption ==
    /\ QueueSize \in Nat \ {0} /\ BatchSize \in 1 .. QueueSize
    /\ {Timeout, Default, MaxSpans} \subseteq Nat

VARIABLES
    open,        \* the producers inside a span
    queue,       \* how many ended spans wait
    batch,       \* how many are being exported
    exporting,   \* where _CountingExporter.export is
    stats,       \* ExportStats
    timed,       \* whether the SDK's force_flush keeps to timeout_millis
    exit,        \* where shutdown is
    waited,      \* ticks it has waited for exports
    ended,       \* history: spans ended
    dropped,     \* history: those the queue did not keep
    delivered,   \* history: those the backend acknowledged
    succeeded    \* history: its batches

exportVars == <<batch, exporting, stats, delivered, succeeded>>
exitVars == <<timed, exit, waited>>
telemetryVars == <<open, queue, ended, dropped, exportVars, exitVars>>

TelemetryInit ==
    /\ open = {} /\ queue = 0 /\ batch = 0
    /\ exporting = "no"
    /\ stats = [attempted_batches |-> 0, failed_batches |-> 0, failed_spans |-> 0]
    /\ timed \in BOOLEAN /\ exit = "running" /\ waited = 0
    /\ ended = 0 /\ dropped = 0 /\ delivered = 0 /\ succeeded = 0

-----------------------------------------------------------------------------
(* The threads of the run.                                                 *)

Running == exit # "exited"

OpenSpan(p) ==
    /\ Running
    /\ p \notin open
    /\ ended < MaxSpans
    /\ open' = open \union {p}
    /\ UNCHANGED <<queue, ended, dropped, exportVars, exitVars>>

(* A bug: a SimpleSpanProcessor, which exports inline.                     *)
EndSpan_Inline(p) ==
    /\ Running
    /\ p \in open
    /\ exporting = "no"
    /\ open' = open \ {p}
    /\ ended' = ended + 1
    /\ queue' = queue + 1
    /\ UNCHANGED <<dropped, exportVars, exitVars>>

(* The block returned or raised; either way its span goes to the queue.    *)
(* A full queue loses one, and a provider that is shut down keeps none.    *)
EndSpan(p) ==
    /\ Running
    /\ p \in open
    /\ open' = open \ {p}
    /\ ended' = ended + 1
    /\ IF exit = "stopping" \/ queue = QueueSize
       THEN dropped' = dropped + 1 /\ UNCHANGED queue
       ELSE queue' = queue + 1 /\ UNCHANGED dropped
    /\ UNCHANGED <<exportVars, exitVars>>

-----------------------------------------------------------------------------
(* The export thread.                                                      *)

(* A bug: batches are counted once the delegate has answered.              *)
BeginExport_Uncounted ==
    /\ Running /\ exporting = "no" /\ queue > 0
    /\ batch' = IF queue < BatchSize THEN queue ELSE BatchSize
    /\ queue' = queue - batch'
    /\ exporting' = "sent"
    /\ UNCHANGED <<open, ended, dropped, stats, delivered, succeeded, exitVars>>

(* On a timer, on a full batch or for a flush.                             *)
BeginExport ==
    /\ Running /\ exporting = "no" /\ queue > 0
    /\ batch' = IF queue < BatchSize THEN queue ELSE BatchSize
    /\ queue' = queue - batch'
    /\ stats' = [stats EXCEPT !.attempted_batches = @ + 1]
    /\ exporting' = "sent"
    /\ UNCHANGED <<open, ended, dropped, delivered, succeeded, exitVars>>

Succeeded ==
    /\ Running /\ exporting = "sent"
    /\ delivered' = delivered + batch
    /\ succeeded' = succeeded + 1
    /\ batch' = 0
    /\ exporting' = "no"
    /\ UNCHANGED <<open, queue, ended, dropped, stats, exitVars>>

(* A bug: an exception goes through to the thread, which drops the batch.  *)
Failed_Uncaught ==
    /\ Running /\ exporting = "sent"
    /\ \/ /\ stats' = [stats EXCEPT !.failed_batches = @ + 1]
          /\ exporting' = "failed"
          /\ UNCHANGED batch
       \/ /\ batch' = 0
          /\ exporting' = "no"
          /\ UNCHANGED stats
    /\ UNCHANGED <<open, queue, ended, dropped, delivered, succeeded, exitVars>>

(* FAILURE, or an exception, which is caught and counts as one.            *)
Failed ==
    /\ Running /\ exporting = "sent"
    /\ stats' = [stats EXCEPT !.failed_batches = @ + 1]
    /\ exporting' = "failed"
    /\ UNCHANGED <<open, queue, batch, ended, dropped, delivered, succeeded, exitVars>>

(* A reader of export_stats may come in between.                           *)
CountSpans ==
    /\ Running /\ exporting = "failed"
    /\ stats' = [stats EXCEPT !.failed_spans = @ + batch]
    /\ batch' = 0
    /\ exporting' = "no"
    /\ UNCHANGED <<open, queue, ended, dropped, delivered, succeeded, exitVars>>

-----------------------------------------------------------------------------
(* shutdown: force_flush(timeout_millis), then TracerProvider.shutdown.    *)
(* Its docstring has force_flush return after timeout_millis; its test has *)
(* it drain the queue "via export() on its own fixed                       *)
(* export_timeout_millis, independent of this value"                       *)
(* (tests/test_telemetry.py 109-112).  An SDK does one or the other.       *)

Drained == queue = 0 /\ exporting = "no"

Shutdown ==
    /\ exit = "running"
    /\ exit' = "flushing"
    /\ UNCHANGED <<open, queue, ended, dropped, exportVars, timed, waited>>

(* Time passes in shutdown while the backend keeps a batch waiting: the    *)
(* thread takes the next one at once, so only export() takes time.         *)
Patience == IF exit = "flushing" /\ timed THEN Timeout ELSE Timeout + Default

Tick ==
    /\ exit \in {"flushing", "stopping"}
    /\ exporting = "sent" /\ waited < Patience
    /\ waited' = waited + 1
    /\ UNCHANGED <<open, queue, ended, dropped, exportVars, timed, exit>>

FlushReturns ==
    /\ exit = "flushing"
    /\ Drained \/ (timed /\ waited = Timeout)
    /\ exit' = "stopping"
    /\ UNCHANGED <<open, queue, ended, dropped, exportVars, timed, waited>>

(* The provider takes no spans any more, and waits for its thread.         *)
ProviderStops ==
    /\ exit = "stopping"
    /\ Drained \/ waited = Timeout + Default
    /\ exit' = "exited"
    /\ UNCHANGED <<open, queue, ended, dropped, exportVars, timed, waited>>

Exit == FlushReturns \/ ProviderStops

TelemetryNext ==
    \/ \E p \in Producers : OpenSpan(p) \/ EndSpan(p)
    \/ BeginExport \/ Succeeded \/ Failed \/ CountSpans
    \/ Shutdown \/ Tick \/ Exit

(* The threads of the run are scheduled.  Nothing is assumed of the export *)
(* thread, whose delegate may never return, nor of shutdown.               *)
TelemetryFairness == \A p \in Producers : WF_telemetryVars(EndSpan(p))

TelemetrySpec ==
    TelemetryInit /\ [][TelemetryNext]_telemetryVars /\ TelemetryFairness

-----------------------------------------------------------------------------
(* Every span that ended is queued, being exported, delivered, counted as  *)
(* failed, or was dropped by the queue: none gets lost in the exporter.    *)
SpansAccountedFor ==
    ended = queue + batch + delivered + stats.failed_spans + dropped

(* export_stats reads alike at any time, in the middle of an export too:   *)
(* the batches it counts are those that succeeded, those that failed and   *)
(* the one under way, and it never counts failed spans ahead of a batch.   *)
StatsReadable ==
    LET pending == IF exporting = "sent" THEN 1 ELSE 0
    IN  /\ stats.attempted_batches = succeeded + stats.failed_batches + pending
        /\ stats.failed_spans <= stats.failed_batches * BatchSize

(* A thread leaves its span although the backend never answers.            *)
EmittersNeverWait ==
    \A p \in Producers : p \in open ~> p \notin open \/ exit = "exited"

(* shutdown's docstring: "the bound this method actually promises comes    *)
(* from calling force_flush(timeout_millis) first, so a hung/unreachable   *)
(* endpoint delays exit by at most that long, not OTel's default"          *)
(* (telemetry.py 163-169).  It does not even where force_flush keeps to    *)
(* its timeout.                                                            *)
ExitWithinTimeout == timed => waited <= Timeout
=============================================================================
