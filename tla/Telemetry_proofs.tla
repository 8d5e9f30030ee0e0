--------------------------- MODULE Telemetry_proofs --------------------------
(***************************************************************************)
(* Proofs that the export counters add up, for any number of threads and   *)
(* any sizes of the queue and of a batch, and that a build report tells    *)
(* the build's duration and ends with its log record, however long its     *)
(* inspection takes.                                                       *)
(***************************************************************************)
EXTENDS Telemetry, BuildReport, TLAPS

Counts == {queue, batch, ended, dropped, delivered, succeeded,
           stats.attempted_batches, stats.failed_batches, stats.failed_spans}

TypeInv ==
    /\ Counts \subseteq Nat
    /\ stats \in [attempted_batches : Nat, failed_batches : Nat, failed_spans : Nat]
    /\ exporting \in {"no", "sent", "failed"}

(* A batch is held exactly as long as its export lasts, and is within its  *)
(* size; a batch that is counted as failed has its spans still to come.    *)
ExportInv ==
    /\ exporting = "no" => batch = 0
    /\ batch <= BatchSize
    /\ stats.failed_spans + (IF exporting = "failed" THEN batch ELSE 0)
          <= stats.failed_batches * BatchSize

CountInv == TypeInv /\ ExportInv /\ SpansAccountedFor /\ StatsReadable

(* The step that multiplies: one batch more is at most BatchSize spans.    *)
LEMMA OneBatchMore ==
    ASSUME NEW n \in Nat, NEW size \in Nat
    PROVE  (n + 1) * size = n * size + size
  OBVIOUS

LEMMA CountInit == TelemetryInit => CountInv
  BY TelemetryAssumption
  DEF TelemetryInit, CountInv, TypeInv, Counts, ExportInv, SpansAccountedFor,
      StatsReadable

LEMMA CountStep == CountInv /\ [TelemetryNext]_telemetryVars => CountInv'
<1> SUFFICES ASSUME CountInv, [TelemetryNext]_telemetryVars PROVE CountInv'
  OBVIOUS
<1> USE TelemetryAssumption
    DEF CountInv, TypeInv, Counts, ExportInv, SpansAccountedFor, StatsReadable,
        exportVars, exitVars
<1>1. ASSUME NEW p \in Producers, OpenSpan(p) PROVE CountInv'
  BY <1>1 DEF OpenSpan
<1>2. ASSUME NEW p \in Producers, EndSpan(p) PROVE CountInv'
  BY <1>2 DEF EndSpan
<1>3. CASE BeginExport
  BY <1>3 DEF BeginExport
<1>4. CASE Succeeded
  BY <1>4 DEF Succeeded
<1>5. CASE Failed
  <2>1. (stats.failed_batches + 1) * BatchSize
            = stats.failed_batches * BatchSize + BatchSize
    BY OneBatchMore
  <2> QED BY <1>5, <2>1 DEF Failed
<1>6. CASE CountSpans
  BY <1>6 DEF CountSpans
<1>7. CASE Shutdown \/ Tick \/ Exit
  BY <1>7 DEF Shutdown, Tick, Exit, FlushReturns, ProviderStops
<1>8. CASE UNCHANGED telemetryVars
  BY <1>8 DEF telemetryVars
<1> QED BY <1>1, <1>2, <1>3, <1>4, <1>5, <1>6, <1>7, <1>8 DEF TelemetryNext

(* No span is lost between the queue and the counters (_CountingExporter   *)
(* counts what it does not deliver), whatever fails and whenever.          *)
THEOREM SpansAddUp == TelemetrySpec => []SpansAccountedFor
<1>1. CountInv => SpansAccountedFor
  BY DEF CountInv
<1> QED BY <1>1, CountInit, CountStep, PTL DEF TelemetrySpec

(* export_stats is consistent for a reader at any time (telemetry.py 42).  *)
THEOREM StatsAlwaysReadable == TelemetrySpec => []StatsReadable
<1>1. CountInv => StatsReadable
  BY DEF CountInv
<1> QED BY <1>1, CountInit, CountStep, PTL DEF TelemetrySpec

-----------------------------------------------------------------------------
(* The build report.                                                       *)

(* Past main's tests the inputs are there and the clock has been read; all *)
(* that is posted is what was measured by then.                            *)
PostsInv ==
    /\ script \in {"none", "main", "inspecting", "indexed", "inspected",
                   "measured"} => posts = {}
    /\ \A post \in posts : post[2] = Measurements

ReportInv ==
    /\ script = "main" => now = BuildTime
    /\ script \in {"inspecting", "indexed", "inspected", "measured", "reported"}
          => measured = BuildTime
    /\ duration \in {None, BuildTime}
    /\ layers \in {None, 0, 1, Unusable}
    /\ script = "reported" => layers # Unusable
    /\ PostsInv
    /\ script = "exited" /\ environ.endpoint = "http" /\ environ.required
       /\ layers # Unusable => <<"/v1/logs", Measurements>> \in posts

LEMMA ReportInvInit == ReportInit => ReportInv
BY DEF ReportInit, ReportInv, PostsInv

LEMMA ReportInvStep == ReportInv /\ [ReportNext]_reportVars => ReportInv'
<1> SUFFICES ASSUME ReportInv, [ReportNext]_reportVars PROVE ReportInv'
  OBVIOUS
<1> USE DEF ReportInv, PostsInv
<1>1. ASSUME NEW e \in Environ, Invoke(e) PROVE ReportInv'
  BY <1>1 DEF Invoke, Measurements
<1>2. CASE Skip \/ LacksInput \/ LacksSize
  BY <1>2 DEF Skip, LacksInput, LacksSize, Exits, Raises, Measurements
<1>3. CASE BeginInspection \/ CommandTakesTime \/ FollowIndex
  BY <1>3 DEF BeginInspection, CommandTakesTime, FollowIndex, Measurements
<1>4. ASSUME NEW found \in {None, 0, 1, Unusable}, Inspected(found) PROVE ReportInv'
  BY <1>4 DEF Inspected
<1>5. CASE Measure
  BY <1>5 DEF Measure
<1>6. CASE PostMetrics
  BY <1>6 DEF PostMetrics, Post, Measurements
<1>7. CASE PostLogs
  BY <1>7 DEF PostLogs, Post, Exits, Measurements
<1>8. CASE UNCHANGED reportVars
  BY <1>8 DEF reportVars, Measurements
<1> QED
  BY <1>1, <1>2, <1>3, <1>4, <1>5, <1>6, <1>7, <1>8 DEF ReportNext, Step

(* The log record is posted although the inspection, or the post of the    *)
(* metrics, failed (report_build_telemetry.py 273-300).                    *)
THEOREM LogRecordIsPosted == ReportSpec => []LogRecordPosted
<1>1. ReportInv => LogRecordPosted
  BY DEF ReportInv, LogRecordPosted, Measurements
<1> QED BY <1>1, ReportInvInit, ReportInvStep, PTL DEF ReportSpec

(* The inspection, however long, is no part of the duration reported       *)
(* (report_build_telemetry.py 246-260).                                    *)
THEOREM DurationExcludesInspection == ReportSpec => []DurationIsTheBuilds
<1>1. ReportInv => DurationIsTheBuilds
  BY DEF ReportInv, PostsInv, DurationIsTheBuilds, Measurements
<1> QED BY <1>1, ReportInvInit, ReportInvStep, PTL DEF ReportSpec
=============================================================================
