----------------------------- MODULE MCTelemetry ----------------------------
(***************************************************************************)
(* The two programs that export telemetry, checked in one run.  They share *)
(* nothing, so a behaviour is one of the run's telemetry or one of the     *)
(* build report, and their steps are not interleaved.                      *)
(***************************************************************************)
EXTENDS Telemetry, BuildReport

Init == TelemetryInit /\ ReportInit

Next ==
    \/ script = "none" /\ TelemetryNext /\ UNCHANGED reportVars
    \/ TelemetryInit /\ ReportNext /\ UNCHANGED telemetryVars

Spec == Init /\ [][Next]_<<telemetryVars, reportVars>>
             /\ TelemetryFairness /\ ReportFairness

ShutdownSpec == Init /\ [][Next]_<<telemetryVars, reportVars>>
=============================================================================
