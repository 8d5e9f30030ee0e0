----------------------------- MODULE BuildReport ----------------------------
(***************************************************************************)
(* The report of one image build, scripts/report_build_telemetry.py: a     *)
(* step of a CI job inspects the image built before it and posts metrics   *)
(* and one log record.  Whatever fails on the way is to cost the report a  *)
(* part, never the build its success.                                      *)
(*                                                                         *)
(* Docker, the registry and the receiver are external: each call answers   *)
(* well, answers with something unusable, or fails, and takes time.        *)
(***************************************************************************)
EXTENDS Integers

CONSTANTS
    BuildTime,   \* ticks the build took
    MaxLatency,  \* bound: ticks the inspection takes
    Unusable,    \* a Size that is no number
    None

ASSUME ReportAssumption == Unusable \notin {None, 0, 1}

VARIABLES
    environ,   \* the step's environment
    script,    \* where main is
    now,       \* the clock, since the build started
    measured,  \* build_completed_at
    layers,    \* what inspect_image returned
    duration,  \* the measured duration, or None
    posts,     \* the paths posted to, with what they carried
    status     \* the exit status, or None

reportVars == <<environ, script, now, measured, layers, duration, posts, status>>

(* Set to a good value, set to a bad one, or not set.  The schemes of the  *)
(* endpoint are http or not; a started_at is a number or not.              *)
Environ == [endpoint : {"http", "other", "unset"}, digest : {"set", "unset"},
            required : BOOLEAN, started_at : {"number", "text", "unset"}]

ReportInit ==
    /\ environ = None /\ script = "none"
    /\ now = 0 /\ measured = None /\ layers = None /\ duration = None
    /\ posts = {} /\ status = None

(* The job reaches its step.                                               *)
Invoke(e) ==
    /\ script = "none"
    /\ environ' = e
    /\ now' = BuildTime
    /\ script' = "main"
    /\ UNCHANGED <<measured, layers, duration, posts, status>>

Exits(code) ==
    /\ status' = code
    /\ script' = "exited"

(* A bug: nothing around main.                                             *)
Raises_Uncaught == Exits(1)

(* An exception of main reaches the last handler.                          *)
Raises == Exits(0)

Skip ==
    /\ script = "main" /\ environ.endpoint = "unset"
    /\ Exits(0)
    /\ UNCHANGED <<environ, now, measured, layers, duration, posts>>

(* os.environ[...]: KeyError without IMAGE_REF, REPO or GIT_SHA.           *)
LacksInput ==
    /\ script = "main" /\ environ.endpoint # "unset" /\ ~environ.required
    /\ Raises
    /\ UNCHANGED <<environ, now, measured, layers, duration, posts>>

(* A bug: the clock is read after the inspection.                          *)
BeginInspection_Unmeasured ==
    /\ script = "main" /\ environ.endpoint # "unset" /\ environ.required
    /\ script' = "inspecting"
    /\ measured' = BuildTime + MaxLatency
    /\ UNCHANGED <<environ, now, layers, duration, posts, status>>

BeginInspection ==
    /\ script = "main" /\ environ.endpoint # "unset" /\ environ.required
    /\ script' = "inspecting"
    /\ measured' = now
    /\ UNCHANGED <<environ, now, layers, duration, posts, status>>

(* A command takes its time, at most its timeout.                          *)
CommandTakesTime ==
    /\ script \in {"inspecting", "indexed"}
    /\ now < BuildTime + MaxLatency
    /\ now' = now + 1
    /\ UNCHANGED <<environ, script, measured, layers, duration, posts, status>>

(* The digest is an index's: the first manifest it lists is read instead.  *)
FollowIndex ==
    /\ script = "inspecting" /\ environ.digest = "set"
    /\ script' = "indexed"
    /\ UNCHANGED <<environ, now, measured, layers, duration, posts, status>>

(* The manifest lists layers, or none if it is an index again; a command   *)
(* or its output may fail, which leaves the report without size and count. *)
(* A local image's Size is passed on as it is, whatever it is.             *)
Inspected(found) ==
    /\ script \in {"inspecting", "indexed"}
    /\ found = Unusable => environ.digest = "unset"
    /\ layers' = found
    /\ script' = "inspected"
    /\ UNCHANGED <<environ, now, measured, duration, posts, status>>

Measure ==
    /\ script = "inspected"
    /\ duration' = IF environ.started_at = "number" THEN measured ELSE None
    /\ script' = "measured"
    /\ UNCHANGED <<environ, now, measured, layers, posts, status>>

(* int() of it fails before anything is posted.                            *)
LacksSize ==
    /\ script = "measured" /\ layers = Unusable
    /\ Raises
    /\ UNCHANGED <<environ, now, measured, layers, duration, posts>>

Measurements == [duration |-> duration, layers |-> layers]

Empty == [duration |-> None, layers |-> None]

(* A post raises on a scheme it does not know, before it connects.         *)
Post(path) ==
    posts' = IF environ.endpoint = "http"
             THEN posts \union {<<path, Measurements>>} ELSE posts

(* A bug: a failed post of metrics ends the report.                        *)
PostMetrics_Raising ==
    /\ script = "measured" /\ layers # Unusable
    /\ IF Measurements = Empty THEN UNCHANGED posts ELSE Post("/v1/metrics")
    /\ \/ script' = "reported" /\ UNCHANGED status
       \/ Measurements # Empty /\ Raises
    /\ UNCHANGED <<environ, now, measured, layers, duration>>

(* Answered with any status or not at all, the report goes on.             *)
PostMetrics ==
    /\ script = "measured" /\ layers # Unusable
    /\ IF Measurements = Empty THEN UNCHANGED posts ELSE Post("/v1/metrics")
    /\ script' = "reported"
    /\ UNCHANGED <<environ, now, measured, layers, duration, status>>

PostLogs ==
    /\ script = "reported"
    /\ Post("/v1/logs")
    /\ Exits(0)
    /\ UNCHANGED <<environ, now, measured, layers, duration>>

Step ==
    \/ Skip \/ LacksInput \/ BeginInspection \/ FollowIndex
    \/ \E found \in {None, 0, 1, Unusable} : Inspected(found)
    \/ Measure \/ LacksSize \/ PostMetrics \/ PostLogs

ReportNext == CommandTakesTime \/ Step \/ \E e \in Environ : Invoke(e)

(* The commands have a timeout of 30 s and a connection one of 10 s.       *)
ReportFairness == WF_reportVars(Step)

ReportSpec == ReportInit /\ [][ReportNext]_reportVars /\ ReportFairness

-----------------------------------------------------------------------------
(* The docstring's "Never raises and never exits non-zero": the step comes *)
(* to its end, with status 0, whatever fails.                              *)
BuildNeverFails == script # "none" ~> script = "exited" /\ status = 0

(* A report that could start is heard of: the log record is posted even if *)
(* the image could not be inspected, nothing was measured or the metrics   *)
(* were not accepted.  Only a Size that is no number costs the report.     *)
LogRecordPosted ==
    script = "exited" /\ environ.endpoint = "http" /\ environ.required
    /\ layers # Unusable =>
        \E m \in [duration : {None, BuildTime}, layers : {None, 0, 1}] :
            <<"/v1/logs", m>> \in posts

(* The duration is the build's, however long the inspection took, and both *)
(* posts of a report tell the same measurements.                           *)
DurationIsTheBuilds ==
    \A post, other \in posts :
        /\ post[2].duration \in {None, BuildTime}
        /\ post[2] = other[2]
=============================================================================
