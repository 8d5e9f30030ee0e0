---------------------------- MODULE DriverProcess ---------------------------
(***************************************************************************)
(* The mira-driver process from its start to its exit status: main of      *)
(* src/miraasdk/driver/process.py around the loop and the stop signals of  *)
(* RunLoop.                                                                *)
(***************************************************************************)
EXTENDS RunLoop, ProcessConfig

CONSTANT Environments    \* the environments the process may be started in

(* The variables that from_environ looks up, set or not.                   *)
Looked == {"TARGET_REFERENCE", "INTERVAL_SECONDS", "POSTMORTEM_TAIL",
           "MIRARUN_REPORT_URL", "MIRARUN_REPORT_TOKEN", "ADMIN_COLLECTOR_URL",
           "ADMIN_COLLECTOR_TOKEN", "HOST_METRICS", "BACKEND",
           "DOCKER_ENDPOINT", "PORTAINER_URL", "PORTAINER_ENDPOINT_ID",
           "PORTAINER_API_KEY", "NODE_ID", "NODE_HOST", "NODE_ENV", "PROC_PATH",
           "DISK_PATHS"}

ASSUME EnvironmentsAssumption == \A e \in Environments : Looked \subseteq DOMAIN e

VARIABLES
    environ,    \* os.environ
    status      \* "starting", "running", or the exit status

processVars == <<vars, environ, status>>

ProcessInit ==
    /\ Init
    /\ environ \in Environments
    /\ status = "starting"

Refuse ==
    /\ status = "starting"
    /\ ~Accepted(Config(environ))
    /\ status' = "2"
    /\ UNCHANGED <<vars, environ>>

(* An exception that main does not catch ends the interpreter.             *)
BuildRaises ==
    /\ status = "starting"
    /\ Accepted(Config(environ)) /\ ~Builds(Config(environ))
    /\ status' = "1"
    /\ UNCHANGED <<vars, environ>>

Start ==
    /\ status = "starting"
    /\ Accepted(Config(environ)) /\ Builds(Config(environ))
    /\ status' = "running"
    /\ UNCHANGED <<vars, environ>>

Run ==
    /\ status = "running"
    /\ Next
    /\ UNCHANGED <<environ, status>>

Return ==
    /\ status = "running" /\ Over
    /\ status' = IF pc = "exited" THEN "0" ELSE "1"
    /\ UNCHANGED <<vars, environ>>

ProcessNext == Refuse \/ BuildRaises \/ Start \/ Run \/ Return

ProcessSpec ==
    /\ ProcessInit
    /\ [][ProcessNext]_processVars
    /\ WF_processVars(Start)
    /\ WF_processVars(status = "running" /\ LoopStep /\ UNCHANGED <<environ, status>>)
    /\ \A i \in Stops :
          /\ WF_processVars(status = "running" /\ SetStep(i)
                              /\ UNCHANGED <<environ, status>>)
          /\ SF_processVars(status = "running" /\ SetAcquire(i)
                              /\ UNCHANGED <<environ, status>>)

-----------------------------------------------------------------------------
(* Properties.                                                             *)

(* A blank variable is one that is not set ("an empty string is treated as *)
(* unset", docs/deployment.md 98-99): deploy/compose.yaml passes blanks.   *)
BlankMeansUnset ==
    status # "starting" =>
        Config(environ) =
            Config([v \in DOMAIN environ |->
                        IF Strip(environ[v]) = "" THEN None ELSE environ[v]])

(* "A misconfigured one exits with status 2 ... configuration errors fail  *)
(* at startup by design, not silently at the first push"                   *)
(* (docs/deployment.md 126-128).                                           *)
MisconfiguredExitsTwo ==
    ~Workable(Config(environ)) => status \in {"starting", "2"}
=============================================================================
