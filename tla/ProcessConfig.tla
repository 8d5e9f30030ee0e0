---------------------------- MODULE ProcessConfig ---------------------------
(***************************************************************************)
(* What mira-driver makes of its environment: DriverProcessConfig and      *)
(* build_runner of src/miraasdk/driver/process.py.                         *)
(*                                                                         *)
(* An environment is a function from the variables' names to tokens, "" an *)
(* empty value and None a variable that is not set.  Which tokens are      *)
(* numbers, references or URLs, and what strip() and lower() make of them, *)
(* is given by constants.                                                  *)
(***************************************************************************)
EXTENDS Integers, FiniteSets, Functions

CONSTANTS
    Numbers,      \* function: the tokens that are finite numbers, and which
    Stripped,     \* function: tokens with white space around to those without
    Lowered,      \* function: tokens not in lower case to the same lowered
    References,   \* the tokens valid_target_reference takes
    HttpUrls,     \* the tokens that begin with http:// or https://
    DiskPaths,    \* function: DISK_PATHS tokens to the pairs they list, each
                  \* <<reported, probed>> with "" for an empty half
    Hostname,     \* socket.gethostname()
    None

ASSUME ConfigAssumption ==
    /\ \A t \in DOMAIN Numbers : Numbers[t] \in Int
    /\ None \notin DOMAIN Stripped

UnixSocket == "unix:///var/run/docker.sock"

Strip(token) == IF token \in DOMAIN Stripped THEN Stripped[token] ELSE token

(* A bug: a blank value is a value.                                        *)
Get_BlankIsSet(environ, name, default) ==
    IF environ[name] = None THEN default ELSE Strip(environ[name])

Get(environ, name, default) ==
    IF Strip(environ[name]) \in {None, ""} THEN default
    ELSE Strip(environ[name])

Lower(token) == IF token \in DOMAIN Lowered THEN Lowered[token] ELSE token

(* _positive_float, which refuses nan and inf, and the minimum.            *)
IntervalFits(token) == token \in DOMAIN Numbers /\ Numbers[token] >= 5

TailFits(token) == token \in DOMAIN Numbers /\ Numbers[token] \in 1 .. 1000

Paired(url, token) == (url = None) <=> (token = None)

DisksFit(pairs) == \A p \in pairs : p[1] # "" /\ p[2] # ""

Config(environ) ==
    LET Read(name, default) == Get(environ, name, default)
        disks == Read("DISK_PATHS", "/=/")
    IN  [target_reference      |-> Read("TARGET_REFERENCE", None),
         interval              |-> Read("INTERVAL_SECONDS", "60"),
         tail                  |-> Read("POSTMORTEM_TAIL", "50"),
         mirarun_report_url    |-> Read("MIRARUN_REPORT_URL", None),
         mirarun_report_token  |-> Read("MIRARUN_REPORT_TOKEN", None),
         admin_collector_url   |-> Read("ADMIN_COLLECTOR_URL", None),
         admin_collector_token |-> Read("ADMIN_COLLECTOR_TOKEN", None),
         host_metrics          |-> Lower(Read("HOST_METRICS", "true")),
         backend               |-> Read("BACKEND", "docker"),
         docker_endpoint       |-> Read("DOCKER_ENDPOINT", UnixSocket),
         portainer_url         |-> Read("PORTAINER_URL", None),
         portainer_endpoint_id |-> Read("PORTAINER_ENDPOINT_ID", None),
         portainer_api_key     |-> Read("PORTAINER_API_KEY", None),
         node_id               |-> Read("NODE_ID", Read("TARGET_REFERENCE", None)),
         node_host             |-> Read("NODE_HOST", Hostname),
         node_env              |-> Read("NODE_ENV", None),
         proc_path             |-> Read("PROC_PATH", "/proc"),
         disk_paths            |-> DiskPaths[disks]]

SinksFit(c) ==
    /\ Paired(c.mirarun_report_url, c.mirarun_report_token)
    /\ Paired(c.admin_collector_url, c.admin_collector_token)
    /\ ~(c.mirarun_report_url = None /\ c.admin_collector_url = None)

PortainerFits(c) ==
    /\ None \notin {c.portainer_url, c.portainer_endpoint_id, c.portainer_api_key}
    /\ c.portainer_endpoint_id \in DOMAIN Numbers
    /\ Numbers[c.portainer_endpoint_id] >= 1

(* from_environ returns; it raises DriverConfigError otherwise.            *)
Accepted(c) ==
    /\ c.target_reference \in References
    /\ IntervalFits(c.interval)
    /\ TailFits(c.tail)
    /\ SinksFit(c)
    /\ c.host_metrics \in {"true", "false"}
    /\ c.backend \in {"docker", "portainer"}
    /\ c.backend = "portainer" => PortainerFits(c)
    /\ DisksFit(c.disk_paths)

(* PortainerDriver.__init__ refuses a URL without a scheme it knows, with  *)
(* a ValueError; DockerDriver and the sinks take any.                      *)
Builds(c) == c.backend = "portainer" => c.portainer_url \in HttpUrls

-----------------------------------------------------------------------------
(* Whether a configuration describes a process that can poll and report,   *)
(* from what its parts do with it: httpx takes http and https URLs, and    *)
(* the driver a socket's path.                                             *)
Workable(c) ==
    /\ c.backend = "docker" =>
          c.docker_endpoint \in HttpUrls \cup {UnixSocket}
    /\ c.backend = "portainer" => c.portainer_url \in HttpUrls
    /\ \A url \in {c.mirarun_report_url, c.admin_collector_url} \ {None} :
          url \in HttpUrls
=============================================================================
