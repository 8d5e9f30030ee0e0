--------------------------- MODULE MCDriverProcess --------------------------
(* Small instances of DriverProcess for TLC: a default environment for     *)
(* each backend, with one or two variables set to something else.          *)
EXTENDS DriverProcess, TLC

SomeNumbers == "-1" :> -1 @@ "0" :> 0 @@ "1" :> 1 @@ "4" :> 4 @@ "5" :> 5
                 @@ "50" :> 50 @@ "60" :> 60 @@ "1000" :> 1000 @@ "1001" :> 1001
Spaced   == " " :> "" @@ " 5" :> "5"
InLower  == "FALSE" :> "false"
Refs     == {"vps1"}
Urls     == {"http://x"}
SomeDisks == "/=/" :> {<<"/", "/">>} @@ "/data" :> {<<"/data", "/data">>}
               @@ "/=" :> {<<"/", "">>} @@ "/=/a,/=/b" :> {<<"/", "/a">>, <<"/", "/b">>}

Tokens ==
    "TARGET_REFERENCE" :> {None, "", "Vps1"}
    @@ "INTERVAL_SECONDS" :> {" ", "nan", "inf", "x", "0", "4", " 5"}
    @@ "POSTMORTEM_TAIL" :> {"", "x", "0", "1", "1000", "1001"}
    @@ "MIRARUN_REPORT_URL" :> {"", "http://x", "x"}
    @@ "MIRARUN_REPORT_TOKEN" :> {"", "secret"}
    @@ "ADMIN_COLLECTOR_URL" :> {None, "", "x"}
    @@ "ADMIN_COLLECTOR_TOKEN" :> {None, ""}
    @@ "HOST_METRICS" :> {" ", "FALSE", "yes"}
    @@ "BACKEND" :> {"", "docker", "portainer", "podman"}
    @@ "DOCKER_ENDPOINT" :> {"", "http://x", "tcp://x"}
    @@ "PORTAINER_URL" :> {None, "", "http://x", "x"}
    @@ "PORTAINER_ENDPOINT_ID" :> {None, "x", "0", "1"}
    @@ "PORTAINER_API_KEY" :> {None, ""}
    @@ "NODE_ID" :> {"", "node"}
    @@ "NODE_HOST" :> {" "}
    @@ "NODE_ENV" :> {"", "prod"}
    @@ "PROC_PATH" :> {""}
    @@ "DISK_PATHS" :> {"", "/data", "/=", "/=/a,/=/b"}

Docker ==
    [v \in DOMAIN Tokens |->
        CASE v = "TARGET_REFERENCE" -> "vps1"
          [] v = "ADMIN_COLLECTOR_URL" -> "http://x"
          [] v = "ADMIN_COLLECTOR_TOKEN" -> "secret"
          [] OTHER -> None]
Portainer ==
    [Docker EXCEPT !["BACKEND"] = "portainer", !["PORTAINER_URL"] = "http://x",
                   !["PORTAINER_ENDPOINT_ID"] = "1",
                   !["PORTAINER_API_KEY"] = "key"]

(* Every environment of the set, and all with one variable set otherwise.  *)
OneAway(environments) ==
    environments \cup UNION {UNION {{[e EXCEPT ![v] = t] : t \in Tokens[v]} :
                                v \in DOMAIN Tokens} : e \in environments}
OneAltered == OneAway({Docker, Portainer})
TwoAltered == OneAway(OneAltered)
=============================================================================
