-------------------------- MODULE MCReportDelivery --------------------------
(* A small instance of ReportDelivery for TLC: two containers, of which    *)
(* one has a port string over mirarun's cap, no health and an empty state  *)
(* - the body is as large as it may be, its ports cut; then one of them,   *)
(* or one too many for mirarun; then the two again.                        *)
EXTENDS ReportDelivery

Details(uri, ports, health, state) ==
    [f \in ReportFields \cup {"exit_code", "finished_at"} |->
        CASE f = "uri" -> uri
          [] f = "ports" -> ports
          [] f = "bytes" -> 2
          [] f = "restart_count" -> 0
          [] f = "state" -> state
          [] f \in {"health", "service", "finished_at"} -> health
          [] OTHER -> "x"]

plain == Details("u1", 1, "healthy", "running")
wide  == Details("u2", 5, None, "")
more  == Details("u3", 1, "healthy", "running")

SomeInventories ==
    <<{{plain, wide}}, {{plain}, {plain, wide, more}}, {{plain, wide}}>>
=============================================================================
