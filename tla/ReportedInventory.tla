------------------------- MODULE ReportedInventory --------------------------
(***************************************************************************)
(* What the report loop promises its receivers, without the polling: a     *)
(* receiver's inventory is only ever replaced as a whole, by a report each *)
(* entry of which was true, when the report was made, at some instant      *)
(* since the reporter had last begun to look.  "True" covers absence: an   *)
(* address the report leaves empty was empty at some such instant.         *)
(*                                                                         *)
(* Most reports are taken as they are made.  One whose making the reporter *)
(* gave up may be underway for any time; it is then taken once or never,   *)
(* and may set the receiver back behind later reports.                     *)
(***************************************************************************)
CONSTANTS Uris, Receivers, Slots, None

VARIABLES
    tenant,   \* what is at each address, None for nothing
    seen,     \* what was at each address since the reporter began to look
    report,   \* the inventory each receiver holds, None before the first
    underway  \* per receiver and slot a report it may still take, or None

vars == <<tenant, seen, report, underway>>

Init ==
    /\ tenant = [u \in Uris |-> None]
    /\ seen = [u \in Uris |-> {}]
    /\ report = [r \in Receivers |-> None]
    /\ underway = [r \in Receivers |-> [i \in Slots |-> None]]

(* Something changes in the world; a reporter that is looking may see it.  *)
Change(looking) ==
    /\ DOMAIN tenant' = Uris
    /\ seen' = IF looking THEN [u \in Uris |-> seen[u] \cup {tenant'[u]}]
                          ELSE seen
    /\ UNCHANGED <<report, underway>>

Look ==
    /\ seen' = [u \in Uris |-> {tenant[u]}]
    /\ UNCHANGED <<tenant, report, underway>>

TruthfulReports ==
    {inventory \in [Uris -> UNION {seen[u] : u \in Uris}] :
        \A u \in Uris : inventory[u] \in seen[u]}

(* A report made now is left underway.                                     *)
Leave(r) ==
    \E inventory \in TruthfulReports, i \in Slots :
        /\ underway[r][i] = None
        /\ underway' = [underway EXCEPT ![r][i] = inventory]

(* The reporter looks away, perhaps in the middle of a report.             *)
LookAway ==
    /\ seen' = [u \in Uris |-> {}]
    /\ UNCHANGED <<tenant, report>>
    /\ UNCHANGED underway \/ \E r \in Receivers : Leave(r)

Report(r) ==
    /\ \E inventory \in TruthfulReports :
         report' = [report EXCEPT ![r] = inventory]
    /\ UNCHANGED <<tenant, seen, underway>>

GiveUp(r) ==
    /\ Leave(r)
    /\ UNCHANGED <<tenant, seen, report>>

(* A report that was underway is taken, or lost.                           *)
Arrive(r, i) ==
    /\ underway[r][i] # None
    /\ underway' = [underway EXCEPT ![r][i] = None]
    /\ \/ report' = [report EXCEPT ![r] = underway[r][i]]
       \/ UNCHANGED report
    /\ UNCHANGED <<tenant, seen>>

Next ==
    \/ \E looking \in BOOLEAN : Change(looking)
    \/ Look
    \/ LookAway
    \/ \E r \in Receivers : Report(r) \/ GiveUp(r)
    \/ \E r \in Receivers, i \in Slots : Arrive(r, i)

Spec == Init /\ [][Next]_vars
=============================================================================
