------------------------ MODULE ReportDelivery_proofs ------------------------
(***************************************************************************)
(* Proofs that a receiver only ever holds the whole inventory of a cycle,  *)
(* that an acknowledged report is only undone by one whose publish raised, *)
(* that a report to mirarun is within its caps, of known fields and        *)
(* without nulls, that a CPU utilization is a share, and that the rows of  *)
(* them tell no time twice, for any number of cycles and any inventories,  *)
(* caps and host.                                                          *)
(***************************************************************************)
EXTENDS ReportDelivery, Folds_proofs

Jiffies == [total : Int, idle : Int]

(* The collector's baseline is none or counters that have been read.       *)
HostInv ==
    /\ cpu \in [busy : Nat, idle : Nat]
    /\ previous = None \/ previous \in Jiffies
    /\ UtilizationInRange

CycleInv ==
    /\ cycle \in 0 .. MaxCycles
    /\ stage \in {"idle", "host"} \cup Sinks
    /\ waiting \in BOOLEAN
    /\ waiting => stage \in Sinks
    /\ stage # "idle" => cycle # 0
    /\ reading \in {"none", "cpu", "rest", "collected"}
    /\ reading = "none" <=> cycle = 0
    /\ DOMAIN observed = Cycles
    /\ \A n \in 1 .. cycle : observed[n] \in Inventories[n]
    /\ cycle # 0 => inventory = observed[cycle]

(* A publish that is still to be made, or under way, has not raised.       *)
RaisedInv ==
    /\ DOMAIN raised = Sinks
    /\ \A s \in Sinks :
          /\ raised[s] \subseteq 1 .. cycle
          /\ stage \in {"host", "mirarun", s} => cycle \notin raised[s]

(* A request is of the publish under way, or of one that has raised.       *)
RequestInv ==
    \A r \in requests :
        /\ r.to \in Sinks
        /\ r.cycle \in 1 .. cycle
        /\ r.inventory = observed[r.cycle]
        /\ Current(r) \/ r.cycle \in raised[r.to]

(* The publish under way has one request at most.                          *)
OneCurrent == \A r, o \in requests : Current(r) /\ Current(o) => r = o

ViewInv ==
    /\ DOMAIN view = Sinks /\ DOMAIN acked = Sinks
    /\ \A s \in Sinks :
          /\ acked[s] \in 0 .. cycle
          /\ view[s] # None => /\ view[s].cycle \in 1 .. cycle
                               /\ view[s].inventory = observed[view[s].cycle]

DInv ==
    /\ CycleInv /\ RaisedInv /\ RequestInv /\ OneCurrent /\ ViewInv
    /\ AcknowledgedUnlessRaised

-----------------------------------------------------------------------------
(* The host metrics.                                                       *)

LEMMA HostInvInit == Init => HostInv
BY DEF Init, HostInit, Zero, HostInv, UtilizationInRange

LEMMA HostLivesInNat ==
    ASSUME cpu \in [busy : Nat, idle : Nat], HostLives
    PROVE  cpu' \in [busy : Nat, idle : Nat]
<1>1. PICK busy \in 0 .. MaxJiffies, idle \in 0 .. MaxJiffies,
           back \in {0, 1}, from \in {cpu, Zero} :
        /\ back <= from.idle + idle
        /\ cpu' = [busy |-> from.busy + busy, idle |-> from.idle + idle - back]
  BY DEF HostLives
<1>2. from.busy \in Nat /\ from.idle \in Nat
  BY DEF Zero
<1>3. busy \in Nat /\ idle \in Nat /\ back \in Nat
  BY HostAssumption
<1>4. from.busy + busy \in Nat /\ from.idle + idle - back \in Nat
  BY <1>1, <1>2, <1>3
<1> QED BY <1>1, <1>4

(* What Utilization returns is none or a share of the time elapsed.        *)
LEMMA UtilizationIsShare ==
    ASSUME NEW old, old = None \/ old \in Jiffies, NEW new \in Jiffies,
           NEW u, u = Utilization(old, new), u # None
    PROVE  0 <= u.busy /\ u.busy <= u.elapsed /\ 0 < u.elapsed
<1>1. old # None /\ old \in Jiffies
  BY DEF Utilization
<1> DEFINE total == new.total - old.total
           idle  == new.idle - old.idle
<1>2. ~(total <= 0 \/ idle < 0 \/ idle > total)
  BY <1>1 DEF Utilization
<1>3. u = [busy |-> total - idle, elapsed |-> total]
  BY <1>1, <1>2 DEF Utilization
<1>4. total \in Int /\ idle \in Int
  BY <1>1 DEF Jiffies
<1> HIDE DEF total, idle
<1> QED BY <1>2, <1>3, <1>4

LEMMA HostInvStep == HostInv /\ [Next]_vars => HostInv'
<1> SUFFICES ASSUME HostInv, [Next]_vars PROVE HostInv'
  OBVIOUS
<1> USE DEF HostInv, UtilizationInRange
<1>1. CASE BeginCycle
  BY <1>1, HostLivesInNat DEF BeginCycle, BeginCollect
<1>2. CASE Collect
  <2>1. CASE ReadCpu
    <3>1. Counters \in Jiffies
      BY DEF Counters, Jiffies
    <3>2. figure' = Utilization(previous, Counters) /\ previous' = Counters
      BY <2>1 DEF ReadCpu
    <3>3. cpu' = cpu
      BY <1>2 DEF Collect, hostVars
    <3>4. UtilizationInRange'
      BY <3>1, <3>2, UtilizationIsShare
    <3> QED BY <3>1, <3>2, <3>3, <3>4
  <2>2. CASE ReadRest
    BY <1>2, <2>2 DEF Collect, hostVars, ReadRest
  <2>3. CASE CollectFails
    BY <1>2, <2>3 DEF Collect, hostVars, CollectFails
  <2> QED BY <1>2, <2>1, <2>2, <2>3 DEF Collect, CollectStep
<1>3. CASE UNCHANGED <<hostVars, collectorVars>>
  BY <1>3 DEF hostVars, collectorVars
<1>4. ASSUME NEW s \in Sinks, RefuseOversized(s) \/ Send(s) \/ TimeOut(s)
      PROVE  UNCHANGED <<hostVars, collectorVars>>
  BY <1>4 DEF RefuseOversized, Send, TimeOut
<1>5. ASSUME NEW r \in requests, Apply(r) \/ ApplyUnheard(r) \/ Reject(r)
      PROVE  UNCHANGED <<hostVars, collectorVars>>
  BY <1>5 DEF Apply, ApplyUnheard, Reject
<1> QED BY <1>1, <1>2, <1>3, <1>4, <1>5 DEF Next, vars

(* A utilization is between none and all of the host, for every host and   *)
(* every course of failed collections and counters set back                *)
(* (metrics.py, the CPU baseline and its ratio).                           *)
THEOREM UtilizationAlwaysInRange == Spec => []UtilizationInRange
<1>1. HostInv => UtilizationInRange
  BY DEF HostInv
<1> QED BY <1>1, HostInvInit, HostInvStep, PTL DEF Spec

-----------------------------------------------------------------------------
(* The delivery.                                                           *)

LEMMA DInvInit == Init => DInv
<1> SUFFICES ASSUME Init PROVE DInv
  OBVIOUS
<1>1. /\ cycle = 0 /\ stage = "idle" /\ waiting = FALSE /\ requests = {}
      /\ reading = "none"
      /\ view = [s \in Sinks |-> None] /\ acked = [s \in Sinks |-> 0]
      /\ raised = [s \in Sinks |-> {}]
      /\ observed = [n \in Cycles |-> {}]
  BY DEF Init, HostInit
<1>2. CycleInv
  <2>1. 0 \in 0 .. MaxCycles /\ 1 .. 0 = {}
    BY DeliveryAssumption
  <2> QED BY <1>1, <2>1 DEF CycleInv
<1>3. RaisedInv /\ RequestInv /\ OneCurrent
  BY <1>1 DEF RaisedInv, RequestInv, OneCurrent, Sinks
<1>4. ViewInv /\ AcknowledgedUnlessRaised
  BY <1>1 DEF ViewInv, AcknowledgedUnlessRaised
<1> QED BY <1>2, <1>3, <1>4 DEF DInv

(* A new cycle leaves what is under way to the cycles it is of.            *)
LEMMA BeginCycleKeeps == DInv /\ BeginCycle => DInv'
<1> SUFFICES ASSUME DInv, BeginCycle PROVE DInv'
  OBVIOUS
<1>1. PICK i \in Inventories[cycle + 1] :
        inventory' = i /\ observed' = [observed EXCEPT ![cycle + 1] = i]
  BY DEF BeginCycle
<1>2. /\ cycle \in Nat /\ cycle < MaxCycles /\ cycle' = cycle + 1
      /\ stage = "idle" /\ stage' = "host" /\ ~waiting
      /\ reading' = "cpu"
      /\ UNCHANGED <<waiting, requests, view, rows, acked, raised>>
  BY DEF BeginCycle, BeginCollect, DInv, CycleInv, Sinks
<1>3. MaxCycles \in Nat
  BY DeliveryAssumption
<1>4. cycle + 1 \in Cycles /\ DOMAIN observed = Cycles
  BY <1>2, <1>3 DEF DInv, CycleInv, Cycles
<1>5. observed'[cycle + 1] = i /\ \A n \in 1 .. cycle : observed'[n] = observed[n]
  <2>1. \A n \in 1 .. cycle : n \in Cycles /\ n # cycle + 1
    BY <1>2, <1>3 DEF Cycles
  <2> QED BY <1>1, <1>4, <2>1
<1>6. 1 .. cycle' = 1 .. cycle \cup {cycle + 1}
  BY <1>2
<1>7. CycleInv'
  <2>1. \A n \in 1 .. cycle' : observed'[n] \in Inventories[n]
    BY <1>1, <1>5, <1>6 DEF DInv, CycleInv
  <2>2. cycle' \in 0 .. MaxCycles /\ cycle' # 0
    BY <1>2, <1>3
  <2>3. inventory' = observed'[cycle']
    BY <1>1, <1>2, <1>5
  <2>4. DOMAIN observed' = Cycles
    BY <1>1, <1>4
  <2> QED BY <1>2, <2>1, <2>2, <2>3, <2>4 DEF CycleInv, DInv
<1>8. RequestInv' /\ OneCurrent'
  BY <1>2, <1>5, <1>6 DEF DInv, RequestInv, OneCurrent, Current
<1>11. RaisedInv'
  <2>1. cycle' \notin 1 .. cycle /\ 1 .. cycle \subseteq 1 .. cycle'
    BY <1>2
  <2> QED BY <1>2, <2>1 DEF DInv, RaisedInv
<1>9. ViewInv'
  <2>1. 0 .. cycle \subseteq 0 .. cycle'
    BY <1>2
  <2> QED BY <1>2, <1>5, <1>6, <2>1 DEF DInv, ViewInv
<1>10. AcknowledgedUnlessRaised'
  BY <1>2 DEF DInv, AcknowledgedUnlessRaised
<1> QED BY <1>7, <1>8, <1>9, <1>10, <1>11 DEF DInv

LEMMA CollectKeeps == DInv /\ Collect => DInv'
<1> SUFFICES ASSUME DInv, Collect PROVE DInv'
  OBVIOUS
<1>1. /\ stage = "host" /\ stage' \in {"host", "mirarun"}
      /\ reading # "none" /\ reading' \in {"rest", "collected"}
      /\ UNCHANGED <<cycle, inventory, waiting, requests, view, acked, raised,
                     observed>>
  BY DEF Collect, CollectStep, ReadCpu, ReadRest, CollectFails
<1>2. ~waiting
  BY <1>1 DEF DInv, CycleInv, Sinks
<1>3. CycleInv'
  BY <1>1, <1>2 DEF DInv, CycleInv, Sinks
<1>4. RequestInv' /\ OneCurrent' /\ RaisedInv'
  BY <1>1, <1>2 DEF DInv, RequestInv, OneCurrent, RaisedInv, Current
<1>5. ViewInv' /\ AcknowledgedUnlessRaised'
  BY <1>1 DEF DInv, ViewInv, AcknowledgedUnlessRaised
<1> QED BY <1>3, <1>4, <1>5 DEF DInv

(* A publish that raises, whatever became of its request.                  *)
LEMMA RaiseKeeps ==
    ASSUME DInv, NEW s \in Sinks, stage = s, Raise(s),
           requests' \subseteq requests,
           UNCHANGED <<collectorVars, cycle, inventory, view, observed>>
    PROVE  DInv'
<1>1. /\ stage' = (IF s = "mirarun" THEN "admin" ELSE "idle")
      /\ waiting' = FALSE
      /\ raised' = [raised EXCEPT ![s] = @ \cup {cycle}]
      /\ acked' = acked
  BY DEF Raise, AfterSink
<1>2. DOMAIN raised = Sinks
  BY DEF DInv, RaisedInv
<1>3. /\ cycle \in raised'[s]
      /\ \A t \in Sinks : raised[t] \subseteq raised'[t]
  BY <1>1, <1>2
<1>4. CycleInv'
  BY <1>1 DEF DInv, CycleInv, Sinks, collectorVars
<1>5. ASSUME NEW r \in requests' PROVE r.cycle \in raised'[r.to]
  <2>1. r \in requests
    OBVIOUS
  <2>2. r.to \in Sinks /\ (Current(r) \/ r.cycle \in raised[r.to])
    BY <2>1 DEF DInv, RequestInv
  <2>3. CASE Current(r)
    BY <2>3, <1>3 DEF Current
  <2> QED BY <1>3, <2>2, <2>3
<1>6. RequestInv' /\ OneCurrent'
  BY <1>1, <1>5 DEF DInv, RequestInv, OneCurrent, Current
<1>7. ViewInv'
  BY <1>1 DEF DInv, ViewInv
<1>9. RaisedInv'
  <2>1. \A t \in Sinks :
          raised'[t] = IF t = s THEN raised[t] \cup {cycle} ELSE raised[t]
    BY <1>1, <1>2
  <2>2. cycle \in 1 .. cycle
    BY DEF DInv, CycleInv, Sinks
  <2> QED BY <1>1, <1>2, <2>1, <2>2 DEF DInv, RaisedInv, Sinks
<1>8. AcknowledgedUnlessRaised'
  BY <1>1, <1>3 DEF DInv, AcknowledgedUnlessRaised
<1> QED BY <1>4, <1>6, <1>7, <1>8, <1>9 DEF DInv

LEMMA SendKeeps ==
    ASSUME DInv, NEW s \in Sinks, Send(s) PROVE DInv'
<1>1. /\ stage = s /\ waiting' = TRUE
      /\ requests' = requests \cup {Request(s)}
      /\ UNCHANGED <<collectorVars, cycle, stage, inventory, view, acked,
                     raised, observed>>
      /\ ~waiting
  BY DEF Send
<1>2. CycleInv'
  BY <1>1 DEF DInv, CycleInv, collectorVars
<1>3. Request(s).to = s /\ Request(s).cycle = cycle
      /\ Request(s).inventory = inventory
  BY DEF Request
<1>4. cycle \in 1 .. cycle /\ inventory = observed[cycle]
  BY <1>1 DEF DInv, CycleInv, Sinks
<1>5. RequestInv'
  <2> SUFFICES ASSUME NEW r \in requests'
               PROVE  /\ r.to \in Sinks
                      /\ r.cycle \in 1 .. cycle'
                      /\ r.inventory = observed'[r.cycle]
                      /\ Current(r)' \/ r.cycle \in raised'[r.to]
    BY DEF RequestInv
  <2>1. CASE r = Request(s)
    BY <1>1, <1>3, <1>4, <2>1 DEF Current
  <2>2. CASE r \in requests
    BY <1>1, <2>2 DEF DInv, RequestInv, Current
  <2> QED BY <1>1, <2>1, <2>2
<1>6. ViewInv' /\ RaisedInv' /\ AcknowledgedUnlessRaised'
  BY <1>1 DEF DInv, ViewInv, RaisedInv, AcknowledgedUnlessRaised
<1>7. OneCurrent'
  <2>1. ASSUME NEW o \in requests PROVE ~(s = o.to /\ cycle = o.cycle)
    <3>1. o.cycle \in raised[o.to]
      BY <1>1 DEF DInv, RequestInv, Current
    <3> QED BY <1>1, <3>1 DEF DInv, RaisedInv
  <2> QED BY <1>1, <2>1 DEF OneCurrent, Current
<1> QED BY <1>2, <1>5, <1>6, <1>7 DEF DInv

(* What a receiver is given is the whole inventory of the request's cycle. *)
LEMMA DeliverReplaces ==
    ASSUME DInv, NEW r, Deliver(r), UNCHANGED <<cycle, observed>>
    PROVE  /\ r \in requests /\ requests' = requests \ {r}
           /\ r.to \in Sinks /\ r.cycle \in 1 .. cycle
           /\ DOMAIN view' = Sinks
           /\ view'[r.to] # None
           /\ view'[r.to].cycle = r.cycle
           /\ view'[r.to].inventory = observed[r.cycle]
           /\ \A s \in Sinks \ {r.to} : view'[s] = view[s]
<1>1. /\ r \in requests /\ requests' = requests \ {r}
      /\ view' = [view EXCEPT ![r.to] =
                    [cycle |-> r.cycle, inventory |-> r.inventory]]
  BY DEF Deliver
<1>2. /\ r.to \in Sinks /\ r.cycle \in 1 .. cycle
      /\ r.inventory = observed[r.cycle] /\ DOMAIN view = Sinks
  BY <1>1 DEF DInv, RequestInv, ViewInv
<1>3. view'[r.to] = [cycle |-> r.cycle, inventory |-> r.inventory]
  BY <1>1, <1>2
<1>4. r.cycle \in 1 .. MaxCycles /\ r.cycle \in Nat
  BY <1>2, DeliveryAssumption DEF DInv, CycleInv
<1>5. r.inventory \in Inventories[r.cycle]
  BY <1>2 DEF DInv, CycleInv
<1>6. view'[r.to] # None
  <2>1. None \notin [cycle : Nat, inventory : Inventories[r.cycle]]
    BY <1>4, DeliveryAssumption
  <2>2. view'[r.to] \in [cycle : Nat, inventory : Inventories[r.cycle]]
    BY <1>3, <1>4, <1>5
  <2> QED BY <2>1, <2>2
<1> QED BY <1>1, <1>2, <1>3, <1>6

LEMMA ViewsKeep ==
    ASSUME DInv, NEW r, Deliver(r), UNCHANGED <<cycle, raised, observed>>,
           DOMAIN acked' = Sinks,
           \A s \in Sinks : \/ acked'[s] = acked[s]
                            \/ acked'[s] = cycle /\ Current(r) /\ s = r.to
    PROVE  ViewInv' /\ AcknowledgedUnlessRaised'
<1>1. /\ r \in requests /\ r.to \in Sinks /\ r.cycle \in 1 .. cycle
      /\ DOMAIN view' = Sinks
      /\ view'[r.to] # None
      /\ view'[r.to].cycle = r.cycle
      /\ view'[r.to].inventory = observed[r.cycle]
      /\ \A s \in Sinks \ {r.to} : view'[s] = view[s]
  BY DeliverReplaces
<1>2. cycle \in Nat /\ cycle \in 0 .. cycle
  BY DeliveryAssumption DEF DInv, CycleInv
<1>3. ASSUME NEW s \in Sinks PROVE acked'[s] \in 0 .. cycle
  BY <1>2 DEF DInv, ViewInv
<1>4. ViewInv'
  BY <1>1, <1>3 DEF DInv, ViewInv
<1>5. ASSUME NEW s \in Sinks, acked'[s] > 0
      PROVE  /\ view'[s] # None
             /\ view'[s].cycle >= acked'[s] \/ view'[s].cycle \in raised[s]
  <2>1. CASE s = r.to
    <3>1. CASE Current(r)
      <4>1. view'[s].cycle = cycle /\ acked'[s] <= cycle
        BY <1>1, <1>2, <1>3, <2>1, <3>1 DEF Current
      <4> QED BY <1>1, <1>2, <1>3, <2>1, <4>1
    <3>2. CASE r.cycle \in raised[r.to]
      BY <1>1, <2>1, <3>2
    <3> QED BY <1>1, <3>1, <3>2 DEF DInv, RequestInv
  <2>2. CASE s # r.to
    BY <1>1, <1>5, <2>2 DEF DInv, AcknowledgedUnlessRaised
  <2> QED BY <2>1, <2>2
<1> QED BY <1>4, <1>5 DEF AcknowledgedUnlessRaised

LEMMA ApplyKeeps ==
    ASSUME DInv, NEW r, Apply(r) PROVE DInv'
<1>1. /\ Deliver(r) /\ waiting /\ stage = r.to /\ cycle = r.cycle /\ Current(r)
      /\ stage' = (IF r.to = "mirarun" THEN "admin" ELSE "idle")
      /\ waiting' = FALSE
      /\ acked' = [acked EXCEPT ![r.to] = cycle]
      /\ UNCHANGED <<collectorVars, cycle, inventory, raised, observed>>
  BY DEF Apply, Current, Return, AfterSink
<1>2. r \in requests /\ r.to \in Sinks /\ requests' = requests \ {r}
  BY <1>1, DeliverReplaces
<1>3. CycleInv'
  BY <1>1, <1>2 DEF DInv, CycleInv, Sinks, collectorVars
<1>4. RaisedInv'
  BY <1>1, <1>2 DEF DInv, RaisedInv, Sinks
<1>5. RequestInv' /\ OneCurrent'
  <2>1. ASSUME NEW o \in requests' PROVE ~Current(o)
    BY <1>1, <1>2 DEF DInv, OneCurrent
  <2> QED BY <1>1, <1>2, <2>1 DEF DInv, RequestInv, OneCurrent, Current
<1>6. /\ DOMAIN acked' = Sinks
      /\ \A s \in Sinks : \/ acked'[s] = acked[s]
                          \/ acked'[s] = cycle /\ s = r.to
  <2>1. DOMAIN acked = Sinks
    BY DEF DInv, ViewInv
  <2>2. acked' = [acked EXCEPT ![r.to] = cycle]
    BY <1>1
  <2>3. DOMAIN acked' = Sinks
    BY <2>1, <2>2
  <2>4. ASSUME NEW s \in Sinks
        PROVE  acked'[s] = acked[s] \/ (acked'[s] = cycle /\ s = r.to)
    <3>1. CASE s = r.to
      BY <2>1, <2>2, <3>1
    <3>2. CASE s # r.to
      BY <2>1, <2>2, <3>2
    <3> QED BY <3>1, <3>2
  <2> QED BY <2>3, <2>4
<1>7. ViewInv' /\ AcknowledgedUnlessRaised'
  BY <1>1, <1>6, ViewsKeep
<1> QED BY <1>3, <1>4, <1>5, <1>7 DEF DInv

LEMMA ApplyUnheardKeeps ==
    ASSUME DInv, NEW r, ApplyUnheard(r) PROVE DInv'
<1>1. /\ Deliver(r)
      /\ UNCHANGED <<collectorVars, cycle, stage, inventory, waiting, acked,
                     raised, observed>>
  BY DEF ApplyUnheard
<1>2. requests' = requests \ {r}
  BY <1>1, DeliverReplaces
<1>3. CycleInv' /\ RaisedInv' /\ RequestInv' /\ OneCurrent'
  BY <1>1, <1>2
  DEF DInv, CycleInv, RaisedInv, RequestInv, OneCurrent, Current, collectorVars
<1>4. ViewInv' /\ AcknowledgedUnlessRaised'
  BY <1>1, ViewsKeep DEF DInv, ViewInv
<1> QED BY <1>3, <1>4 DEF DInv

LEMMA DInvStep == DInv /\ [Next]_vars => DInv'
<1> SUFFICES ASSUME DInv, [Next]_vars PROVE DInv'
  OBVIOUS
<1>1. ASSUME NEW s \in Sinks, RefuseOversized(s) PROVE DInv'
  BY <1>1, RaiseKeeps DEF RefuseOversized
<1>2. ASSUME NEW s \in Sinks, TimeOut(s) PROVE DInv'
  BY <1>2, RaiseKeeps DEF TimeOut
<1>3. ASSUME NEW r \in requests, Reject(r) PROVE DInv'
  <2>1. r.to \in Sinks
    BY DEF DInv, RequestInv
  <2> QED BY <1>3, <2>1, RaiseKeeps DEF Reject, Current
<1>4. CASE UNCHANGED vars
  BY <1>4
  DEF vars, deliveryVars, collectorVars, DInv, CycleInv, RaisedInv, RequestInv,
      OneCurrent, ViewInv, AcknowledgedUnlessRaised, Current
<1> QED
  BY <1>1, <1>2, <1>3, <1>4, BeginCycleKeeps, CollectKeeps, SendKeeps,
     ApplyKeeps, ApplyUnheardKeeps
  DEF Next

(* Whatever timed out, came late, was lost or refused: a publish that      *)
(* returned was applied, and only a report whose publish raised undoes it  *)
(* (sinks.py 79-127, runner.py 190-217).                                   *)
THEOREM AcknowledgedHolds == Spec => []AcknowledgedUnlessRaised
<1>1. DInv => AcknowledgedUnlessRaised
  BY DEF DInv
<1> QED BY <1>1, DInvInit, DInvStep, PTL DEF Spec

(* A receiver that deletes on absence never holds a part of an inventory   *)
(* (sinks.py 34-36).                                                       *)
THEOREM InventoriesAreWhole == Spec => []WholeInventories
<1>1. DInv => WholeInventories
  BY DEF DInv, ViewInv, WholeInventories
<1> QED BY <1>1, DInvInit, DInvStep, PTL DEF Spec

(* The types and ranges of the delivery's state.                           *)
THEOREM DeliveryTypeCorrect == Spec => []DeliveryTypeOK
<1>1. DInv => DeliveryTypeOK
  BY DEF DInv, CycleInv, RequestInv, DeliveryTypeOK
<1> QED BY <1>1, DInvInit, DInvStep, PTL DEF Spec

-----------------------------------------------------------------------------
(* What is sent to mirarun.                                                *)

(* The payload is made of the inventory, and one over the caps is not sent.*)
PayloadInv ==
    \A r \in requests :
        /\ r.resources = {ReportedResource(d) : d \in r.inventory}
        /\ r.to = "mirarun" => ~Oversized(r.inventory)

LEMMA PayloadInvInit == Init => PayloadInv
BY DEF Init, PayloadInv

LEMMA PayloadInvStep == PayloadInv /\ [Next]_vars => PayloadInv'
<1> SUFFICES ASSUME PayloadInv, [Next]_vars PROVE PayloadInv'
  OBVIOUS
<1>1. ASSUME NEW s \in Sinks, Send(s) PROVE PayloadInv'
  <2>1. requests' = requests \cup {Request(s)}
    BY <1>1 DEF Send
  <2>2. /\ Request(s).to = s
        /\ Request(s).inventory = inventory
        /\ Request(s).resources = {ReportedResource(d) : d \in inventory}
    BY DEF Request
  <2>3. s = "mirarun" => ~Oversized(inventory)
    BY <1>1 DEF Send
  <2>4. \A r \in requests' : r \in requests \/ r = Request(s)
    BY <2>1
  <2> HIDE DEF Request
  <2> QED BY <2>2, <2>3, <2>4 DEF PayloadInv
<1>2. CASE requests' \subseteq requests
  BY <1>2 DEF PayloadInv
<1>3. ASSUME NEW s \in Sinks, RefuseOversized(s) \/ TimeOut(s)
      PROVE  requests' \subseteq requests
  BY <1>3 DEF RefuseOversized, TimeOut
<1>4. ASSUME NEW r \in requests, Apply(r) \/ ApplyUnheard(r) \/ Reject(r)
      PROVE  requests' \subseteq requests
  BY <1>4 DEF Apply, ApplyUnheard, Reject, Deliver
<1>5. ASSUME BeginCycle \/ Collect \/ UNCHANGED vars
      PROVE  requests' \subseteq requests
  BY <1>5 DEF BeginCycle, Collect, vars, deliveryVars
<1> QED BY <1>1, <1>2, <1>3, <1>4, <1>5 DEF Next

(* The size of a body counts bytes.                                        *)
LEMMA BodyBytesType ==
    ASSUME NEW i, IsFiniteSet(i), MaxPortChars \in Nat,
           \A d \in i : d["bytes"] \in Nat /\ d["ports"] \in Nat
    PROVE  BodyBytes(i) \in Nat
<1> DEFINE size(d) == d["bytes"] + ReportedPorts(d)
           w == [d \in i |-> size(d)]
           Sums(g) == g = [s \in SUBSET i |->
                             IF s = {} THEN 0
                             ELSE size(CHOOSE d \in s : TRUE)
                                     + g[s \ {CHOOSE d \in s : TRUE}]]
<1>1. \A d \in i : size(d) \in Nat
  BY DEF ReportedPorts
<1>2. \A h : (\E g : Sums(g)) /\ h = BodyBytes(i)
              => \E g : Sums(g) /\ h = EnvelopeBytes + g[i]
  BY DEF BodyBytes, MapThenSumSet, MapThenFoldSet
<1> HIDE DEF size
<1>3. /\ \A d \in i : w[d] \in Nat
      /\ \A s \in SUBSET i : s # {} =>
            w[CHOOSE d \in s : TRUE] = size(CHOOSE d \in s : TRUE)
  BY <1>1
<1> HIDE DEF w
<1>4. ASSUME NEW g PROVE Sums(g) <=> SumsUp(g, w, i)
  BY <1>3 DEF SumsUp
<1>5. \E h : Sums(h)
  <2>1. \E h : SumsUp(h, w, i)
    BY <1>3, SumExists
  <2> HIDE DEF Sums
  <2> QED BY <1>4, <2>1
<1> HIDE DEF Sums
<1>6. PICK g : Sums(g) /\ BodyBytes(i) = EnvelopeBytes + g[i]
  BY <1>2, <1>5
<1>7. g[i] \in Nat
  BY <1>3, <1>4, <1>6, SumType
<1> QED BY <1>6, <1>7 DEF EnvelopeBytes

(* A resource of the payload has known fields, none of them null, and      *)
(* ports no longer than mirarun takes.                                     *)
LEMMA ReportedIsTaken ==
    ASSUME NEW d, None \notin Nat, MaxPortChars \in Nat,
           d["ports"] \in Nat,
           \A f \in ReportFields \ Optional : d[f] # None
    PROVE  LET r == ReportedResource(d)
           IN  /\ DOMAIN r \subseteq ReportFields
               /\ \A f \in DOMAIN r : r[f] # None
               /\ r["ports"] <= MaxPortChars
<1> DEFINE taken == {g \in ReportFields : g \in Optional => d[g] # None}
           r == ReportedResource(d)
<1>1. "ports" \in taken /\ taken \subseteq ReportFields
  BY DEF ReportFields, Optional
<1>2. \A f \in taken : d[f] # None
  OBVIOUS
<1> HIDE DEF taken
<1>3. r = [f \in taken |-> IF f = "ports" THEN ReportedPorts(d) ELSE d[f]]
  BY DEF ReportedResource, taken
<1>4. ReportedPorts(d) \in Nat /\ ReportedPorts(d) <= MaxPortChars
  BY DEF ReportedPorts
<1> HIDE DEF r
<1>5. DOMAIN r = taken
  BY <1>3
<1>6. \A f \in taken : r[f] # None
  BY <1>2, <1>3, <1>4
<1>7. r["ports"] <= MaxPortChars
  BY <1>1, <1>3, <1>4
<1> QED BY <1>1, <1>5, <1>6, <1>7 DEF r

(* Every report sent to mirarun is within its caps and has known fields    *)
(* only, none of them null and no port string too long, for any caps and   *)
(* inventories (sinks.py 34-39, 101-116, 125-147; base.py 46-50).  That no *)
(* text of it is empty is not so.                                          *)
THEOREM ContractIsKept == Spec => []WithinContract
<1>1. DInv /\ PayloadInv => WithinContract
  <2> SUFFICES ASSUME DInv, PayloadInv, NEW r \in requests, r.to = "mirarun"
               PROVE  /\ Cardinality(r.resources) <= MaxResources
                      /\ BodyBytes(r.inventory) <= MaxBodyBytes
                      /\ \A d \in r.resources :
                            /\ DOMAIN d \subseteq ReportFields
                            /\ \A f \in DOMAIN d : d[f] # None
                            /\ d["ports"] <= MaxPortChars
    BY DEF WithinContract
  <2> DEFINE i == r.inventory
  <2>1. PICK n \in 1 .. MaxCycles : i \in Inventories[n]
    <3>1. r.cycle \in 1 .. cycle /\ i = observed[r.cycle]
      BY DEF DInv, RequestInv
    <3>2. cycle \in 0 .. MaxCycles /\ i \in Inventories[r.cycle]
      BY <3>1 DEF DInv, CycleInv
    <3>3. r.cycle \in 1 .. MaxCycles
      BY <3>1, <3>2, DeliveryAssumption
    <3> QED BY <3>2, <3>3
  <2>2. /\ IsFiniteSet(i) /\ MaxPortChars \in Nat
        /\ \A d \in i : /\ d["ports"] \in Nat /\ d["bytes"] \in Nat
                        /\ \A f \in ReportFields \ Optional : d[f] # None
    BY <2>1, DetailsAssumption, DeliveryAssumption
  <2>3. r.resources = {ReportedResource(d) : d \in i} /\ ~Oversized(i)
    BY DEF PayloadInv
  <2> HIDE DEF i
  <2>4. IsFiniteSet(r.resources) /\ Cardinality(r.resources) <= Cardinality(i)
    <3> DEFINE f == [d \in i |-> ReportedResource(d)]
    <3>1. f \in Surjection(i, r.resources)
      BY <2>3, Zenon DEF Surjection
    <3> HIDE DEF f
    <3> QED BY <2>2, <3>1, FS_Surjection
  <2>5. Cardinality(r.resources) <= MaxResources
    <3>1. Cardinality(i) \in Nat /\ Cardinality(r.resources) \in Nat
      BY <2>2, <2>4, FS_CardinalityType
    <3>2. ~(Cardinality(i) > MaxResources) /\ MaxResources \in Nat
      BY <2>3, DeliveryAssumption DEF Oversized
    <3> QED BY <2>4, <3>1, <3>2
  <2>6. BodyBytes(i) <= MaxBodyBytes
    <3>1. BodyBytes(i) \in Nat
      BY <2>2, BodyBytesType
    <3>2. ~(BodyBytes(i) > MaxBodyBytes) /\ MaxBodyBytes \in Nat
      BY <2>3, DeliveryAssumption DEF Oversized
    <3> QED BY <3>1, <3>2
  <2>7. ASSUME NEW d \in r.resources
        PROVE  /\ DOMAIN d \subseteq ReportFields
               /\ \A f \in DOMAIN d : d[f] # None
               /\ d["ports"] <= MaxPortChars
    <3>1. PICK e \in i : d = ReportedResource(e)
      BY <2>3
    <3>2. None \notin Nat /\ MaxPortChars \in Nat
      BY DeliveryAssumption, DetailsAssumption
    <3> QED BY <2>2, <3>1, <3>2, ReportedIsTaken
  <2> QED BY <2>5, <2>6, <2>7 DEF i
<1> QED BY <1>1, DInvInit, DInvStep, PayloadInvInit, PayloadInvStep, PTL DEF Spec

-----------------------------------------------------------------------------
(* The host time that admin's rows tell of.                                *)

(* Of both figures, f is "busy" or "elapsed": what passed on the host, and *)
(* what its counters and the collector's baseline show of it.              *)
Parts      == {"busy", "elapsed"}
Passed(f)  == IF f = "busy" THEN worked ELSE lived
Counted(f) == IF f = "busy" THEN cpu.busy ELSE cpu.busy + cpu.idle
Base(f)    == IF f = "busy" THEN previous.total - previous.idle ELSE previous.total

(* A ledger: the host time told of up to each cycle.                       *)
Ledgers ==
    {acc \in [0 .. MaxCycles -> Nat] :
        /\ acc[0] = 0
        /\ \A m, n \in 0 .. MaxCycles : m <= n => acc[m] <= acc[n]}

(* The figure of cycle n is none, or fits into what the ledger has for n.  *)
Booked(u, f, n, acc) == u # None => u[f] \in Nat /\ u[f] <= acc[n] - acc[n - 1]

(* What the ledger tells has passed, and so has what it tells with what    *)
(* the counters show since the baseline.  Whatever became of a report, its *)
(* row is of its own cycle.                                                *)
Balanced(f, acc) ==
    /\ acc[MaxCycles] <= Passed(f)
    /\ previous # None => acc[MaxCycles] + (Counted(f) - Base(f)) <= Passed(f)
    /\ \A n \in Cycles : Booked(rows[n], f, n, acc)
    /\ \A r \in requests : Booked(r.row, f, r.cycle, acc)
    /\ cycle # 0 => Booked(figure, f, cycle, acc)

RowsInv ==
    /\ lived \in Nat /\ worked \in Nat
    /\ DOMAIN rows = Cycles
    /\ cycle = 0 => figure = None
    /\ \A f \in Parts : \E acc \in Ledgers : Balanced(f, acc)

LEMMA RowsInvInit == Init => RowsInv
<1> SUFFICES ASSUME Init PROVE RowsInv
  OBVIOUS
<1>1. /\ lived = 0 /\ worked = 0 /\ cycle = 0 /\ figure = None
      /\ previous = None /\ requests = {}
      /\ rows = [n \in Cycles |-> None]
  BY DEF Init, HostInit
<1> DEFINE acc == [n \in 0 .. MaxCycles |-> 0]
<1>2. acc \in Ledgers /\ acc[MaxCycles] = 0
  BY DeliveryAssumption DEF Ledgers
<1> HIDE DEF acc
<1>3. ASSUME NEW f \in Parts PROVE Balanced(f, acc)
  BY <1>1, <1>2 DEF Balanced, Booked, Passed
<1> QED BY <1>1, <1>2, <1>3 DEF RowsInv

(* While the host lives its counters advance by no more than passes.       *)
LEMMA CountersFollow ==
    ASSUME cpu \in [busy : Nat, idle : Nat], lived \in Nat, worked \in Nat,
           HostLives, NEW f \in Parts
    PROVE  /\ lived' \in Nat /\ worked' \in Nat
           /\ Passed(f) <= Passed(f)'
           /\ Counted(f) \in Nat /\ Counted(f)' \in Nat
           /\ Counted(f)' - Counted(f) <= Passed(f)' - Passed(f)
<1>1. PICK busy \in 0 .. MaxJiffies, idle \in 0 .. MaxJiffies,
           back \in {0, 1}, from \in {cpu, Zero} :
        /\ lived' = lived + busy + idle
        /\ worked' = worked + busy
        /\ back <= from.idle + idle
        /\ cpu' = [busy |-> from.busy + busy, idle |-> from.idle + idle - back]
  BY DEF HostLives
<1>2. /\ from.busy \in Nat /\ from.idle \in Nat
      /\ cpu.busy \in Nat /\ cpu.idle \in Nat
      /\ from.busy <= cpu.busy /\ from.busy + from.idle <= cpu.busy + cpu.idle
  BY DEF Zero
<1>3. busy \in Nat /\ idle \in Nat /\ back \in Nat
  BY HostAssumption
<1>4. cpu'.busy = from.busy + busy /\ cpu'.idle = from.idle + idle - back
  BY <1>1
<1>5. CASE f = "busy"
  BY <1>1, <1>2, <1>3, <1>4, <1>5 DEF Passed, Counted
<1>6. CASE f = "elapsed"
  BY <1>1, <1>2, <1>3, <1>4, <1>6 DEF Passed, Counted
<1> QED BY <1>5, <1>6 DEF Parts

(* A figure tells what the counters show since the baseline.               *)
LEMMA FigureIsDifference ==
    ASSUME cpu \in [busy : Nat, idle : Nat], previous = None \/ previous \in Jiffies,
           NEW u, u = Utilization(previous, Counters), u # None,
           NEW f \in Parts
    PROVE  previous # None /\ u[f] \in Nat /\ u[f] = Counted(f) - Base(f)
<1>1. /\ Counters.total = cpu.busy + cpu.idle /\ Counters.idle = cpu.idle
      /\ cpu.busy \in Nat /\ cpu.idle \in Nat
  BY DEF Counters
<1> DEFINE total == Counters.total - previous.total
           idle  == Counters.idle - previous.idle
<1>2. previous # None /\ ~(total <= 0 \/ idle < 0 \/ idle > total)
      /\ u = [busy |-> total - idle, elapsed |-> total]
  BY DEF Utilization
<1>3. previous.total \in Int /\ previous.idle \in Int
  BY <1>2 DEF Jiffies
<1>4. /\ total = cpu.busy + cpu.idle - previous.total
      /\ idle = cpu.idle - previous.idle
  BY <1>1, <1>3
<1>5. u["busy"] = total - idle /\ u["elapsed"] = total
  BY <1>2
<1> HIDE DEF total, idle
<1>6. CASE f = "busy"
  BY <1>1, <1>2, <1>3, <1>4, <1>5, <1>6 DEF Counted, Base
<1>7. CASE f = "elapsed"
  BY <1>1, <1>2, <1>3, <1>4, <1>5, <1>7 DEF Counted, Base
<1> QED BY <1>2, <1>6, <1>7 DEF Parts

LEMMA RowsInvBeginCycle ==
    ASSUME HostInv, DInv, RowsInv, BeginCycle PROVE RowsInv'
<1>1. /\ HostLives /\ cycle \in Nat /\ cycle' = cycle + 1
      /\ figure' = None /\ UNCHANGED <<previous, requests, rows>>
  BY DEF BeginCycle, BeginCollect, DInv, CycleInv
<1>2. /\ cpu \in [busy : Nat, idle : Nat] /\ lived \in Nat /\ worked \in Nat
      /\ DOMAIN rows = Cycles
  BY DEF HostInv, RowsInv
<1>3. lived' \in Nat /\ worked' \in Nat
  BY <1>1, <1>2, CountersFollow DEF Parts
<1>4. ASSUME NEW f \in Parts, NEW acc \in Ledgers, Balanced(f, acc)
      PROVE  Balanced(f, acc)'
  <2>1. /\ Passed(f) <= Passed(f)' /\ Passed(f) \in Nat /\ Passed(f)' \in Nat
        /\ Counted(f) \in Nat /\ Counted(f)' \in Nat
        /\ Counted(f)' - Counted(f) <= Passed(f)' - Passed(f)
    BY <1>1, <1>2, <1>3, CountersFollow DEF Passed
  <2>2. acc[MaxCycles] \in Nat
    BY DeliveryAssumption DEF Ledgers
  <2>3. acc[MaxCycles] <= Passed(f)
        /\ (previous # None
              => acc[MaxCycles] + (Counted(f) - Base(f)) <= Passed(f))
    BY <1>4 DEF Balanced
  <2>4. Base(f)' = Base(f) /\ (previous # None => Base(f) \in Int)
    BY <1>1 DEF Base, HostInv, Jiffies
  <2>5. acc[MaxCycles] <= Passed(f)'
    BY <2>1, <2>2, <2>3
  <2>6. previous # None => acc[MaxCycles] + (Counted(f)' - Base(f)) <= Passed(f)'
    BY <2>1, <2>2, <2>3, <2>4
  <2>7. /\ \A n \in Cycles : Booked(rows[n], f, n, acc)
        /\ \A r \in requests : Booked(r.row, f, r.cycle, acc)
    BY <1>4 DEF Balanced
  <2> QED BY <1>1, <2>4, <2>5, <2>6, <2>7 DEF Balanced, Booked
<1>5. \A f \in Parts : \E acc \in Ledgers : Balanced(f, acc)'
  BY <1>4 DEF RowsInv
<1> QED BY <1>1, <1>2, <1>3, <1>5 DEF RowsInv

(* Reading the counters books what they show for the cycle under way.      *)
LEMMA RowsInvReadCpu ==
    ASSUME HostInv, DInv, RowsInv, Collect, ReadCpu PROVE RowsInv'
<1>1. /\ figure' = Utilization(previous, Counters) /\ previous' = Counters
      /\ stage = "host"
      /\ UNCHANGED <<cpu, lived, worked, cycle, requests, rows>>
  BY DEF Collect, ReadCpu, hostVars
<1>2. /\ cycle \in Cycles /\ cycle \in Nat
      /\ \A r \in requests : r.cycle \in Cycles
      /\ MaxCycles \in Nat
  BY <1>1, DeliveryAssumption DEF DInv, CycleInv, RequestInv, Cycles
<1>3. /\ cpu \in [busy : Nat, idle : Nat] /\ lived \in Nat /\ worked \in Nat
      /\ previous = None \/ previous \in Jiffies
  BY DEF HostInv, RowsInv
<1>4. ASSUME NEW f \in Parts PROVE \E acc \in Ledgers : Balanced(f, acc)'
  <2>1. PICK acc \in Ledgers : Balanced(f, acc)
    BY DEF RowsInv
  <2>2. PICK told \in Nat :
           /\ figure' = None => told = 0
           /\ figure' # None => /\ previous # None
                                /\ told = Counted(f) - Base(f)
                                /\ figure'[f] = told
    BY <1>1, <1>3, FigureIsDifference
  <2>3. /\ acc \in [0 .. MaxCycles -> Nat] /\ acc[0] = 0
        /\ \A m, n \in 0 .. MaxCycles : m <= n => acc[m] <= acc[n]
    BY DEF Ledgers
  <2>4. PICK new \in Ledgers :
           \A n \in 0 .. MaxCycles :
              new[n] = IF n < cycle THEN acc[n] ELSE acc[n] + told
    <3> DEFINE new == [n \in 0 .. MaxCycles |->
                          IF n < cycle THEN acc[n] ELSE acc[n] + told]
    <3>1. new \in [0 .. MaxCycles -> Nat]
      BY <2>2, <2>3
    <3>2. new[0] = 0
      BY <1>2, <2>3 DEF Cycles
    <3>3. \A m, n \in 0 .. MaxCycles : m <= n => new[m] <= new[n]
      BY <1>2, <2>2, <2>3
    <3>4. \A n \in 0 .. MaxCycles :
            new[n] = IF n < cycle THEN acc[n] ELSE acc[n] + told
      OBVIOUS
    <3> HIDE DEF new
    <3> QED BY <3>1, <3>2, <3>3, <3>4 DEF Ledgers
  <2>5. new[MaxCycles] = acc[MaxCycles] + told /\ acc[MaxCycles] \in Nat
    BY <1>2, <2>3, <2>4 DEF Cycles
  <2>6. \A n \in Cycles : acc[n] - acc[n - 1] <= new[n] - new[n - 1]
    <3> SUFFICES ASSUME NEW n \in Cycles
                 PROVE  acc[n] - acc[n - 1] <= new[n] - new[n - 1]
      OBVIOUS
    <3>1. n \in 0 .. MaxCycles /\ n - 1 \in 0 .. MaxCycles
      BY <1>2 DEF Cycles
    <3>2. acc[n] \in Nat /\ acc[n - 1] \in Nat
      BY <2>3, <3>1
    <3>3. /\ new[n] = IF n < cycle THEN acc[n] ELSE acc[n] + told
          /\ new[n - 1] = IF n - 1 < cycle THEN acc[n - 1] ELSE acc[n - 1] + told
      BY <2>4, <3>1
    <3> QED BY <1>2, <2>2, <3>1, <3>2, <3>3
  <2>7. told <= new[cycle] - new[cycle - 1]
    <3>1. cycle \in 0 .. MaxCycles /\ cycle - 1 \in 0 .. MaxCycles
          /\ cycle - 1 <= cycle
      BY <1>2 DEF Cycles
    <3>2. new[cycle] = acc[cycle] + told /\ new[cycle - 1] = acc[cycle - 1]
      BY <1>2, <2>4, <3>1
    <3>3. acc[cycle] \in Nat /\ acc[cycle - 1] \in Nat /\ acc[cycle - 1] <= acc[cycle]
      BY <2>3, <3>1
    <3> QED BY <2>2, <3>2, <3>3
  <2>8. \A n \in Cycles : /\ acc[n] \in Nat /\ acc[n - 1] \in Nat
                          /\ new[n] \in Nat /\ new[n - 1] \in Nat
    <3>1. \A n \in Cycles : n \in 0 .. MaxCycles /\ n - 1 \in 0 .. MaxCycles
      BY <1>2 DEF Cycles
    <3>2. new \in [0 .. MaxCycles -> Nat]
      BY <2>4 DEF Ledgers
    <3> QED BY <2>3, <3>1, <3>2
  <2>9. ASSUME NEW u, NEW n \in Cycles, Booked(u, f, n, acc)
        PROVE  Booked(u, f, n, new)
    <3> SUFFICES ASSUME u # None
                 PROVE  u[f] \in Nat /\ u[f] <= new[n] - new[n - 1]
      BY DEF Booked
    <3>1. u[f] \in Nat /\ u[f] <= acc[n] - acc[n - 1]
      BY <2>9 DEF Booked
    <3> QED BY <2>6, <2>8, <3>1
  <2>10. acc[MaxCycles] <= Passed(f)
         /\ (previous # None
               => acc[MaxCycles] + (Counted(f) - Base(f)) <= Passed(f))
    BY <2>1 DEF Balanced
  <2>11. new[MaxCycles] <= Passed(f)
    <3>1. CASE figure' = None
      <4>1. told = 0
        BY <2>2, <3>1
      <4> QED BY <2>5, <2>10, <4>1
    <3>2. CASE figure' # None
      BY <2>2, <2>5, <2>10, <3>2
    <3> QED BY <3>1, <3>2
  <2>12. Passed(f)' = Passed(f) /\ Counted(f)' = Counted(f)
         /\ Base(f)' = Counted(f) /\ Counted(f) \in Nat /\ Passed(f) \in Nat
    <3>1. /\ Counters.total = cpu.busy + cpu.idle /\ Counters.idle = cpu.idle
          /\ cpu.busy \in Nat /\ cpu.idle \in Nat
      BY <1>3 DEF Counters
    <3>2. cpu.busy + cpu.idle - cpu.idle = cpu.busy
      BY <3>1
    <3>3. Base(f)' = Counted(f)
      BY <1>1, <3>1, <3>2 DEF Base, Counted
    <3>4. Passed(f)' = Passed(f) /\ Counted(f)' = Counted(f)
      BY <1>1 DEF Passed, Counted
    <3> QED BY <1>3, <3>1, <3>3, <3>4 DEF Passed, Counted
  <2>13. new[MaxCycles] + (Counted(f)' - Base(f)') <= Passed(f)'
    BY <2>2, <2>5, <2>11, <2>12
  <2>14. /\ \A n \in Cycles : Booked(rows[n], f, n, new)
         /\ \A r \in requests : Booked(r.row, f, r.cycle, new)
    BY <1>2, <2>1, <2>9 DEF Balanced
  <2>15. Booked(figure', f, cycle, new)
    BY <2>2, <2>7 DEF Booked
  <2>16. Balanced(f, new)'
    BY <1>1, <2>11, <2>12, <2>13, <2>14, <2>15 DEF Balanced, Booked
  <2> QED BY <2>4, <2>16
<1>5. lived' \in Nat /\ worked' \in Nat /\ DOMAIN rows' = Cycles
      /\ (cycle' = 0 => figure' = None)
  BY <1>1, <1>2 DEF RowsInv, Cycles
<1> QED BY <1>4, <1>5 DEF RowsInv

(* A step of the delivery leaves the ledgers as they are.                  *)
LEMMA RowsInvDelivers ==
    ASSUME HostInv, DInv, RowsInv,
           UNCHANGED <<cpu, lived, worked, previous, cycle>>,
           figure' = figure \/ figure' = None,
           \A r \in requests' : r \in requests \/ r.row = None
                                  \/ (r.cycle = cycle /\ cycle # 0 /\ r.row = figure),
           DOMAIN rows' = Cycles,
           \A n \in Cycles : \/ rows'[n] = rows[n]
                             \/ \E r \in requests : n = r.cycle /\ rows'[n] = r.row
    PROVE  RowsInv'
<1>1. ASSUME NEW f \in Parts, NEW acc \in Ledgers, Balanced(f, acc)
      PROVE  Balanced(f, acc)'
  <2>1. /\ acc[MaxCycles] <= Passed(f)'
        /\ previous' # None
              => acc[MaxCycles] + (Counted(f)' - Base(f)') <= Passed(f)'
    BY <1>1 DEF Balanced, Passed, Counted, Base
  <2>2. \A n \in Cycles : Booked(rows'[n], f, n, acc)
    BY <1>1 DEF Balanced
  <2>3. \A r \in requests' : Booked(r.row, f, r.cycle, acc)
    BY <1>1 DEF Balanced, Booked
  <2>4. cycle' # 0 => Booked(figure', f, cycle, acc)
    BY <1>1 DEF Balanced, Booked
  <2> QED BY <2>1, <2>2, <2>3, <2>4 DEF Balanced, Booked
<1>2. \A f \in Parts : \E acc \in Ledgers : Balanced(f, acc)'
  BY <1>1 DEF RowsInv
<1> QED BY <1>2 DEF RowsInv

LEMMA RowsInvStep == HostInv /\ DInv /\ RowsInv /\ [Next]_vars => RowsInv'
<1> SUFFICES ASSUME HostInv, DInv, RowsInv, [Next]_vars PROVE RowsInv'
  OBVIOUS
<1> USE DEF hostVars, collectorVars
<1>1. CASE BeginCycle
  BY <1>1, RowsInvBeginCycle
<1>2. CASE Collect
  <2>1. CASE ReadCpu
    BY <1>2, <2>1, RowsInvReadCpu
  <2>2. CASE ReadRest \/ CollectFails
    BY <1>2, <2>2, RowsInvDelivers DEF Collect, ReadRest, CollectFails, RowsInv
  <2> QED BY <1>2, <2>1, <2>2 DEF Collect, CollectStep
<1>3. ASSUME NEW s \in Sinks, Send(s) PROVE RowsInv'
  <2>1. /\ UNCHANGED <<hostVars, collectorVars, cycle, rows>>
        /\ requests' = requests \cup {Request(s)} /\ stage = s
    BY <1>3 DEF Send
  <2>2. Request(s).cycle = cycle /\ (Request(s).row = figure \/ Request(s).row = None)
    BY DEF Request
  <2>3. cycle # 0
    BY <2>1 DEF DInv, CycleInv, Sinks
  <2> QED BY <2>1, <2>2, <2>3, RowsInvDelivers DEF RowsInv
<1>4. ASSUME NEW s \in Sinks, RefuseOversized(s) \/ TimeOut(s) PROVE RowsInv'
  BY <1>4, RowsInvDelivers DEF RefuseOversized, TimeOut, RowsInv
<1>5. ASSUME NEW r \in requests, Apply(r) \/ ApplyUnheard(r) PROVE RowsInv'
  <2>1. /\ UNCHANGED <<hostVars, collectorVars, cycle>>
        /\ requests' = requests \ {r}
        /\ rows' = rows \/ rows' = [rows EXCEPT ![r.cycle] = r.row]
    BY <1>5 DEF Apply, ApplyUnheard, Deliver
  <2>2. DOMAIN rows = Cycles
    BY DEF RowsInv
  <2>3. DOMAIN rows' = Cycles
        /\ \A n \in Cycles : rows'[n] = rows[n] \/ (n = r.cycle /\ rows'[n] = r.row)
    BY <2>1, <2>2
  <2> QED BY <2>1, <2>3, RowsInvDelivers
<1>6. ASSUME NEW r \in requests, Reject(r) PROVE RowsInv'
  BY <1>6, RowsInvDelivers DEF Reject, RowsInv
<1>7. CASE UNCHANGED vars
  BY <1>7, RowsInvDelivers DEF vars, deliveryVars, RowsInv
<1> QED BY <1>1, <1>2, <1>3, <1>4, <1>5, <1>6, <1>7 DEF Next

Told == {n \in Cycles : rows[n] # None}

(* What the rows tell of is apart in the ledger, and so adds up to no more *)
(* than passed.                                                            *)
LEMMA RowsSumFits ==
    ASSUME RowsInv, NEW f \in Parts, NEW w, \A n \in Told : w[n] = rows[n][f]
    PROVE  /\ IsFiniteSet(Told) /\ \A n \in Told : w[n] \in Nat
           /\ \A g : SumsUp(g, w, Told) => g[Told] <= Passed(f)
<1> DEFINE S == Told
<1>0. \A n \in S : n \in Cycles /\ rows[n] # None /\ w[n] = rows[n][f]
  BY DEF Told
<1>1. PICK acc \in Ledgers : Balanced(f, acc)
  BY DEF RowsInv
<1> HIDE DEF S
<1> DEFINE part == [n \in S |-> acc[n - 1] + 1 .. acc[n - 1] + w[n]]
<1>2. MaxCycles \in Nat /\ Passed(f) \in Nat
  BY DeliveryAssumption DEF RowsInv, Passed
<1>3. \A n \in 0 .. MaxCycles : acc[n] \in Nat
      /\ \A m \in 0 .. MaxCycles : m <= n => acc[m] <= acc[n]
  BY DEF Ledgers
<1>4. \A n \in S : n \in 1 .. MaxCycles /\ n \in 0 .. MaxCycles
                     /\ n - 1 \in 0 .. MaxCycles /\ n \in Nat
  BY <1>0, <1>2 DEF Cycles
<1>5. ASSUME NEW n \in S
      PROVE  /\ w[n] \in Nat /\ w[n] <= acc[n] - acc[n - 1]
             /\ acc[n] \in Nat /\ acc[n - 1] \in Nat
             /\ acc[n] <= Passed(f)
  <2>1. n \in Cycles /\ rows[n] # None /\ w[n] = rows[n][f]
    BY <1>0
  <2>2. Booked(rows[n], f, n, acc) /\ acc[MaxCycles] <= Passed(f)
    BY <1>1, <2>1 DEF Balanced
  <2>3. w[n] \in Nat /\ w[n] <= acc[n] - acc[n - 1]
    BY <2>1, <2>2 DEF Booked
  <2>4. acc[n] <= acc[MaxCycles] /\ acc[MaxCycles] \in Nat
    BY <1>2, <1>3, <1>4
  <2> QED BY <1>2, <1>3, <1>4, <2>2, <2>3, <2>4
<1>6. IsFiniteSet(S)
  <2>1. IsFiniteSet(1 .. MaxCycles) /\ S \in SUBSET (1 .. MaxCycles)
    BY <1>2, <1>4, FS_Interval
  <2> QED BY <2>1, FS_Subset
<1>7. ASSUME NEW n \in S
      PROVE  IsFiniteSet(part[n]) /\ w[n] = Cardinality(part[n])
  <2> DEFINE a == acc[n - 1] + 1
             b == acc[n - 1] + w[n]
  <2>1. a \in Int /\ b \in Int /\ (IF a > b THEN 0 ELSE b - a + 1) = w[n]
    BY <1>5
  <2>2. part[n] = a .. b
    OBVIOUS
  <2> HIDE DEF a, b, part
  <2>3. IsFiniteSet(a .. b) /\ Cardinality(a .. b) = IF a > b THEN 0 ELSE b - a + 1
    BY <2>1, FS_Interval
  <2> QED BY <2>1, <2>2, <2>3
<1>8. \A m, n \in S : m < n => part[m] \cap part[n] = {}
  <2> SUFFICES ASSUME NEW m \in S, NEW n \in S, m < n,
                      NEW x \in part[m], x \in part[n]
               PROVE  FALSE
    OBVIOUS
  <2>1. acc[m] <= acc[n - 1]
    <3>1. m <= n - 1
      BY <1>4
    <3> QED BY <1>3, <1>4, <3>1
  <2>2. /\ x \in Int /\ x <= acc[m - 1] + w[m] /\ x >= acc[n - 1] + 1
    OBVIOUS
  <2> QED BY <1>5, <2>1, <2>2
<1>9. Apart(part, S)
  <2>1. \A m, n \in S : m # n => m < n \/ n < m
    BY <1>4
  <2>2. \A m, n \in S : m # n => part[m] \cap part[n] = {}
    BY <1>8, <2>1
  <2> QED BY <1>6, <1>7, <2>2 DEF Apart
<1>10. Joined(part, S) \subseteq 1 .. Passed(f)
  <2> SUFFICES ASSUME NEW n \in S, NEW x \in part[n] PROVE x \in 1 .. Passed(f)
    BY DEF Joined
  <2>1. x \in Int /\ x >= acc[n - 1] + 1 /\ x <= acc[n - 1] + w[n]
    OBVIOUS
  <2> QED BY <1>2, <1>5, <2>1
<1>11. Cardinality(Joined(part, S)) <= Passed(f)
  <2>1. IsFiniteSet(1 .. Passed(f)) /\ Cardinality(1 .. Passed(f))
           = IF 1 > Passed(f) THEN 0 ELSE Passed(f) - 1 + 1
    BY <1>2, FS_Interval
  <2>2. Cardinality(1 .. Passed(f)) = Passed(f)
    BY <1>2, <2>1
  <2> QED BY <1>10, <2>1, <2>2, FS_Subset
<1> HIDE DEF part
<1>12. \A g : SumsUp(g, w, S) => g[S] = Cardinality(Joined(part, S))
  BY <1>7, <1>9, SumIsSize
<1> QED BY <1>5, <1>6, <1>11, <1>12 DEF S

(* Admin's rows never add up to more host time, or to more work, than      *)
(* there was (metrics.py, the CPU baseline; runner.py 190-217), for any    *)
(* number of cycles, resets, and reports lost, late or repeated.           *)
THEOREM RowsAreWithinHostTime == Spec => []RowsWithinHostTime
<1>1. RowsInv => RowsWithinHostTime
  <2> SUFFICES ASSUME RowsInv PROVE RowsWithinHostTime
    OBVIOUS
  <2> DEFINE S == Told
  <2>1. MapThenSumSet(LAMBDA n : rows[n].elapsed, S) <= lived
    <3> DEFINE w == [n \in S |-> rows[n].elapsed]
               Sums(g) == g = [s \in SUBSET S |->
                             IF s = {} THEN 0
                             ELSE rows[CHOOSE n \in s : TRUE].elapsed
                                     + g[s \ {CHOOSE n \in s : TRUE}]]
    <3>1. /\ \A n \in S : w[n] = rows[n]["elapsed"]
          /\ \A s \in SUBSET S : s # {} =>
                w[CHOOSE n \in s : TRUE] = rows[CHOOSE n \in s : TRUE].elapsed
      OBVIOUS
    <3> HIDE DEF w
    <3>2. ASSUME NEW g PROVE Sums(g) <=> SumsUp(g, w, S)
      BY <3>1 DEF SumsUp
    <3> HIDE DEF Sums
    <3>3. /\ IsFiniteSet(S) /\ \A n \in S : w[n] \in Nat
          /\ \A g : SumsUp(g, w, S) => g[S] <= lived
      <4>1. "elapsed" \in Parts /\ Passed("elapsed") = lived
        BY DEF Parts, Passed
      <4>2. /\ IsFiniteSet(Told) /\ \A n \in Told : w[n] \in Nat
            /\ \A g : SumsUp(g, w, Told) => g[Told] <= Passed("elapsed")
        BY <3>1, <4>1, RowsSumFits
      <4> QED BY <4>1, <4>2
    <3> HIDE DEF S
    <3>4. PICK h : Sums(h)
      <4>1. \E h : SumsUp(h, w, S)
        BY <3>3, SumExists
      <4> QED BY <3>2, <4>1
    <3>5. PICK g : Sums(g) /\ MapThenSumSet(LAMBDA n : rows[n].elapsed, S) = g[S]
      BY <3>4 DEF Sums, MapThenSumSet, MapThenFoldSet
    <3> QED BY <3>2, <3>3, <3>5
  <2>2. MapThenSumSet(LAMBDA n : rows[n].busy, S) <= worked
    <3> DEFINE w == [n \in S |-> rows[n].busy]
               Sums(g) == g = [s \in SUBSET S |->
                             IF s = {} THEN 0
                             ELSE rows[CHOOSE n \in s : TRUE].busy
                                     + g[s \ {CHOOSE n \in s : TRUE}]]
    <3>1. /\ \A n \in S : w[n] = rows[n]["busy"]
          /\ \A s \in SUBSET S : s # {} =>
                w[CHOOSE n \in s : TRUE] = rows[CHOOSE n \in s : TRUE].busy
      OBVIOUS
    <3> HIDE DEF w
    <3>2. ASSUME NEW g PROVE Sums(g) <=> SumsUp(g, w, S)
      BY <3>1 DEF SumsUp
    <3> HIDE DEF Sums
    <3>3. /\ IsFiniteSet(S) /\ \A n \in S : w[n] \in Nat
          /\ \A g : SumsUp(g, w, S) => g[S] <= worked
      <4>1. "busy" \in Parts /\ Passed("busy") = worked
        BY DEF Parts, Passed
      <4>2. /\ IsFiniteSet(Told) /\ \A n \in Told : w[n] \in Nat
            /\ \A g : SumsUp(g, w, Told) => g[Told] <= Passed("busy")
        BY <3>1, <4>1, RowsSumFits
      <4> QED BY <4>1, <4>2
    <3> HIDE DEF S
    <3>4. PICK h : Sums(h)
      <4>1. \E h : SumsUp(h, w, S)
        BY <3>3, SumExists
      <4> QED BY <3>2, <4>1
    <3>5. PICK g : Sums(g) /\ MapThenSumSet(LAMBDA n : rows[n].busy, S) = g[S]
      BY <3>4 DEF Sums, MapThenSumSet, MapThenFoldSet
    <3> QED BY <3>2, <3>3, <3>5
  <2> QED BY <2>1, <2>2 DEF RowsWithinHostTime, Told
<1> QED BY <1>1, HostInvInit, HostInvStep, DInvInit, DInvStep, RowsInvInit,
           RowsInvStep, PTL DEF Spec
=============================================================================
