------------------------- MODULE DriverRunner_proofs ------------------------
(***************************************************************************)
(* Proofs about the report loop: type correctness, the truth of every      *)
(* snapshot, that reads are of the cycle's containers, that the loop       *)
(* implements ReportedInventory, and that a CPU figure made between two    *)
(* boots stays within the capacity of the host, even where its samples     *)
(* belong to different runs or containers; for any set of URIs and sinks   *)
(* and any bounds.                                                         *)
(***************************************************************************)
EXTENDS DriverRunner, FiniteSetTheorems, TLAPS

(* A step that has a container in hand has the answer of its inspect.      *)
HandOK ==
    pc \in {"stats", "stats_read", "revision", "revision_read",
            "postmortem", "log_read"} => cur \in Uris /\ details \in Container

(* What TypeOK needs to be inductive.                                      *)
TypeInv == TypeOK /\ HandOK /\ IsFiniteSet(events)

-----------------------------------------------------------------------------
(* What the engine makes of a container is a container.                    *)
LEMMA FreshType ==
    ASSUME NEW n \in Nat PROVE Fresh(n) \in Container
BY DEF Fresh, Container, Never

LEMMA KilledType ==
    ASSUME NEW c \in Container, NEW stamp \in Nat,
           NEW oom \in BOOLEAN, NEW restart \in BOOLEAN
    PROVE  Killed(c, stamp, oom, restart) \in Container
<1>1. c.restarts + 1 \in Nat
  BY DEF Container
<1>2. CASE restart
  BY <1>1, <1>2 DEF Killed, Container
<1>3. CASE ~restart
  BY <1>3 DEF Killed, Container
<1> QED BY <1>2, <1>3

LEMMA StartedType ==
    ASSUME NEW c \in Container, NEW n \in Nat
    PROVE  Started(c, n) \in Container
BY DEF Started, Container

(* The engine keeps its types, whichever of its steps is taken.            *)
LEMMA EngineStepType ==
    ASSUME EngineTypeOK, EngineNext
    PROVE  EngineTypeOK'
<1> USE NoneAssumption DEF EngineTypeOK
<1>1. ASSUME NEW u \in Uris, Create(u)
      PROVE  EngineTypeOK'
  <2>1. Fresh(births + 1) \in Container
    BY FreshType
  <2> QED BY <1>1, <2>1 DEF Create
<1>2. ASSUME NEW u \in Uris, NEW oom \in BOOLEAN, NEW restart \in BOOLEAN,
             Die(u, oom, restart)
      PROVE  EngineTypeOK'
  <2>1. engine[u] \in Container
    BY <1>2 DEF Die
  <2>2. Killed(engine[u], deaths + 1, oom, restart) \in Container
    BY <2>1, KilledType
  <2> QED BY <1>2, <2>2 DEF Die
<1>3. ASSUME NEW u \in Uris, AutoRestart(u)
      PROVE  EngineTypeOK'
  <2>1. engine[u] \in Container
    BY <1>3 DEF AutoRestart
  <2>2. Started(engine[u], engine[u].restarts) \in Container
    BY <2>1, StartedType DEF Container
  <2> QED BY <1>3, <2>2 DEF AutoRestart
<1>4. ASSUME NEW u \in Uris, ManualStart(u)
      PROVE  EngineTypeOK'
  <2>1. engine[u] \in Container
    BY <1>4 DEF ManualStart
  <2>2. Started(engine[u], 0) \in Container
    BY <2>1, StartedType
  <2> QED BY <1>4, <2>2 DEF ManualStart
<1>5. ASSUME NEW u \in Uris, Remove(u)
      PROVE  EngineTypeOK'
  BY <1>5 DEF Remove
<1>6. ASSUME NEW busy \in {{}} \cup {{u} : u \in Occupied}, Tick(busy)
      PROVE  EngineTypeOK'
  <2>1. \A u \in busy : u \in Uris /\ engine[u] \in Container
    BY DEF Occupied
  <2>2. \A u \in busy : [engine[u] EXCEPT !.cpu = @ + 1] \in Container
    BY <2>1 DEF Container
  <2>3. engine' \in [Uris -> Container \cup {None}]
    BY <1>6, <2>2 DEF Tick
  <2> QED BY <1>6, <2>3 DEF Tick
<1>7. CASE BootHost
  BY <1>7 DEF BootHost
<1> QED BY <1>1, <1>2, <1>3, <1>4, <1>5, <1>6, <1>7 DEF EngineNext

(* No step but the engine's touches the engine.                            *)
LEMMA EngineFixed == [Next]_vars => EngineStep \/ UNCHANGED engineVars
BY DEF Next, RunCycle, Query, Describe, DescribeNotFound, DescribeForeign,
    LeaveCycle, AbortCycle, CheckStats, ReadStats, Observe, CheckRevision,
    ReadRevision, Announce, CheckLog, ReadLog, FinishCollect, Publish,
    PublishRaises, FinishCycle, Arrive, Crash, Reboot, vars

(* A CPU figure is a pair of integers or None.                             *)
LEMMA CpuPercentType ==
    ASSUME NEW p \in Sample \cup {None}, NEW c \in Sample \cup {None}
    PROVE  CpuPercent(p, c) \in Figure \cup {None}
BY DEF CpuPercent, Sample, Figure

(* The kind of an event is one of the three the receivers know.            *)
LEMMA EventKindType ==
    ASSUME NEW p, NEW d PROVE EventKind(p, d) \in Kinds
BY DEF EventKind, Kinds

(* Leaving a frame leaves well-typed locals.                               *)
LEMMA DropFrameType ==
    ASSUME DropFrame
    PROVE  /\ todo' = {} /\ unsent' = {} /\ events' = {}
           /\ cur' = None /\ details' = None /\ stats' = None
           /\ observations' \in [Uris -> Observation \cup {None}]
           /\ during' \in [Uris -> SUBSET (Container \cup {None})]
           /\ IsFiniteSet(events')
BY FS_EmptySet DEF DropFrame, NoObservations

(* The inventory of the observations is one per URI.                       *)
LEMMA InventoryType ==
    ASSUME observations \in [Uris -> Observation \cup {None}]
    PROVE  Inventory \in Inventories
BY DEF Inventory, Observation, Inventories

(* What a cycle has to tell is a report.                                   *)
LEMMA SnapshotType ==
    ASSUME TypeOK, IsFiniteSet(events)
    PROVE  Snapshot \in Report
<1>1. ASSUME NEW f \in Stamps PROVE NewsOf(f) \in Nat
  <2>1. IsFiniteSet({e \in events : e.of.finished = f})
    BY FS_Subset
  <2> QED BY <2>1, FS_CardinalityType DEF NewsOf
<1>2. [f \in Stamps |-> NewsOf(f)] \in [Stamps -> Nat]
  BY <1>1
<1>3. Inventory \in Inventories
  BY InventoryType DEF TypeOK
<1> QED BY <1>2, <1>3 DEF Snapshot, Report

(* A receiver that takes a report has an inventory and counts its news.    *)
LEMMA TakeType ==
    ASSUME TypeOK, NEW s \in Sinks, NEW r \in Report, Take(s, r)
    PROVE  /\ view' \in [Sinks -> Inventories \cup {None}]
           /\ heard' \in [Sinks -> [Stamps -> Nat]]
<1>1. r.inventory \in Inventories /\ r.news \in [Stamps -> Nat]
  BY DEF Report
<1>2. view' \in [Sinks -> Inventories \cup {None}]
  BY <1>1 DEF Take, TypeOK
<1>3. [f \in Stamps |-> heard[s][f] + r.news[f]] \in [Stamps -> Nat]
  BY <1>1 DEF TypeOK
<1>4. heard' \in [Sinks -> [Stamps -> Nat]]
  BY <1>3 DEF Take, TypeOK
<1> QED BY <1>2, <1>4

(* A request that is left behind is a report.                              *)
LEMMA LeaveBehindType ==
    ASSUME TypeOK, IsFiniteSet(events), NEW s \in Sinks, LeaveBehind(s)
    PROVE  late' \in [Sinks -> [Slots -> Report \cup {None}]]
BY SnapshotType DEF LeaveBehind, TypeOK

(* The first state is well typed.                                          *)
LEMMA TypeInit == Init => TypeInv
<1> SUFFICES ASSUME Init PROVE TypeInv
  OBVIOUS
<1>1. EngineTypeOK
  BY DEF Init, EngineInit, EngineTypeOK
<1>2. IsFiniteSet(events)
  BY FS_EmptySet DEF Init
<1> QED BY <1>1, <1>2 DEF Init, TypeInv, TypeOK, HandOK, NoObservations

-----------------------------------------------------------------------------
(* What the steps between an inspect and the next container come to.       *)

(* A read goes on to its second request, or is over without one.           *)
MovesOn ==
    /\ \/ pc = "stats" /\ pc' \in {"stats_read", "revision"}
       \/ pc = "revision" /\ pc' = "revision_read"
       \/ pc = "postmortem" /\ pc' = "log_read"
    /\ UNCHANGED <<engineVars, localVars, baselines, unsent, view, late,
                   boundVars, historyVars>>

(* What a request by name gives: nothing, or something of the container    *)
(* that has the name.                                                      *)
OfHolder(id) == id = None \/ \E v \in Holders(cur) : id = engine[v].id

Before == IF baselines[cur] = None THEN None ELSE baselines[cur].stats

Observes(o) ==
    /\ pc \in {"revision", "revision_read"}
    /\ o.details = details /\ o.stats = stats
    /\ o.cpu = CpuPercent(Before, stats)
    /\ OfHolder(o.revision)
    /\ observations' = [observations EXCEPT ![cur] = o]
    /\ IF Detected(baselines[cur], details)
       THEN pc' = "postmortem" /\ UNCHANGED <<cur, details, stats>>
       ELSE pc' = "next" /\ cur' = None /\ details' = None /\ stats' = None
    /\ UNCHANGED <<engineVars, todo, events, baselines, unsent, view, late,
                   boundVars, historyVars>>

Announces(e) ==
    /\ pc \in {"postmortem", "log_read"}
    /\ e.uri = cur /\ e.of = details
    /\ e.kind = EventKind(baselines[cur], details)
    /\ OfHolder(e.logTail)
    /\ events' = events \cup {e}
    /\ pc' = "next" /\ cur' = None /\ details' = None /\ stats' = None
    /\ UNCHANGED <<engineVars, todo, observations, baselines, unsent, view,
                   late, boundVars, historyVars>>

LEMMA HolderType ==
    ASSUME TypeInv, NEW id, OfHolder(id)
    PROVE  id \in Nat \cup {None}
BY DEF TypeInv, TypeOK, EngineTypeOK, OfHolder, Holders, Namesakes, Container

LEMMA ObserveMakes ==
    ASSUME TypeInv, pc \in {"revision", "revision_read"},
           NEW revision, OfHolder(revision), Observe(revision)
    PROVE  \E o \in Observation : Observes(o)
<1>1. cur \in Uris /\ details \in Container
  BY DEF TypeInv, HandOK
<1>2. Before \in Sample \cup {None}
  BY <1>1 DEF Before, Baseline, TypeInv, TypeOK
<1>3. CpuPercent(Before, stats) \in Figure \cup {None}
  BY <1>2, CpuPercentType DEF TypeInv, TypeOK
<1>4. revision \in Nat \cup {None}
  BY HolderType
<1> DEFINE o == [details |-> details, stats |-> stats,
                 cpu |-> CpuPercent(Before, stats), revision |-> revision]
<1>5. o \in Observation
  BY <1>1, <1>3, <1>4 DEF Observation, TypeInv, TypeOK
<1>6. /\ o.details = details /\ o.stats = stats
      /\ o.cpu = CpuPercent(Before, stats) /\ o.revision = revision
  OBVIOUS
<1>7. observations' = [observations EXCEPT ![cur] = o]
  BY DEF Observe, Before
<1> HIDE DEF o
<1>8. Observes(o)
  BY <1>6, <1>7 DEF Observes, Observe
<1> QED BY <1>5, <1>8

LEMMA RevisionSteps ==
    ASSUME TypeInv, CheckRevision \/ ReadRevision
    PROVE  MovesOn \/ \E o \in Observation : Observes(o)
<1>1. OfHolder(None)
  BY DEF OfHolder
<1>2. CASE CheckRevision
  <2>1. pc = "revision" /\ (MovesOn \/ Observe(None))
    BY <1>2 DEF CheckRevision, MovesOn
  <2> QED BY <2>1, <1>1, ObserveMakes
<1>3. CASE ReadRevision
  <2>1. PICK revision \in {None} \cup {engine[v].id : v \in Holders(cur)} :
          Observe(revision)
    BY <1>3 DEF ReadRevision
  <2>2. OfHolder(revision)
    BY <2>1 DEF OfHolder
  <2>3. pc = "revision_read"
    BY <1>3 DEF ReadRevision
  <2> QED BY <2>1, <2>2, <2>3, ObserveMakes
<1> QED BY <1>2, <1>3

LEMMA AnnounceMakes ==
    ASSUME TypeInv, pc \in {"postmortem", "log_read"},
           NEW logTail, OfHolder(logTail), Announce(logTail)
    PROVE  \E e \in Event : Announces(e)
<1>1. cur \in Uris /\ details \in Container
  BY DEF TypeInv, HandOK
<1>2. logTail \in Nat \cup {None}
  BY HolderType
<1> DEFINE e == [kind |-> EventKind(baselines[cur], details), uri |-> cur,
                 of |-> details, logTail |-> logTail]
<1>3. e \in Event
  BY <1>1, <1>2, EventKindType DEF Event
<1>4. /\ e.kind = EventKind(baselines[cur], details) /\ e.uri = cur
      /\ e.of = details /\ e.logTail = logTail
  OBVIOUS
<1>5. events' = events \cup {e}
  BY DEF Announce
<1> HIDE DEF e
<1>6. Announces(e)
  BY <1>4, <1>5 DEF Announces, Announce
<1> QED BY <1>3, <1>6

LEMMA LogSteps ==
    ASSUME TypeInv, CheckLog \/ ReadLog
    PROVE  MovesOn \/ \E e \in Event : Announces(e)
<1>1. OfHolder(None)
  BY DEF OfHolder
<1>2. CASE CheckLog
  <2>1. pc = "postmortem" /\ (MovesOn \/ Announce(None))
    BY <1>2 DEF CheckLog, MovesOn
  <2> QED BY <2>1, <1>1, AnnounceMakes
<1>3. CASE ReadLog
  <2>1. PICK logTail \in {None} \cup {engine[v].id : v \in Holders(cur)} :
          Announce(logTail)
    BY <1>3 DEF ReadLog
  <2>2. OfHolder(logTail)
    BY <2>1 DEF OfHolder
  <2>3. pc = "log_read"
    BY <1>3 DEF ReadLog
  <2> QED BY <2>1, <2>2, <2>3, AnnounceMakes
<1> QED BY <1>2, <1>3

(* A stats read takes the counters of the container that has the name.     *)
LEMMA SampleTaken ==
    ASSUME TypeInv, ReadStats
    PROVE  /\ stats' \in Sample \cup {None}
           /\ stats' # None =>
                \E v \in Holders(cur) :
                   /\ engine[v] \in Container
                   /\ stats' = [id |-> engine[v].id, boot |-> boots,
                                total |-> engine[v].cpu, system |-> hostCpu]
<1>1. \A v \in Holders(cur) : engine[v] \in Container
  BY DEF TypeInv, TypeOK, EngineTypeOK, Holders, Namesakes
<1>2. ASSUME NEW v \in Holders(cur)
      PROVE  [id |-> engine[v].id, boot |-> boots, total |-> engine[v].cpu,
              system |-> hostCpu] \in Sample
  BY <1>1 DEF Sample, Container, TypeInv, TypeOK, EngineTypeOK
<1> QED BY <1>1, <1>2 DEF ReadStats

(* The steps of the loop, in the form the proofs take them.                *)
LEMMA Steps ==
    ASSUME TypeInv, [Next]_vars
    PROVE  \/ EngineStep
           \/ Query
           \/ \E u \in Uris : Describe(u) \/ DescribeNotFound(u)
           \/ LeaveCycle /\ faults' \in Nat
           \/ MovesOn
           \/ ReadStats
           \/ \E o \in Observation : Observes(o)
           \/ \E e \in Event : Announces(e)
           \/ FinishCollect
           \/ \E s \in Sinks : Publish(s) \/ PublishRaises(s)
           \/ \E s \in Sinks, i \in Slots : Arrive(s, i)
           \/ Crash
           \/ Reboot
           \/ UNCHANGED vars
<1>1. ASSUME AbortCycle \/ FinishCycle \/ \E u \in Uris : DescribeForeign(u)
      PROVE  LeaveCycle /\ faults' \in Nat
  BY <1>1 DEF AbortCycle, FinishCycle, DescribeForeign, TypeInv, TypeOK
<1>2. CheckStats => MovesOn
  BY DEF CheckStats, MovesOn
<1>3. CheckRevision \/ ReadRevision =>
         MovesOn \/ \E o \in Observation : Observes(o)
  BY RevisionSteps
<1>4. CheckLog \/ ReadLog => MovesOn \/ \E e \in Event : Announces(e)
  BY LogSteps
<1> QED BY <1>1, <1>2, <1>3, <1>4 DEF Next, RunCycle

-----------------------------------------------------------------------------
(* Type correctness is preserved, one step per action.                     *)
LEMMA TypeNext == TypeInv /\ [Next]_vars => TypeInv'
<1> SUFFICES ASSUME TypeInv, [Next]_vars PROVE TypeInv'
  OBVIOUS
<1> USE DEF TypeInv, TypeOK, HandOK
<1> USE DEF EngineTypeOK
<1>1. CASE EngineStep
  <2>1. EngineTypeOK'
    BY <1>1, EngineStepType DEF EngineStep
  <2>2. during' \in [Uris -> SUBSET (Container \cup {None})]
    BY <1>1, <2>1 DEF EngineStep
  <2> QED BY <1>1, <2>1, <2>2 DEF EngineStep, localVars, boundVars
<1>2. CASE Query
  <2>1. during' \in [Uris -> SUBSET (Container \cup {None})]
    BY <1>2 DEF Query
  <2> QED BY <1>2, <2>1 DEF Query, engineVars, boundVars, Occupied
<1>3. ASSUME NEW u \in Uris, Describe(u)
      PROVE  TypeInv'
  BY <1>3, NoneAssumption DEF Describe, engineVars, boundVars, historyVars
<1>4. ASSUME NEW u \in Uris, DescribeNotFound(u)
      PROVE  TypeInv'
  BY <1>4 DEF DescribeNotFound, engineVars, boundVars, historyVars
<1>5. ASSUME LeaveCycle, faults' \in Nat
      PROVE  TypeInv'
  BY <1>5, DropFrameType DEF LeaveCycle, engineVars
<1>6. CASE MovesOn
  BY <1>6 DEF MovesOn, engineVars, localVars, boundVars, historyVars
<1>7. CASE ReadStats
  BY <1>7, SampleTaken DEF ReadStats, engineVars, boundVars, historyVars
<1>8. ASSUME NEW o \in Observation, Observes(o)
      PROVE  TypeInv'
  <2>1. observations' \in [Uris -> Observation \cup {None}]
    BY <1>8 DEF Observes
  <2> QED BY <1>8, <2>1 DEF Observes, engineVars, boundVars, historyVars
<1>9. ASSUME NEW e \in Event, Announces(e)
      PROVE  TypeInv'
  <2>1. events' \subseteq Event /\ IsFiniteSet(events')
    BY <1>9, FS_AddElement DEF Announces
  <2> QED BY <1>9, <2>1 DEF Announces, engineVars, boundVars, historyVars
<1>10. CASE FinishCollect
  <2>1. ASSUME NEW u \in Uris
        PROVE  BaselineOf(observations[u]) \in Baseline \cup {None}
    BY DEF BaselineOf, Observation, Container, Baseline
  <2>2. baselines' \in [Uris -> Baseline \cup {None}]
    BY <1>10, <2>1 DEF FinishCollect
  <2>3. prior' \in [Uris -> Container \cup {None}]
    BY <1>10, InventoryType DEF FinishCollect, Inventories
  <2> QED BY <1>10, <2>2, <2>3 DEF FinishCollect, engineVars, localVars,
             boundVars
<1>11. ASSUME NEW s \in Sinks, Publish(s)
       PROVE  TypeInv'
  BY <1>11, TakeType, SnapshotType DEF Publish, engineVars, localVars,
     boundVars
<1>12. ASSUME NEW s \in Sinks, PublishRaises(s)
       PROVE  TypeInv'
  <2>1. /\ view' \in [Sinks -> Inventories \cup {None}]
        /\ heard' \in [Sinks -> [Stamps -> Nat]]
    BY <1>12, TakeType, SnapshotType DEF PublishRaises
  <2>2. late' \in [Sinks -> [Slots -> Report \cup {None}]]
    BY <1>12, LeaveBehindType DEF PublishRaises
  <2> QED BY <1>12, <2>1, <2>2 DEF PublishRaises, engineVars, localVars,
             boundVars
<1>13. ASSUME NEW s \in Sinks, NEW i \in Slots, Arrive(s, i)
       PROVE  TypeInv'
  <2>1. late[s][i] \in Report
    BY <1>13 DEF Arrive
  <2>2. /\ view' \in [Sinks -> Inventories \cup {None}]
        /\ heard' \in [Sinks -> [Stamps -> Nat]]
    BY <1>13, <2>1, TakeType DEF Arrive
  <2>3. late' \in [Sinks -> [Slots -> Report \cup {None}]]
    BY <1>13 DEF Arrive
  <2> QED BY <1>13, <2>2, <2>3 DEF Arrive, engineVars, localVars, boundVars
<1>14. CASE Crash
  <2>1. late' \in [Sinks -> [Slots -> Report \cup {None}]]
    BY <1>14, LeaveBehindType DEF Crash
  <2> QED BY <1>14, <2>1, DropFrameType DEF Crash, engineVars
<1>15. CASE Reboot
  BY <1>15 DEF Reboot, engineVars, localVars, boundVars, historyVars
<1>16. CASE UNCHANGED vars
  BY <1>16 DEF vars, engineVars, runnerVars, localVars, boundVars, historyVars
<1> HIDE DEF TypeInv, TypeOK, HandOK, EngineTypeOK
<1> QED BY <1>1, <1>2, <1>3, <1>4, <1>5, <1>6, <1>7, <1>8, <1>9, <1>10,
           <1>11, <1>12, <1>13, <1>14, <1>15, <1>16, Steps

(* Every reachable state of the report loop is well typed.                 *)
THEOREM TypeCorrect == Spec => []TypeOK
<1>1. TypeInv => TypeOK
  BY DEF TypeInv
<1> QED BY <1>1, TypeInit, TypeNext, PTL DEF Spec

-----------------------------------------------------------------------------
(* SnapshotTruthful by itself is not inductive: it speaks of the end of a  *)
(* cycle and the history it refers to grows from its beginning.  While a   *)
(* cycle is open, what the engine holds has been recorded, what was        *)
(* observed was seen, and every URI is observed, still listed, in hand, or *)
(* was empty at some instant of the cycle.                                 *)
Recorded == CycleOpen => \A u \in Uris : engine[u] \in during[u]

Observed ==
    \A u \in Uris :
        observations[u] # None => observations[u].details \in during[u]

Inspected ==
    pc \in {"stats", "stats_read", "revision", "revision_read"}

InHand == Inspected => details \in during[cur]

Accounted ==
    CycleOpen =>
        \A u \in Uris :
            \/ observations[u] # None
            \/ u \in todo
            \/ Inspected /\ u = cur
            \/ None \in during[u]

NothingLeft == pc = "publish" => todo = {}

Blank == ~CycleOpen => observations = NoObservations

TruthInv ==
    /\ TypeInv
    /\ Recorded
    /\ Observed
    /\ InHand
    /\ Accounted
    /\ NothingLeft
    /\ Blank

LEMMA TruthInit == Init => TruthInv
BY TypeInit DEF Init, TruthInv, Recorded, Observed, InHand, Inspected,
    Accounted, NothingLeft, Blank, CycleOpen, Collecting, NoObservations

(* A snapshot on its way out tells the truth about every URI.              *)
LEMMA TruthImpliesTruthful == TruthInv => SnapshotTruthful
<1> SUFFICES ASSUME TruthInv, pc = "publish", NEW u \in Uris
             PROVE  Inventory[u] \in during[u]
  BY DEF SnapshotTruthful
<1> USE DEF TruthInv, Inventory
<1>1. CASE observations[u] = None
  BY <1>1 DEF Accounted, NothingLeft, CycleOpen, Inspected
<1>2. CASE observations[u] # None
  BY <1>2 DEF Observed
<1> QED BY <1>1, <1>2

LEMMA TruthNext == TruthInv /\ [Next]_vars => TruthInv'
<1> SUFFICES ASSUME TruthInv, [Next]_vars PROVE TruthInv'
  OBVIOUS
<1>0. TypeInv /\ TypeInv'
  BY TypeNext DEF TruthInv
<1> DEFINE Rest == Recorded /\ Observed /\ InHand /\ Accounted /\ NothingLeft
                     /\ Blank
<1> SUFFICES Rest'
  BY <1>0 DEF TruthInv
<1>00. Rest
  BY DEF TruthInv
<1> USE <1>0, <1>00 DEF TypeInv, TypeOK, HandOK
<1> USE DEF Recorded, Observed, InHand, Inspected, Accounted, NothingLeft,
            Blank, CycleOpen, Collecting
<1>1. CASE EngineStep
  <2>1. \A u \in Uris : during[u] \subseteq during'[u]
    BY <1>1 DEF EngineStep
  <2>2. CycleOpen => \A u \in Uris : engine'[u] \in during'[u]
    BY <1>1 DEF EngineStep
  <2>3. UNCHANGED <<pc, todo, cur, details, observations>>
    BY <1>1 DEF EngineStep, localVars
  <2> QED BY <2>1, <2>2, <2>3
<1>2. CASE Query
  <2>1. \A u \in Uris : u \in todo' \/ None \in during'[u]
    BY <1>2 DEF Query, Occupied
  <2>2. \A u \in Uris : observations'[u] = None
    BY <1>2 DEF Query, NoObservations
  <2> QED BY <1>2, <2>1, <2>2 DEF Query, engineVars
<1>3. ASSUME NEW u \in Uris, Describe(u)
      PROVE  Rest'
  BY <1>3 DEF Describe, engineVars, historyVars
<1>4. ASSUME NEW u \in Uris, DescribeNotFound(u)
      PROVE  Rest'
  BY <1>4 DEF DescribeNotFound, Holders, Namesakes, engineVars, historyVars
<1>5. CASE LeaveCycle
  BY <1>5 DEF LeaveCycle, DropFrame, NoObservations
<1>6. CASE MovesOn
  BY <1>6 DEF MovesOn, engineVars, localVars, historyVars
<1>7. CASE ReadStats
  BY <1>7 DEF ReadStats, engineVars, historyVars
<1>8. ASSUME NEW o \in Observation, Observes(o)
      PROVE  Rest'
  <2>1. UNCHANGED <<engine, todo, during>> /\ pc' \in {"next", "postmortem"}
    BY <1>8 DEF Observes, engineVars, historyVars
  <2>2. \A u \in Uris : u # cur => observations'[u] = observations[u]
    BY <1>8 DEF Observes
  <2>3. observations'[cur] # None /\ observations'[cur].details = details
    BY <1>8, NoneIsNoRecord DEF Observes
  <2> QED BY <2>1, <2>2, <2>3, <1>8 DEF Observes
<1>9. ASSUME NEW e \in Event, Announces(e)
      PROVE  Rest'
  BY <1>9 DEF Announces, engineVars, historyVars
<1>10. CASE FinishCollect
  BY <1>10 DEF FinishCollect, engineVars, localVars
<1>11. ASSUME NEW s \in Sinks, Publish(s) \/ PublishRaises(s)
       PROVE  Rest'
  BY <1>11 DEF Publish, PublishRaises, engineVars, localVars
<1>12. ASSUME NEW s \in Sinks, NEW i \in Slots, Arrive(s, i)
       PROVE  Rest'
  BY <1>12 DEF Arrive, engineVars, localVars
<1>13. CASE Crash
  BY <1>13 DEF Crash, DropFrame, NoObservations
<1>14. CASE Reboot
  BY <1>14 DEF Reboot, engineVars, localVars, historyVars, NoObservations
<1>15. CASE UNCHANGED vars
  BY <1>15 DEF vars, engineVars, runnerVars, localVars, historyVars
<1> HIDE DEF Rest, TypeInv
<1> QED BY <1>1, <1>2, <1>3, <1>4, <1>5, <1>6, <1>7, <1>8, <1>9, <1>10,
           <1>11, <1>12, <1>13, <1>14, <1>15, Steps

(* No snapshot misreports a URI: an omission is an absence that happened,  *)
(* an entry is a state that was, within the snapshot's own cycle.          *)
THEOREM SnapshotsTruthful == Spec => []SnapshotTruthful
BY TruthInit, TruthNext, TruthImpliesTruthful, PTL DEF Spec

-----------------------------------------------------------------------------
(* The engine's names are unique: of the addresses that end in one name,   *)
(* one at most has a container.                                            *)
OneHolder == \A u \in Uris : \A v, w \in Holders(u) : v = w

LEMMA HolderInit == Init => OneHolder
BY DEF Init, EngineInit, OneHolder, Holders, Namesakes

LEMMA HolderNext == TypeInv /\ OneHolder /\ [Next]_vars => OneHolder'
<1> SUFFICES ASSUME TypeInv, OneHolder, [Next]_vars PROVE OneHolder'
  OBVIOUS
<1> USE DEF OneHolder, Holders, Namesakes
<1>1. ASSUME \A u \in Uris : engine'[u] # None => engine[u] # None
      PROVE  OneHolder'
  BY <1>1
<1>2. CASE UNCHANGED engineVars
  BY <1>2, <1>1 DEF engineVars
<1>3. CASE EngineNext
  <2> USE DEF TypeInv, TypeOK, EngineTypeOK
  <2>1. ASSUME NEW u \in Uris, Create(u)
        PROVE  OneHolder'
    BY <2>1 DEF Create
  <2>2. ASSUME NEW u \in Uris, NEW oom \in BOOLEAN, NEW restart \in BOOLEAN,
               Die(u, oom, restart)
        PROVE  OneHolder'
    BY <2>2, <1>1 DEF Die
  <2>3. ASSUME NEW u \in Uris, AutoRestart(u) \/ ManualStart(u) \/ Remove(u)
        PROVE  OneHolder'
    BY <2>3, <1>1 DEF AutoRestart, ManualStart, Remove
  <2>4. ASSUME NEW busy \in {{}} \cup {{u} : u \in Occupied}, Tick(busy)
        PROVE  OneHolder'
    <3>1. \A u \in busy : engine[u] # None
      BY DEF Occupied
    <3> QED BY <2>4, <3>1, <1>1 DEF Tick
  <2>5. CASE BootHost
    BY <2>5, <1>1 DEF BootHost
  <2> QED BY <1>3, <2>1, <2>2, <2>3, <2>4, <2>5 DEF EngineNext
<1> QED BY <1>2, <1>3, EngineFixed DEF EngineStep

-----------------------------------------------------------------------------
(* Who has held an address during the open cycle, and what a request for   *)
(* the address's name can have read in it.                                 *)
Tenants(u) == {c.id : c \in during[u] \ {None}}

Readable(u, id) ==
    \/ id \in Tenants(u)
    \/ None \in during[u] /\ \E v \in Namesakes(u) : id \in Tenants(v)

(* What has been read by name, up to the sample in hand.                   *)
SamplesRead ==
    \A u \in Uris :
        observations[u] # None =>
            /\ observations[u].revision # None =>
                  Readable(u, observations[u].revision)
            /\ observations[u].stats # None =>
                  Readable(u, observations[u].stats.id)

LogsRead == \A e \in events : e.logTail # None => Readable(e.uri, e.logTail)

SampleInHand == Inspected /\ stats # None => Readable(cur, stats.id)

NoSampleYet == pc \in {"next", "stats", "stats_read"} => stats = None

NoEvents == ~CycleOpen => events = {} /\ stats = None

ReadsInv == SamplesRead /\ LogsRead /\ SampleInHand /\ NoSampleYet /\ NoEvents

LEMMA ReadsInit == Init => ReadsInv
BY DEF Init, ReadsInv, SamplesRead, LogsRead, SampleInHand, NoSampleYet,
    NoEvents, NoObservations, Inspected

(* Whoever has the name while a cycle is open is what can have been read:  *)
(* if it is at another address, then this one is vacant.                   *)
LEMMA HolderIsReadable ==
    ASSUME TruthInv, OneHolder, CycleOpen, NEW u \in Uris, NEW v \in Holders(u)
    PROVE  Readable(u, engine[v].id)
<1>1. v \in Uris /\ v \in Namesakes(u) /\ engine[v] # None
  BY DEF Holders, Namesakes
<1>2. engine[v].id \in Tenants(v)
  BY <1>1 DEF TruthInv, Recorded, Tenants
<1>3. CASE v = u
  BY <1>2, <1>3 DEF Readable
<1>4. CASE v # u
  <2>1. engine[u] = None
    BY <1>4 DEF OneHolder, Holders, Namesakes
  <2>2. None \in during[u]
    BY <2>1 DEF TruthInv, Recorded
  <2> QED BY <1>1, <1>2, <2>2 DEF Readable
<1> QED BY <1>3, <1>4

LEMMA ReadsNext ==
    TruthInv /\ OneHolder /\ ReadsInv /\ [Next]_vars => ReadsInv'
<1> SUFFICES ASSUME TruthInv, OneHolder, ReadsInv, [Next]_vars
             PROVE  ReadsInv'
  OBVIOUS
<1>0. TypeInv
  BY DEF TruthInv
<1>00. /\ \A e \in events : e.uri \in Uris
       /\ Inspected \/ pc \in {"postmortem", "log_read"} => cur \in Uris
  BY <1>0 DEF TypeInv, TypeOK, HandOK, Event, Inspected
<1>000. ASSUME UNCHANGED during
        PROVE  \A u, id : Readable(u, id)' <=> Readable(u, id)
  BY <1>000 DEF Readable, Tenants, Namesakes
<1> USE DEF ReadsInv, SamplesRead, LogsRead, SampleInHand, NoSampleYet,
            NoEvents, CycleOpen, Collecting, Inspected
<1>1. CASE EngineStep
  <2>1. UNCHANGED <<pc, cur, stats, observations, events>>
    BY <1>1 DEF EngineStep, localVars
  <2>2. \A u \in Uris : during[u] \subseteq during'[u]
    BY <1>1 DEF EngineStep
  <2>3. \A u \in Uris : Tenants(u) \subseteq Tenants(u)'
    BY <2>2 DEF Tenants
  <2>4. \A u \in Uris : \A id : Readable(u, id) => Readable(u, id)'
    BY <2>2, <2>3 DEF Readable, Namesakes
  <2> QED BY <2>1, <2>4, <1>00
<1>2. CASE Query
  <2>1. observations = NoObservations /\ events = {} /\ stats = None
    BY <1>2 DEF Query, TruthInv, Blank
  <2> QED BY <1>2, <2>1 DEF Query, NoObservations
<1>3. ASSUME NEW u \in Uris, Describe(u) \/ DescribeNotFound(u)
      PROVE  ReadsInv'
  BY <1>3, <1>000 DEF Describe, DescribeNotFound, historyVars
<1>4. CASE LeaveCycle \/ Crash
  BY <1>4 DEF LeaveCycle, Crash, DropFrame, NoObservations
<1>5. CASE MovesOn
  BY <1>5, <1>000 DEF MovesOn, localVars, historyVars
<1>6. CASE ReadStats
  <2>1. /\ pc = "stats_read" /\ pc' = "revision"
        /\ UNCHANGED <<cur, observations, events, during>>
    BY <1>6 DEF ReadStats, historyVars
  <2>2. stats' # None => \E v \in Holders(cur) : stats'.id = engine[v].id
    BY <1>6, <1>0, SampleTaken
  <2>3. stats' # None => Readable(cur, stats'.id)
    BY <2>1, <2>2, <1>00, HolderIsReadable
  <2>4. \A u, id : Readable(u, id)' <=> Readable(u, id)
    BY <2>1, <1>000
  <2>5. stats' # None => Readable(cur, stats.id)'
    BY <2>1, <2>3 DEF Readable, Tenants, Namesakes
  <2> QED BY <2>1, <2>4, <2>5
<1>7. ASSUME NEW o \in Observation, Observes(o)
      PROVE  ReadsInv'
  <2>1. /\ pc \in {"revision", "revision_read"}
        /\ pc' \in {"next", "postmortem"}
        /\ UNCHANGED <<events, during>>
        /\ pc' = "next" => stats' = None
        /\ o.stats = stats /\ OfHolder(o.revision)
    BY <1>7 DEF Observes, historyVars
  <2>2. o.revision # None => Readable(cur, o.revision)
    BY <2>1, <1>00, HolderIsReadable DEF OfHolder
  <2>3. o.stats # None => Readable(cur, o.stats.id)
    BY <2>1
  <2>4. \A u \in Uris : observations'[u] = IF u = cur THEN o ELSE observations[u]
    BY <1>0, <1>7 DEF TypeInv, TypeOK, Observes
  <2>5. \A u, id : Readable(u, id)' <=> Readable(u, id)
    BY <2>1, <1>000
  <2>6. SamplesRead'
    <3> SUFFICES ASSUME NEW u \in Uris, observations'[u] # None
                 PROVE  /\ observations'[u].revision # None =>
                             Readable(u, observations'[u].revision)
                        /\ observations'[u].stats # None =>
                             Readable(u, observations'[u].stats.id)
      BY <2>5
    <3> QED BY <2>2, <2>3, <2>4
  <2>7. LogsRead'
    BY <2>1, <2>5
  <2> QED BY <2>1, <2>6, <2>7
<1>8. ASSUME NEW e \in Event, Announces(e)
      PROVE  ReadsInv'
  <2>1. /\ pc \in {"postmortem", "log_read"} /\ pc' = "next" /\ stats' = None
        /\ UNCHANGED <<observations, during>>
        /\ events' = events \cup {e}
        /\ e.uri = cur /\ OfHolder(e.logTail)
    BY <1>8 DEF Announces, historyVars
  <2>2. e.logTail # None => Readable(e.uri, e.logTail)
    BY <2>1, <1>00, HolderIsReadable DEF OfHolder
  <2>3. \A u, id : Readable(u, id)' <=> Readable(u, id)
    BY <2>1, <1>000
  <2>4. SamplesRead'
    BY <2>1, <2>3
  <2>5. LogsRead'
    BY <2>1, <2>2, <2>3
  <2> QED BY <2>1, <2>4, <2>5
<1>9. CASE FinishCollect
  BY <1>9, <1>000 DEF FinishCollect, localVars
<1>10. ASSUME NEW s \in Sinks, Publish(s) \/ PublishRaises(s)
       PROVE  ReadsInv'
  BY <1>10, <1>000 DEF Publish, PublishRaises, localVars
<1>11. ASSUME NEW s \in Sinks, NEW i \in Slots, Arrive(s, i)
       PROVE  ReadsInv'
  BY <1>11, <1>000 DEF Arrive, localVars
<1>12. CASE Reboot
  BY <1>12, <1>000 DEF Reboot, localVars, historyVars
<1>13. CASE UNCHANGED vars
  BY <1>13, <1>000 DEF vars, runnerVars, localVars, historyVars
<1> HIDE DEF ReadsInv
<1> QED BY <1>0, <1>1, <1>2, <1>3, <1>4, <1>5, <1>6, <1>7, <1>8, <1>9, <1>10,
           <1>11, <1>12, <1>13, Steps

(* What a snapshot says of an address was read from a container that had   *)
(* its name during the snapshot's own cycle: its own tenant, or while it   *)
(* was vacant a namesake's, for a read inspects first and then asks by     *)
(* name (docker.py 187-210, 230-240, 276-290).                             *)
THEOREM ReadsAreOfThisCycle == Spec => []ReadsFromThisCycle
<1>1. ReadsInv => ReadsFromThisCycle
  BY DEF ReadsInv, SamplesRead, LogsRead, Readable, Tenants,
     ReadsFromThisCycle
<1>2. TruthInv => TypeInv
  BY DEF TruthInv
<1> QED BY <1>1, <1>2, TruthInit, TruthNext, HolderInit, HolderNext,
           ReadsInit, ReadsNext, PTL DEF Spec

-----------------------------------------------------------------------------
(* The report loop implements ReportedInventory: an engine step is a       *)
(* change of the world, the list request is a look, the end of a cycle, an *)
(* abort or a crash is a look away, a publish that a receiver takes is a   *)
(* truthful report, one left behind is given up, and every other step is   *)
(* invisible.                                                              *)
LEMMA SnapshotIsTruthful ==
    ASSUME TruthInv, pc = "publish"
    PROVE  /\ Inventory \in Reported!TruthfulReports
           /\ Inventory # None /\ Snapshot # None
           /\ Snapshot.inventory = Inventory
<1>1. TypeOK /\ IsFiniteSet(events) /\ Inventory \in Inventories
  BY InventoryType DEF TruthInv, TypeInv, TypeOK
<1>2. \A u \in Uris : Inventory[u] \in during[u]
  BY TruthImpliesTruthful DEF SnapshotTruthful
<1>3. Inventory \in Reported!TruthfulReports
  BY <1>1, <1>2 DEF Reported!TruthfulReports, Inventories
<1>4. Snapshot \in Report
  BY <1>1, SnapshotType
<1> QED BY <1>1, <1>3, <1>4, NoneIsNoRecord DEF Snapshot

LEMMA TakeReports ==
    ASSUME TruthInv, pc = "publish", NEW s \in Sinks, Take(s, Snapshot),
           UNCHANGED <<engine, during, late>>
    PROVE  Reported!Report(s)
<1>1. view' = [view EXCEPT ![s] = Inventory]
  BY SnapshotIsTruthful DEF Take
<1>2. UNCHANGED LateInventories
  BY DEF LateInventories
<1> QED BY <1>1, <1>2, SnapshotIsTruthful DEF Reported!Report

LEMMA LeaveBehindLeaves ==
    ASSUME TruthInv, pc = "publish", NEW s \in Sinks, LeaveBehind(s)
    PROVE  Reported!Leave(s)
<1>1. PICK i \in Slots : /\ late[s][i] = None
                         /\ late' = [late EXCEPT ![s][i] = Snapshot]
  BY DEF LeaveBehind
<1>2. late \in [Sinks -> [Slots -> Report \cup {None}]]
  BY DEF TruthInv, TypeInv, TypeOK
<1>3. LateInventories[s][i] = None
  BY <1>1 DEF LateInventories
<1>4. LateInventories' = [LateInventories EXCEPT ![s][i] = Inventory]
  <2>1. ASSUME NEW t \in Sinks, NEW j \in Slots
        PROVE  late'[t][j] = IF t = s /\ j = i THEN Snapshot ELSE late[t][j]
    BY <1>1, <1>2
  <2> DEFINE told(r) == IF r = None THEN None ELSE r.inventory
  <2>2. told(Snapshot) = Inventory
    BY SnapshotIsTruthful
  <2>3. LateInventories' = [t \in Sinks |-> [j \in Slots |-> told(late'[t][j])]]
    BY DEF LateInventories
  <2>4. LateInventories = [t \in Sinks |-> [j \in Slots |-> told(late[t][j])]]
    BY DEF LateInventories
  <2> HIDE DEF told
  <2> QED BY <2>1, <2>2, <2>3, <2>4
<1> QED BY <1>3, <1>4, SnapshotIsTruthful DEF Reported!Leave

LEMMA ArriveArrives ==
    ASSUME TypeOK, NEW s \in Sinks, NEW i \in Slots, Arrive(s, i),
           UNCHANGED <<engine, during>>
    PROVE  Reported!Arrive(s, i)
<1>1. /\ late \in [Sinks -> [Slots -> Report \cup {None}]]
      /\ late[s][i] # None
      /\ late' = [late EXCEPT ![s][i] = None]
  BY DEF TypeOK, Arrive
<1>2. late[s][i] \in Report
  BY <1>1
<1>3. /\ LateInventories[s][i] = late[s][i].inventory
      /\ LateInventories[s][i] # None
  BY <1>1, <1>2, NoneIsNoRecord DEF LateInventories, Report
<1>4. LateInventories' = [LateInventories EXCEPT ![s][i] = None]
  <2>1. ASSUME NEW t \in Sinks, NEW j \in Slots
        PROVE  late'[t][j] = IF t = s /\ j = i THEN None ELSE late[t][j]
    BY <1>1
  <2> DEFINE told(r) == IF r = None THEN None ELSE r.inventory
  <2>2. told(None) = None
    OBVIOUS
  <2>3. LateInventories' = [t \in Sinks |-> [j \in Slots |-> told(late'[t][j])]]
    BY DEF LateInventories
  <2>4. LateInventories = [t \in Sinks |-> [j \in Slots |-> told(late[t][j])]]
    BY DEF LateInventories
  <2> HIDE DEF told
  <2> QED BY <2>1, <2>2, <2>3, <2>4
<1>5. \/ view' = [view EXCEPT ![s] = LateInventories[s][i]]
      \/ UNCHANGED view
  BY <1>3 DEF Arrive, Take
<1> QED BY <1>3, <1>4, <1>5 DEF Reported!Arrive

LEMMA ReportedInit == Init => Reported!Init
BY DEF Init, EngineInit, LateInventories, Reported!Init

LEMMA ReportedNext ==
    TruthInv /\ TruthInv' /\ [Next]_vars => [Reported!Next]_(Reported!vars)
<1> SUFFICES ASSUME TruthInv, TruthInv', [Next]_vars
             PROVE  \/ Reported!Next
                    \/ UNCHANGED <<engine, during, view, LateInventories>>
  BY DEF Reported!vars
<1>0. TypeInv /\ TypeInv'
  BY DEF TruthInv
<1>00. UNCHANGED late => UNCHANGED LateInventories
  BY DEF LateInventories
<1>1. CASE EngineStep
  <2>1. DOMAIN engine' = Uris
    BY <1>0 DEF TypeInv, TypeOK, EngineTypeOK
  <2>2. Reported!Change(CycleOpen)
    BY <1>1, <2>1, <1>00 DEF EngineStep, Reported!Change
  <2>3. CycleOpen \in BOOLEAN
    BY DEF CycleOpen, Collecting
  <2> QED BY <2>2, <2>3 DEF Reported!Next
<1>2. CASE Query
  BY <1>2, <1>00 DEF Query, engineVars, Reported!Next, Reported!Look
<1>3. CASE LeaveCycle
  BY <1>3, <1>00 DEF LeaveCycle, DropFrame, engineVars, Reported!Next,
     Reported!LookAway
<1>4. CASE Crash
  <2>1. /\ UNCHANGED <<engine, view>>
        /\ during' = [u \in Uris |-> {}]
    BY <1>4 DEF Crash, DropFrame, engineVars
  <2>2. \/ UNCHANGED LateInventories
        \/ \E s \in Sinks : Reported!Leave(s)
    <3>1. CASE UNCHANGED late
      BY <3>1, <1>00
    <3>2. CASE pc = "publish" /\ \E s \in unsent : LeaveBehind(s)
      <4>1. PICK s \in unsent : LeaveBehind(s)
        BY <3>2
      <4>2. s \in Sinks
        BY <1>0 DEF TypeInv, TypeOK
      <4>3. Reported!Leave(s)
        BY <3>2, <4>1, <4>2, LeaveBehindLeaves
      <4> QED BY <4>2, <4>3
    <3> QED BY <1>4, <3>1, <3>2 DEF Crash
  <2> QED BY <2>1, <2>2 DEF Reported!Next, Reported!LookAway
<1>5. ASSUME NEW s \in Sinks, Publish(s) \/ PublishRaises(s)
      PROVE  \/ Reported!Next
             \/ UNCHANGED <<engine, during, view, LateInventories>>
  <2>1. pc = "publish" /\ UNCHANGED <<engine, during>>
    BY <1>5 DEF Publish, PublishRaises, engineVars
  <2>2. \/ Take(s, Snapshot) /\ UNCHANGED late
        \/ UNCHANGED view /\ LeaveBehind(s)
        \/ UNCHANGED <<view, late>>
    BY <1>5 DEF Publish, PublishRaises
  <2>3. CASE Take(s, Snapshot) /\ UNCHANGED late
    BY <2>1, <2>3, TakeReports DEF Reported!Next
  <2>4. CASE UNCHANGED view /\ LeaveBehind(s)
    BY <2>1, <2>4, LeaveBehindLeaves DEF Reported!Next, Reported!GiveUp
  <2>5. CASE UNCHANGED <<view, late>>
    BY <2>1, <2>5, <1>00
  <2> QED BY <2>2, <2>3, <2>4, <2>5
<1>6. ASSUME NEW s \in Sinks, NEW i \in Slots, Arrive(s, i)
      PROVE  Reported!Next
  <2>1. UNCHANGED <<engine, during>>
    BY <1>6 DEF Arrive, engineVars
  <2> QED BY <1>0, <1>6, <2>1, ArriveArrives DEF Reported!Next, TypeInv
<1>7. ASSUME NEW u \in Uris, Describe(u) \/ DescribeNotFound(u)
      PROVE  UNCHANGED <<engine, during, view, LateInventories>>
  BY <1>7, <1>00 DEF Describe, DescribeNotFound, engineVars, historyVars
<1>8. CASE MovesOn \/ ReadStats \/ FinishCollect \/ Reboot
  BY <1>8, <1>00 DEF MovesOn, ReadStats, FinishCollect, Reboot, engineVars,
     historyVars
<1>9. ASSUME NEW o \in Observation, Observes(o)
      PROVE  UNCHANGED <<engine, during, view, LateInventories>>
  BY <1>9, <1>00 DEF Observes, engineVars, historyVars
<1>10. ASSUME NEW e \in Event, Announces(e)
       PROVE  UNCHANGED <<engine, during, view, LateInventories>>
  BY <1>10, <1>00 DEF Announces, engineVars, historyVars
<1>11. CASE UNCHANGED vars
  BY <1>11, <1>00 DEF vars, engineVars, runnerVars, historyVars
<1> QED BY <1>0, <1>1, <1>2, <1>3, <1>4, <1>5, <1>6, <1>7, <1>8, <1>9, <1>10,
           <1>11, Steps

(* What the receivers hold moves only by whole reports, each entry and     *)
(* each omission of which was true since the reporter began to look; one   *)
(* whose publish raised, or was cut off, may be taken at any later time.   *)
THEOREM LoopImplementsReports == Spec => ReportsAreTruthful
BY TruthInit, TruthNext, ReportedInit, ReportedNext, PTL
   DEF Spec, ReportsAreTruthful, Reported!Spec

-----------------------------------------------------------------------------
(* CPU figures.                                                            *)

(* Since sample s was taken for u, if in this run of the host, no more CPU *)
(* time went to whatever has the name now than passed on the host.         *)
Fits(s, u) ==
    /\ s.boot <= boots
    /\ s.boot = boots =>
         /\ s.system <= hostCpu
         /\ \A v \in Holders(u) : engine[v].cpu - s.total <= hostCpu - s.system

(* The same between two samples.                                           *)
FitsSample(s, t) ==
    s.boot = t.boot => t.total - s.total <= t.system - s.system

BaselinesFit ==
    \A u \in Uris : (baselines[u] # None /\ baselines[u].stats # None)
                        => Fits(baselines[u].stats, u)

ObservationsFit ==
    \A u \in Uris : (observations[u] # None /\ observations[u].stats # None)
                        => Fits(observations[u].stats, u)

HandFits ==
    (pc \in {"revision", "revision_read"} /\ stats # None) =>
        /\ Fits(stats, cur)
        /\ Before # None => FitsSample(Before, stats)

CpuInv ==
    /\ BaselinesFit
    /\ ObservationsFit
    /\ HandFits
    /\ CpuWithinCapacity

-----------------------------------------------------------------------------
(* Two fitting samples of one run of the host make a figure within         *)
(* capacity, or none.                                                      *)
LEMMA FigureFits ==
    ASSUME NEW p \in Sample \cup {None}, NEW c \in Sample \cup {None},
           (p # None /\ c # None) => FitsSample(p, c),
           NEW f, f = CpuPercent(p, c), f # None, p.boot = c.boot
    PROVE  0 <= f.busy /\ f.busy <= f.elapsed /\ 0 < f.elapsed
BY DEF CpuPercent, FitsSample, Sample

(* The counters of a container restart from zero and grow by no more than  *)
(* the host's.                                                             *)
LEMMA EngineKeepsFits ==
    ASSUME EngineTypeOK, EngineNext
    PROVE  \A u \in Uris : \A s \in Sample : Fits(s, u) => Fits(s, u)'
<1> DEFINE Kept == \A u \in Uris : \A s \in Sample : Fits(s, u) => Fits(s, u)'
<1> SUFFICES Kept
  OBVIOUS
<1> USE DEF EngineTypeOK
<1>0. \A c \in Container : c.cpu \in Nat
  BY DEF Container
<1>1. ASSUME UNCHANGED <<hostCpu, boots>>,
             \A v \in Uris : engine'[v] # None =>
                 /\ engine'[v].cpu \in Nat
                 /\ \/ engine'[v].cpu = 0
                    \/ engine[v] # None /\ engine'[v].cpu = engine[v].cpu
      PROVE  Kept
  <2> SUFFICES ASSUME NEW u \in Uris, NEW s \in Sample, Fits(s, u),
                      s.boot = boots, NEW v \in Namesakes(u), engine'[v] # None
               PROVE  engine'[v].cpu - s.total <= hostCpu - s.system
    BY <1>1 DEF Fits, Holders, Namesakes
  <2>1. /\ s.system <= hostCpu /\ s.system \in Nat /\ s.total \in Nat
        /\ engine[v] # None => engine[v].cpu - s.total <= hostCpu - s.system
    BY DEF Fits, Sample, Holders
  <2>2. v \in Uris
    BY DEF Namesakes
  <2> QED BY <1>1, <2>1, <2>2
<1>2. ASSUME NEW v \in Uris, Create(v)
      PROVE  Kept
  <2>1. engine'[v].cpu = 0
    BY <1>2 DEF Create, Fresh
  <2>2. \A u \in Uris : u # v => engine'[u] = engine[u]
    BY <1>2 DEF Create
  <2>3. UNCHANGED <<hostCpu, boots>>
    BY <1>2 DEF Create
  <2> HIDE DEF Kept
  <2> QED BY <2>1, <2>2, <2>3, <1>0, <1>1
<1>3. ASSUME NEW v \in Uris, NEW oom \in BOOLEAN, NEW restart \in BOOLEAN,
             Die(v, oom, restart)
      PROVE  Kept
  <2>1. engine[v] \in Container
    BY <1>3 DEF Die
  <2>2. Killed(engine[v], deaths + 1, oom, restart).cpu = 0
    BY <2>1 DEF Killed, Container
  <2>3. engine'[v].cpu = 0
    BY <1>3, <2>2 DEF Die
  <2>4. \A u \in Uris : u # v => engine'[u] = engine[u]
    BY <1>3 DEF Die
  <2>5. UNCHANGED <<hostCpu, boots>>
    BY <1>3 DEF Die
  <2> HIDE DEF Kept
  <2> QED BY <2>3, <2>4, <2>5, <1>0, <1>1
<1>4. ASSUME NEW v \in Uris, AutoRestart(v) \/ ManualStart(v)
      PROVE  Kept
  <2>1. engine[v] \in Container
    BY <1>4 DEF AutoRestart, ManualStart
  <2>2. \A n : Started(engine[v], n).cpu = engine[v].cpu
    BY <2>1 DEF Started, Container
  <2>3. engine'[v].cpu = engine[v].cpu /\ engine[v] # None
    BY <1>4, <2>2 DEF AutoRestart, ManualStart
  <2>4. \A u \in Uris : u # v => engine'[u] = engine[u]
    BY <1>4 DEF AutoRestart, ManualStart
  <2>5. UNCHANGED <<hostCpu, boots>>
    BY <1>4 DEF AutoRestart, ManualStart
  <2> HIDE DEF Kept
  <2> QED BY <2>1, <2>3, <2>4, <2>5, <1>0, <1>1
<1>5. ASSUME NEW v \in Uris, Remove(v)
      PROVE  Kept
  <2>1. engine'[v] = None
    BY <1>5 DEF Remove
  <2>2. \A u \in Uris : u # v => engine'[u] = engine[u]
    BY <1>5 DEF Remove
  <2>3. UNCHANGED <<hostCpu, boots>>
    BY <1>5 DEF Remove
  <2> HIDE DEF Kept
  <2> QED BY <2>1, <2>2, <2>3, <1>0, <1>1
<1>6. ASSUME NEW busy \in {{}} \cup {{u} : u \in Occupied}, Tick(busy)
      PROVE  Kept
  <2>1. \A u \in busy : engine[u] \in Container
    BY DEF Occupied
  <2>2. \A u \in busy : [engine[u] EXCEPT !.cpu = @ + 1].cpu = engine[u].cpu + 1
    BY <2>1 DEF Container
  <2>3. \A u \in Uris :
          /\ engine'[u] # None => engine[u] # None
          /\ engine[u] # None => \/ engine'[u].cpu = engine[u].cpu + 1
                                 \/ engine'[u].cpu = engine[u].cpu
    BY <1>6, <2>1, <2>2, NoneAssumption DEF Tick
  <2>4. hostCpu' = hostCpu + 1 /\ UNCHANGED boots
    BY <1>6 DEF Tick
  <2> SUFFICES ASSUME NEW u \in Uris, NEW s \in Sample, Fits(s, u),
                      s.boot = boots
               PROVE  /\ s.system <= hostCpu'
                      /\ \A v \in Namesakes(u) : engine'[v] # None =>
                           engine'[v].cpu - s.total <= hostCpu' - s.system
    BY <2>4 DEF Fits, Holders, Namesakes
  <2>5. s.system <= hostCpu /\ s.system \in Nat /\ s.total \in Nat
    BY DEF Fits, Sample
  <2>6. ASSUME NEW v \in Namesakes(u), engine'[v] # None
        PROVE  engine'[v].cpu - s.total <= hostCpu' - s.system
    <3>1. v \in Uris /\ engine[v] # None
      BY <2>3, <2>6 DEF Namesakes
    <3>2. engine[v].cpu - s.total <= hostCpu - s.system
      BY <3>1, <2>6 DEF Fits, Holders
    <3>3. engine[v].cpu \in Nat
      BY <3>1, <1>0
    <3> QED BY <3>1, <3>2, <3>3, <2>3, <2>4, <2>5
  <2> QED BY <2>4, <2>5, <2>6
<1>7. CASE BootHost
  BY <1>7 DEF BootHost, Fits, Sample
<1> HIDE DEF Kept
<1> QED BY <1>2, <1>3, <1>4, <1>5, <1>6, <1>7 DEF EngineNext

LEMMA CpuInit == Init => CpuInv
BY DEF Init, CpuInv, BaselinesFit, ObservationsFit, HandFits,
    CpuWithinCapacity, NoObservations, Collecting

LEMMA CpuNext ==
    TruthInv /\ OneHolder /\ ReadsInv /\ CpuInv /\ [Next]_vars => CpuInv'
<1> SUFFICES ASSUME TruthInv, OneHolder, ReadsInv, CpuInv, [Next]_vars
             PROVE  CpuInv'
  OBVIOUS
<1> USE DEF CpuInv
<1>t. TypeInv
  BY DEF TruthInv
<1>0. /\ \A u \in Uris : baselines[u] # None =>
            baselines[u].stats \in Sample \cup {None}
      /\ \A u \in Uris : observations[u] # None =>
            observations[u].stats \in Sample \cup {None}
      /\ stats \in Sample \cup {None}
  BY <1>t DEF TypeInv, TypeOK, Baseline, Observation
<1>00. pc \in {"stats_read", "revision", "revision_read"} => cur \in Uris
  BY <1>t DEF TypeInv, HandOK
<1>000. ASSUME UNCHANGED engineVars
        PROVE  \A s, u : Fits(s, u)' <=> Fits(s, u)
  BY <1>000 DEF engineVars, Fits, Holders, Namesakes
<1> DEFINE Same == UNCHANGED <<engineVars, baselines, observations>>
<1>1. CASE EngineStep
  <2>1. \A u \in Uris : \A s \in Sample : Fits(s, u) => Fits(s, u)'
    BY <1>1, <1>t, EngineKeepsFits DEF EngineStep, TypeInv, TypeOK
  <2>2. UNCHANGED <<pc, cur, stats, observations, baselines>>
    BY <1>1 DEF EngineStep, localVars
  <2>3. BaselinesFit'
    BY <1>0, <2>1, <2>2 DEF BaselinesFit, Fits, Holders, Namesakes
  <2>4. ObservationsFit'
    BY <1>0, <2>1, <2>2 DEF ObservationsFit, Fits, Holders, Namesakes
  <2>5. HandFits'
    BY <1>0, <1>00, <2>1, <2>2
       DEF HandFits, Before, Fits, Holders, Namesakes, FitsSample
  <2> QED BY <2>2, <2>3, <2>4, <2>5 DEF CpuWithinCapacity, Collecting
<1>2. CASE ReadStats
  <2>1. /\ UNCHANGED <<engineVars, cur, observations, baselines>>
        /\ pc = "stats_read" /\ pc' = "revision"
    BY <1>2 DEF ReadStats
  <2>2. cur \in Uris
    BY <2>1, <1>00
  <2>3. BaselinesFit' /\ ObservationsFit' /\ CpuWithinCapacity'
    BY <2>1, <1>000 DEF BaselinesFit, ObservationsFit, CpuWithinCapacity,
       Collecting
  <2>4. HandFits'
    <3> SUFFICES ASSUME stats' # None
                 PROVE  /\ Fits(stats', cur)
                        /\ Before # None => FitsSample(Before, stats')
      BY <2>1, <1>000 DEF HandFits, Before, engineVars, Fits, Holders,
         Namesakes, FitsSample
    <3>1. PICK v \in Holders(cur) :
            /\ engine[v] \in Container
            /\ stats' = [id |-> engine[v].id, boot |-> boots,
                         total |-> engine[v].cpu, system |-> hostCpu]
      BY <1>2, <1>t, SampleTaken
    <3>2. /\ stats'.boot = boots /\ stats'.total = engine[v].cpu
          /\ stats'.system = hostCpu
      BY <3>1
    <3>3. engine[v].cpu \in Nat /\ hostCpu \in Nat /\ boots \in Nat
      BY <3>1, <1>t DEF Container, TypeInv, TypeOK, EngineTypeOK
    <3>4. \A w \in Holders(cur) : w = v
      BY <2>2 DEF OneHolder
    <3>5. Fits(stats', cur)
      BY <3>2, <3>3, <3>4 DEF Fits
    <3>6. ASSUME Before # None
          PROVE  FitsSample(Before, stats')
      <4>1. Fits(Before, cur)
        BY <2>2, <3>6 DEF BaselinesFit, Before
      <4> QED BY <3>2, <4>1 DEF Fits, FitsSample
    <3> QED BY <3>5, <3>6
  <2> QED BY <2>3, <2>4
<1>3. ASSUME NEW o \in Observation, Observes(o)
      PROVE  CpuInv'
  <2>1. /\ UNCHANGED <<engineVars, baselines>>
        /\ pc \in {"revision", "revision_read"}
        /\ pc' \in {"next", "postmortem"}
        /\ o.stats = stats /\ o.cpu = CpuPercent(Before, stats)
    BY <1>3 DEF Observes
  <2>2. cur \in Uris
    BY <2>1, <1>00
  <2>3. \A u \in Uris : observations'[u] = IF u = cur THEN o ELSE observations[u]
    BY <1>3, <2>2, <1>t DEF Observes, TypeInv, TypeOK
  <2>4. Before \in Sample \cup {None}
    BY <1>0, <2>2 DEF Before
  <2>5. (Before # None /\ stats # None) => FitsSample(Before, stats)
    BY <2>1 DEF HandFits
  <2>6. (o.cpu # None /\ Before.boot = stats.boot) =>
          0 <= o.cpu.busy /\ o.cpu.busy <= o.cpu.elapsed /\ 0 < o.cpu.elapsed
    BY <1>0, <2>1, <2>4, <2>5, FigureFits
  <2>7. o.cpu # None => Before = baselines[cur].stats
    BY <2>1 DEF CpuPercent, Before
  <2>8. CpuWithinCapacity'
    BY <2>1, <2>3, <2>6, <2>7 DEF CpuWithinCapacity, Collecting
  <2>9. stats # None => Fits(stats, cur)
    BY <2>1 DEF HandFits
  <2>10. \A s, u : Fits(s, u)' <=> Fits(s, u)
    BY <2>1, <1>000
  <2>11. ObservationsFit'
    <3> SUFFICES ASSUME NEW u \in Uris, observations'[u] # None,
                        observations'[u].stats # None
                 PROVE  Fits(observations'[u].stats, u)
      BY <2>1 DEF ObservationsFit, Fits, Holders, Namesakes, engineVars
    <3> QED BY <2>1, <2>3, <2>9 DEF ObservationsFit
  <2>12. BaselinesFit' /\ HandFits'
    BY <2>1, <2>10 DEF BaselinesFit, HandFits
  <2> QED BY <2>8, <2>11, <2>12
<1>4. CASE FinishCollect
  <2>1. /\ UNCHANGED <<engineVars, observations>>
        /\ pc' = "publish"
        /\ baselines' = [u \in Uris |-> BaselineOf(observations[u])]
    BY <1>4 DEF FinishCollect, localVars
  <2>2. \A u \in Uris : baselines'[u] # None =>
          observations[u] # None /\ baselines'[u].stats = observations[u].stats
    BY <2>1 DEF BaselineOf
  <2>3. BaselinesFit' /\ ObservationsFit'
    BY <2>1, <2>2 DEF BaselinesFit, ObservationsFit, Fits, Holders, Namesakes,
       engineVars
  <2> QED BY <2>1, <2>3 DEF HandFits, CpuWithinCapacity, Collecting
<1>5. CASE Query
  <2>1. observations = NoObservations
    BY <1>5 DEF Query, TruthInv, Blank, CycleOpen, Collecting
  <2>2. UNCHANGED <<engineVars, baselines, observations>> /\ pc' = "next"
    BY <1>5 DEF Query
  <2> QED BY <2>1, <2>2, <1>000 DEF NoObservations, BaselinesFit,
          ObservationsFit, HandFits, CpuWithinCapacity
<1>6. CASE LeaveCycle \/ Crash
  <2>1. /\ UNCHANGED engineVars /\ observations' = NoObservations
        /\ pc' \in {"idle", "down"}
        /\ UNCHANGED baselines \/ baselines' = [u \in Uris |-> None]
    BY <1>6 DEF LeaveCycle, Crash, DropFrame
  <2> QED BY <2>1, <1>000 DEF NoObservations, BaselinesFit, ObservationsFit,
          HandFits, CpuWithinCapacity
<1>7. ASSUME UNCHANGED <<engineVars, baselines, observations>>,
             Collecting' => Collecting,
             \/ pc' \notin {"revision", "revision_read"}
             \/ stats' = None
             \/ pc \in {"revision", "revision_read"} /\ UNCHANGED <<cur, stats>>
      PROVE  CpuInv'
  BY <1>7, <1>000 DEF BaselinesFit, ObservationsFit, HandFits, Before,
     CpuWithinCapacity, Fits, Holders, Namesakes, FitsSample
<1>8. CASE MovesOn
  <2>1. pc = "stats" => stats = None
    BY DEF ReadsInv, NoSampleYet
  <2> QED BY <1>8, <1>7, <2>1 DEF MovesOn, localVars, Collecting
<1>9. ASSUME NEW u \in Uris, Describe(u) \/ DescribeNotFound(u)
      PROVE  CpuInv'
  BY <1>9, <1>7 DEF Describe, DescribeNotFound, Collecting
<1>10. ASSUME NEW e \in Event, Announces(e)
       PROVE  CpuInv'
  BY <1>10, <1>7 DEF Announces, Collecting
<1>11. ASSUME NEW s \in Sinks, Publish(s) \/ PublishRaises(s)
       PROVE  CpuInv'
  BY <1>11, <1>7 DEF Publish, PublishRaises, localVars, Collecting
<1>12. ASSUME NEW s \in Sinks, NEW i \in Slots, Arrive(s, i)
       PROVE  CpuInv'
  BY <1>12, <1>7 DEF Arrive, localVars, Collecting
<1>13. CASE Reboot
  BY <1>13, <1>7 DEF Reboot, localVars, Collecting
<1>14. CASE UNCHANGED vars
  BY <1>14, <1>7 DEF vars, runnerVars, localVars, Collecting
<1> HIDE DEF CpuInv
<1> QED BY <1>t, <1>1, <1>2, <1>3, <1>4, <1>5, <1>6, <1>8, <1>9, <1>10,
           <1>11, <1>12, <1>13, <1>14, Steps

(* No CPU figure of two samples of one run of the host is negative or      *)
(* exceeds what the host had to give, through restarts of a container,     *)
(* changes of tenant and samples of another service's container.           *)
THEOREM CpuFiguresWithinCapacity == Spec => []CpuWithinCapacity
<1>1. CpuInv => CpuWithinCapacity
  BY DEF CpuInv
<1>2. TruthInv => TypeInv
  BY DEF TruthInv
<1> QED BY <1>1, <1>2, TruthInit, TruthNext, HolderInit, HolderNext,
           ReadsInit, ReadsNext, CpuInit, CpuNext, PTL DEF Spec
=============================================================================
