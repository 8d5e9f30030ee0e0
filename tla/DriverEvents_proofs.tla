------------------------- MODULE DriverEvents_proofs ------------------------
(***************************************************************************)
(* Proofs about lifecycle events, for any number of containers, deaths,    *)
(* aborted cycles and crashes.  An observed container is announced if and  *)
(* only if its FinishedAt is newer than that of the inspect its address's  *)
(* baseline was made from.  An announcement of OOM is told truly, and no   *)
(* receiver hears of one death twice.                                      *)
(*                                                                         *)
(* The code compares FinishedAt and RestartCount of two inspects of one    *)
(* address for difference and growth.  That this tells newer deaths rests  *)
(* on how the two fields move while the engine runs, whoever holds the     *)
(* address: Later states it, and Known carries it from the inspect that    *)
(* made the baseline to the inspect of this cycle.                         *)
(***************************************************************************)
EXTENDS DriverRunner_proofs

(* What any container c that holds an address after d was inspected there  *)
(* can look like: if c's last death is not after d's, nothing restarted c  *)
(* automatically since.                                                    *)
Later(c, d) ==
    /\ c.finished # Never => c.finished >= d.finished
    /\ c.finished <= d.finished => c.restarts <= d.restarts

(* An inspect answer d of u, against the engine as it is now.              *)
Known(d, u) ==
    /\ d.finished <= deaths
    /\ engine[u] # None => Later(engine[u], d)

InEvent == pc \in {"postmortem", "log_read"}

Holding == Inspected \/ InEvent

EngineDated == \A u \in Uris : engine[u] # None => engine[u].finished <= deaths

PriorKnown == \A u \in Uris : prior[u] # None => Known(prior[u], u)

ObservedKnown ==
    \A u \in Uris : observations[u] # None => Known(observations[u].details, u)

HandKnown ==
    Holding => /\ Known(details, cur)
               /\ prior[cur] # None => Later(details, prior[cur])

(* The baselines are what the prior inspects said of the two fields.       *)
BaselinesMatch ==
    \A u \in Uris :
        IF prior[u] = None THEN baselines[u] = None
        ELSE /\ baselines[u] # None
             /\ baselines[u].finished = prior[u].finished
             /\ baselines[u].restarts = prior[u].restarts

(* An URI is listed, in hand or observed, one after the other, and only an *)
(* observed one can have an event.                                         *)
OneAtATime ==
    /\ \A u \in todo : observations[u] = None
    /\ Holding => cur \notin todo
    /\ Inspected => observations[cur] = None
    /\ \A e \in events : observations[e.uri] # None
    /\ ~CycleOpen => events = {} /\ observations = NoObservations /\ todo = {}

(* Between the observation and its event.                                  *)
InPostmortem ==
    InEvent =>
        /\ observations[cur] # None
        /\ observations[cur].details = details
        /\ Detected(baselines[cur], details)
        /\ \A e \in events : e.uri # cur

EventInv ==
    /\ EngineDated
    /\ PriorKnown
    /\ ObservedKnown
    /\ HandKnown
    /\ BaselinesMatch
    /\ OneAtATime
    /\ InPostmortem
    /\ EventsTellNewerDeaths

-----------------------------------------------------------------------------
(* For details later than the prior ones the comparison of the code tells  *)
(* if their FinishedAt is newer.                                           *)
LEMMA DetectionTellsNewer ==
    ASSUME NEW p \in Container, NEW d \in Container, NEW b \in Baseline,
           b.finished = p.finished, b.restarts = p.restarts, Later(d, p)
    PROVE  Detected(b, d) <=> d.finished > p.finished
<1>1. b # None
  BY NoneIsNoRecord
<1>2. /\ d.finished \in Nat /\ p.finished \in Nat
      /\ d.restarts \in Nat /\ p.restarts \in Nat
  BY DEF Container
<1> QED BY <1>1, <1>2 DEF Detected, Died, Restarted, Later, Never

(* A container is later than its own inspect answer.                       *)
LEMMA LaterReflexive ==
    ASSUME NEW c \in Container PROVE Later(c, c)
BY DEF Later, Container

(* Whatever the engine does, inspect answers stay earlier than what holds  *)
(* the address.                                                            *)
LEMMA EngineKeepsKnown ==
    ASSUME EngineTypeOK, EngineNext, EngineDated
    PROVE  /\ EngineDated'
           /\ \A u \in Uris : \A d \in Container :
                 Known(d, u) => Known(d, u)'
<1> USE DEF EngineTypeOK
<1>0. \A c \in Container : c.finished \in Nat /\ c.restarts \in Nat
  BY DEF Container
<1>1. ASSUME NEW v \in Uris, Create(v)
      PROVE  EngineDated' /\ \A u \in Uris : \A d \in Container :
                                Known(d, u) => Known(d, u)'
  <2>1. /\ Fresh(births + 1).finished = 0
        /\ Fresh(births + 1).restarts = 0
    BY DEF Fresh, Never
  <2>2. engine'[v] = Fresh(births + 1) /\ deaths' = deaths
    BY <1>1 DEF Create
  <2>3. \A u \in Uris : u # v => engine'[u] = engine[u]
    BY <1>1 DEF Create
  <2> QED BY <1>0, <2>1, <2>2, <2>3 DEF EngineDated, Known, Later, Never
<1>2. ASSUME NEW v \in Uris, NEW oom \in BOOLEAN, NEW restart \in BOOLEAN,
             Die(v, oom, restart)
      PROVE  EngineDated' /\ \A u \in Uris : \A d \in Container :
                                Known(d, u) => Known(d, u)'
  <2>1. engine[v] \in Container
    BY <1>2 DEF Die
  <2>2. Killed(engine[v], deaths + 1, oom, restart).finished = deaths + 1
    BY <2>1 DEF Killed, Container
  <2>3. engine'[v].finished = deaths + 1 /\ deaths' = deaths + 1
    BY <1>2, <2>2 DEF Die
  <2>4. \A u \in Uris : u # v => engine'[u] = engine[u]
    BY <1>2 DEF Die
  <2>5. \A u \in Uris : engine[u] # None => engine[u].finished \in Nat
    BY <1>0
  <2> QED BY <1>0, <2>3, <2>4, <2>5 DEF EngineDated, Known, Later, Never
<1>3. ASSUME NEW v \in Uris, NEW n \in Nat, engine[v] # None,
             n <= engine[v].restarts,
             engine' = [engine EXCEPT ![v] = Started(@, n)],
             deaths' = deaths
      PROVE  EngineDated' /\ \A u \in Uris : \A d \in Container :
                                Known(d, u) => Known(d, u)'
  <2>1. engine[v] \in Container
    BY <1>3
  <2>2. /\ Started(engine[v], n).finished = engine[v].finished
        /\ Started(engine[v], n).restarts = n
    BY <2>1 DEF Started, Container
  <2>3. engine'[v] = Started(engine[v], n)
    BY <1>3
  <2>4. \A u \in Uris : u # v => engine'[u] = engine[u]
    BY <1>3
  <2> QED BY <1>0, <1>3, <2>1, <2>2, <2>3, <2>4
          DEF EngineDated, Known, Later, Never
<1>4. ASSUME NEW v \in Uris, AutoRestart(v) \/ ManualStart(v)
      PROVE  EngineDated' /\ \A u \in Uris : \A d \in Container :
                                Known(d, u) => Known(d, u)'
  <2>1. engine[v] \in Container
    BY <1>4 DEF AutoRestart, ManualStart
  <2>2. engine[v].restarts \in Nat
    BY <1>0, <2>1
  <2>3. CASE AutoRestart(v)
    <3>1. /\ engine[v] # None
          /\ engine' = [engine EXCEPT ![v] = Started(@, engine[v].restarts)]
          /\ deaths' = deaths
      BY <2>3 DEF AutoRestart
    <3>2. engine[v].restarts <= engine[v].restarts
      BY <2>2
    <3> QED BY ONLY <1>3, <2>2, <3>1, <3>2, v \in Uris
  <2>4. CASE ManualStart(v)
    <3>1. /\ engine[v] # None
          /\ engine' = [engine EXCEPT ![v] = Started(@, 0)]
          /\ deaths' = deaths
      BY <2>4 DEF ManualStart
    <3>2. 0 \in Nat /\ 0 <= engine[v].restarts
      BY <2>2
    <3> QED BY ONLY <1>3, <3>1, <3>2, v \in Uris
  <2> QED BY <1>4, <2>3, <2>4
<1>5. ASSUME NEW v \in Uris, Remove(v)
      PROVE  EngineDated' /\ \A u \in Uris : \A d \in Container :
                                Known(d, u) => Known(d, u)'
  <2>1. engine'[v] = None /\ deaths' = deaths
    BY <1>5 DEF Remove
  <2>2. \A u \in Uris : u # v => engine'[u] = engine[u]
    BY <1>5 DEF Remove
  <2> QED BY <2>1, <2>2 DEF EngineDated, Known
<1>6. ASSUME NEW busy \in {{}} \cup {{u} : u \in Occupied}, Tick(busy)
      PROVE  EngineDated' /\ \A u \in Uris : \A d \in Container :
                                Known(d, u) => Known(d, u)'
  <2>1. \A u \in busy : engine[u] \in Container
    BY DEF Occupied
  <2>2. \A u \in busy :
          /\ [engine[u] EXCEPT !.cpu = @ + 1].finished = engine[u].finished
          /\ [engine[u] EXCEPT !.cpu = @ + 1].restarts = engine[u].restarts
    BY <2>1 DEF Container
  <2>3. \A u \in Uris :
          /\ engine'[u] # None => engine[u] # None
          /\ engine[u] # None =>
                /\ engine'[u].finished = engine[u].finished
                /\ engine'[u].restarts = engine[u].restarts
    BY <1>6, <2>1, <2>2, NoneAssumption DEF Tick
  <2>4. deaths' = deaths
    BY <1>6 DEF Tick
  <2> QED BY <2>3, <2>4 DEF EngineDated, Known, Later
<1>7. CASE BootHost
  BY <1>7 DEF BootHost, EngineDated, Known
<1> QED BY <1>1, <1>2, <1>4, <1>5, <1>6, <1>7 DEF EngineNext

-----------------------------------------------------------------------------
LEMMA EventInit == Init => EventInv
BY DEF Init, EngineInit, EventInv, EngineDated, PriorKnown, ObservedKnown,
    HandKnown, BaselinesMatch, OneAtATime, InPostmortem, EventsTellNewerDeaths,
    Holding, Inspected, InEvent, CycleOpen, Collecting, NoObservations

(* A step that leaves engine, prior inspects and baselines alone leaves    *)
(* what is known of them alone.                                            *)
LEMMA EventEngineStep ==
    ASSUME TypeInv, EventInv, EngineStep PROVE EventInv'
<1>1. /\ EngineDated'
      /\ \A u \in Uris : \A d \in Container : Known(d, u) => Known(d, u)'
  BY EngineKeepsKnown DEF EngineStep, TypeInv, TypeOK, EventInv
<1>2. UNCHANGED <<pc, todo, cur, details, observations, events, baselines, prior>>
  BY DEF EngineStep, localVars
<1>3. PriorKnown'
  <2>1. \A u \in Uris : prior[u] # None => prior[u] \in Container
    BY DEF TypeInv, TypeOK
  <2> QED BY <1>1, <1>2, <2>1 DEF EventInv, PriorKnown, Known
<1>4. ObservedKnown'
  <2>1. \A u \in Uris :
          observations[u] # None => observations[u].details \in Container
    BY DEF TypeInv, TypeOK, Observation
  <2> QED BY <1>1, <1>2, <2>1 DEF EventInv, ObservedKnown, Known
<1>5. HandKnown'
  <2>1. Holding => cur \in Uris /\ details \in Container
    BY DEF TypeInv, HandOK, Holding, Inspected, InEvent
  <2> QED BY <1>1, <1>2, <2>1 DEF EventInv, HandKnown, Holding, Inspected,
       InEvent, Known
<1>6. BaselinesMatch' /\ OneAtATime' /\ InPostmortem' /\ EventsTellNewerDeaths'
  BY <1>2 DEF EventInv, BaselinesMatch, OneAtATime, InPostmortem, Holding,
     Inspected, InEvent, EventsTellNewerDeaths, CycleOpen, Collecting,
     Detected, Died, Restarted
<1> QED BY <1>1, <1>3, <1>4, <1>5, <1>6 DEF EventInv

LEMMA EventDescribe ==
    ASSUME TypeInv, EventInv, NEW u \in Uris, Describe(u) PROVE EventInv'
<1> USE DEF EventInv
<1>1. /\ UNCHANGED <<engine, deaths, observations, events, baselines, prior>>
      /\ pc = "next" /\ pc' = "stats" /\ u \in todo /\ todo' = todo \ {u}
      /\ cur' = u /\ details' = engine[u] /\ engine[u] # None
  BY DEF Describe, engineVars, historyVars
<1>2. engine[u] \in Container
  BY <1>1 DEF TypeInv, TypeOK, EngineTypeOK
<1>3. EngineDated' /\ PriorKnown' /\ ObservedKnown' /\ BaselinesMatch'
  BY <1>1 DEF EngineDated, PriorKnown, ObservedKnown, BaselinesMatch, Known
<1>4. HandKnown'
  <2>1. Later(engine[u], engine[u]) /\ engine[u].finished <= deaths
    BY <1>1, <1>2, LaterReflexive DEF EngineDated
  <2>2. prior[u] # None => Later(engine[u], prior[u])
    BY <1>1 DEF PriorKnown, Known
  <2> QED BY <1>1, <2>1, <2>2 DEF HandKnown, Known
<1>5. OneAtATime' /\ InPostmortem' /\ EventsTellNewerDeaths'
  BY <1>1 DEF OneAtATime, InPostmortem, EventsTellNewerDeaths, Holding,
     Inspected, InEvent, CycleOpen, Collecting, TypeInv, TypeOK
<1> QED BY <1>3, <1>4, <1>5

LEMMA EventObserves ==
    ASSUME TypeInv, EventInv, NEW o \in Observation, Observes(o)
    PROVE  EventInv'
<1> USE DEF EventInv
<1>1. /\ UNCHANGED <<engine, deaths, todo, events, baselines, prior>>
      /\ pc \in {"revision", "revision_read"}
      /\ pc' \in {"next", "postmortem"}
      /\ pc' = "postmortem" <=> Detected(baselines[cur], details)
      /\ pc' = "postmortem" => cur' = cur /\ details' = details
  BY DEF Observes, engineVars, historyVars
<1>t. Inspected /\ Holding /\ Collecting /\ CycleOpen
  BY <1>1 DEF Inspected, Holding, Collecting, CycleOpen
<1>2. cur \in Uris /\ details \in Container
  BY <1>1 DEF TypeInv, HandOK
<1>3. observations' = [observations EXCEPT ![cur] = o] /\ o.details = details
  BY DEF Observes
<1>4. /\ observations'[cur] = o /\ o # None
      /\ \A v \in Uris : v # cur => observations'[v] = observations[v]
  BY <1>2, <1>3, NoneIsNoRecord DEF TypeInv, TypeOK
<1>5. observations[cur] = None /\ \A e \in events : e.uri # cur
  BY <1>t, <1>2 DEF OneAtATime
<1>6. EngineDated' /\ PriorKnown' /\ BaselinesMatch'
  BY <1>1 DEF EngineDated, PriorKnown, BaselinesMatch, Known
<1>7. ObservedKnown'
  BY <1>1, <1>t, <1>2, <1>3, <1>4 DEF ObservedKnown, HandKnown, Known
<1>8. HandKnown'
  BY <1>1, <1>t DEF HandKnown, Holding, Inspected, InEvent, Known
<1>9. OneAtATime'
  <2>1. \A e \in events : e.uri \in Uris
    BY DEF TypeInv, TypeOK, Event
  <2> QED BY <1>1, <1>4, <1>5, <2>1 DEF OneAtATime, Holding, Inspected,
       InEvent, CycleOpen, Collecting, TypeInv, TypeOK
<1>10. InPostmortem'
  BY <1>1, <1>3, <1>4, <1>5
     DEF InPostmortem, InEvent, Detected, Died, Restarted
<1>11. pc' = "next" =>
          ~(prior[cur] # None /\ details.finished > prior[cur].finished)
  <2> SUFFICES ASSUME pc' = "next", prior[cur] # None
               PROVE  ~(details.finished > prior[cur].finished)
    OBVIOUS
  <2>1. prior[cur] \in Container /\ baselines[cur] \in Baseline
    BY <1>2 DEF TypeInv, TypeOK, BaselinesMatch
  <2>2. Later(details, prior[cur])
    BY <1>t DEF HandKnown
  <2>3. /\ baselines[cur].finished = prior[cur].finished
        /\ baselines[cur].restarts = prior[cur].restarts
    BY <1>2 DEF BaselinesMatch
  <2>4. ~Detected(baselines[cur], details)
    BY <1>1
  <2> QED BY <1>2, <2>1, <2>2, <2>3, <2>4, DetectionTellsNewer
<1>12. EventsTellNewerDeaths'
  <2> SUFFICES ASSUME NEW v \in Uris, observations'[v] # None,
                      ~(pc' \in {"postmortem", "log_read"} /\ v = cur')
               PROVE  (\E e \in events : e.uri = v)
                        <=> /\ prior[v] # None
                            /\ observations'[v].details.finished
                                 > prior[v].finished
    BY <1>1 DEF EventsTellNewerDeaths, Collecting
  <2>1. CASE v = cur
    BY <1>1, <1>3, <1>4, <1>5, <1>11, <2>1
  <2>2. CASE v # cur
    BY <1>1, <1>t, <1>4, <2>2 DEF EventsTellNewerDeaths
  <2> QED BY <2>1, <2>2
<1> QED BY <1>6, <1>7, <1>8, <1>9, <1>10, <1>12

LEMMA EventAnnounces ==
    ASSUME TypeInv, EventInv, NEW e0 \in Event, Announces(e0)
    PROVE  EventInv'
<1> USE DEF EventInv
<1>1. /\ UNCHANGED <<engine, deaths, todo, observations, baselines, prior>>
      /\ pc \in {"postmortem", "log_read"} /\ pc' = "next"
  BY DEF Announces, engineVars, historyVars
<1>t. InEvent /\ Holding /\ Collecting /\ CycleOpen
  BY <1>1 DEF InEvent, Holding, Collecting, CycleOpen
<1>2. cur \in Uris /\ details \in Container
  BY <1>1 DEF TypeInv, HandOK
<1>3. events' = events \cup {e0} /\ e0.uri = cur
  BY DEF Announces
<1>4. EngineDated' /\ PriorKnown' /\ ObservedKnown' /\ BaselinesMatch'
      /\ HandKnown' /\ InPostmortem'
  BY <1>1 DEF EngineDated, PriorKnown, ObservedKnown, BaselinesMatch, Known,
     HandKnown, Holding, Inspected, InEvent, InPostmortem
<1>5. OneAtATime'
  BY <1>1, <1>t, <1>3 DEF OneAtATime, InPostmortem, Holding, Inspected,
     InEvent, CycleOpen, Collecting
<1>6. /\ prior[cur] # None /\ details.finished > prior[cur].finished
      /\ observations[cur].details = details
  <2>1. baselines[cur] # None /\ Detected(baselines[cur], details)
        /\ observations[cur].details = details
    BY <1>t DEF InPostmortem, Detected
  <2>2. prior[cur] # None
    BY <1>2, <2>1 DEF BaselinesMatch
  <2>3. prior[cur] \in Container /\ baselines[cur] \in Baseline
    BY <1>2, <2>1, <2>2 DEF TypeInv, TypeOK
  <2>4. Later(details, prior[cur])
    BY <1>t, <2>2 DEF HandKnown
  <2>5. /\ baselines[cur].finished = prior[cur].finished
        /\ baselines[cur].restarts = prior[cur].restarts
    BY <1>2, <2>2 DEF BaselinesMatch
  <2> QED BY <1>2, <2>1, <2>2, <2>3, <2>4, <2>5, DetectionTellsNewer
<1>7. EventsTellNewerDeaths'
  <2> SUFFICES ASSUME NEW v \in Uris, observations[v] # None
               PROVE  (\E e \in events' : e.uri = v)
                        <=> /\ prior[v] # None
                            /\ observations[v].details.finished
                                 > prior[v].finished
    BY <1>1 DEF EventsTellNewerDeaths, Collecting
  <2>1. CASE v = cur
    BY <1>3, <1>6, <2>1
  <2>2. CASE v # cur
    BY <1>t, <1>3, <2>2 DEF EventsTellNewerDeaths
  <2> QED BY <2>1, <2>2
<1> QED BY <1>4, <1>5, <1>7

LEMMA EventFinishCollect ==
    ASSUME TypeInv, EventInv, FinishCollect PROVE EventInv'
<1> USE DEF EventInv
<1>1. /\ UNCHANGED <<engine, deaths, todo, cur, details, observations, events>>
      /\ pc = "next" /\ pc' = "publish"
      /\ prior' = Inventory
      /\ baselines' = [u \in Uris |-> BaselineOf(observations[u])]
  BY DEF FinishCollect, engineVars, localVars
<1>2. \A u \in Uris : observations[u] # None =>
          observations[u] \in Observation /\ observations[u].details \in Container
  BY DEF TypeInv, TypeOK, Observation
<1>3. \A u \in Uris :
        IF observations[u] = None THEN prior'[u] = None /\ baselines'[u] = None
        ELSE /\ prior'[u] = observations[u].details
             /\ prior'[u] # None
             /\ baselines'[u] \in Baseline
             /\ baselines'[u].finished = prior'[u].finished
             /\ baselines'[u].restarts = prior'[u].restarts
  BY <1>1, <1>2, NoneAssumption
     DEF Inventory, BaselineOf, Baseline, Container, Observation
<1>4. EngineDated' /\ ObservedKnown' /\ HandKnown' /\ InPostmortem'
      /\ EventsTellNewerDeaths'
  BY <1>1 DEF EngineDated, ObservedKnown, Known, HandKnown, Holding,
     Inspected, InEvent, InPostmortem, EventsTellNewerDeaths, Collecting
<1>5. PriorKnown'
  BY <1>1, <1>3 DEF PriorKnown, ObservedKnown, Known
<1>6. BaselinesMatch'
  BY <1>3, NoneIsNoRecord DEF BaselinesMatch
<1>7. OneAtATime'
  BY <1>1 DEF OneAtATime, Holding, Inspected, InEvent, CycleOpen, Collecting
<1> QED BY <1>4, <1>5, <1>6, <1>7

LEMMA EventNext == TypeInv /\ EventInv /\ [Next]_vars => EventInv'
<1> SUFFICES ASSUME TypeInv, EventInv, [Next]_vars PROVE EventInv'
  OBVIOUS
<1> USE DEF EventInv, EngineDated, PriorKnown, ObservedKnown, HandKnown,
            BaselinesMatch, OneAtATime, InPostmortem, EventsTellNewerDeaths,
            Known, Holding, Inspected, InEvent, CycleOpen, Collecting
<1>1. CASE Query
  BY <1>1 DEF Query, engineVars, NoObservations, Occupied
<1>2. ASSUME NEW u \in Uris, DescribeNotFound(u)
      PROVE  EventInv'
  BY <1>2 DEF DescribeNotFound, engineVars, historyVars
<1>3. CASE LeaveCycle
  BY <1>3 DEF LeaveCycle, DropFrame, engineVars, NoObservations
<1>4. CASE MovesOn
  BY <1>4 DEF MovesOn, engineVars, localVars, historyVars, Detected, Died,
     Restarted
<1>5. CASE ReadStats
  BY <1>5 DEF ReadStats, engineVars, historyVars
<1>6. ASSUME NEW s \in Sinks, Publish(s) \/ PublishRaises(s)
      PROVE  EventInv'
  BY <1>6 DEF Publish, PublishRaises, engineVars, localVars
<1>7. ASSUME NEW s \in Sinks, NEW i \in Slots, Arrive(s, i)
      PROVE  EventInv'
  BY <1>7 DEF Arrive, engineVars, localVars, Detected, Died, Restarted
<1>8. CASE Crash
  BY <1>8 DEF Crash, DropFrame, engineVars, NoObservations
<1>9. CASE Reboot
  BY <1>9 DEF Reboot, engineVars, localVars, historyVars
<1>10. CASE UNCHANGED vars
  BY <1>10 DEF vars, engineVars, runnerVars, localVars, historyVars, Detected,
     Died, Restarted
<1> HIDE DEF EventInv
<1> QED BY <1>1, <1>2, <1>3, <1>4, <1>5, <1>6, <1>7, <1>8, <1>9, <1>10, Steps,
           EventEngineStep, EventDescribe, EventObserves, EventAnnounces,
           EventFinishCollect

(* An observed container is announced exactly if its FinishedAt is newer   *)
(* than that of the inspect its address's baseline was made from.          *)
THEOREM EventsAreOfNewerDeaths == Spec => []EventsTellNewerDeaths
<1>1. EventInv => EventsTellNewerDeaths
  BY DEF EventInv
<1> QED BY <1>1, TypeInit, TypeNext, EventInit, EventNext, PTL DEF Spec

-----------------------------------------------------------------------------
(* What OOMKilled and the status of a container tell of its last death, as *)
(* inspected at any time up to now.                                        *)
Truly(d) ==
    /\ d.finished <= deaths
    /\ d.oom => d.finished \in oomDeaths
    /\ d.finished \in oomDeaths /\ ~d.oom => d.status = "running"

OomDated == \A f \in oomDeaths : f # Never /\ f <= deaths

EngineTruly == OomDated /\ \A u \in Uris : engine[u] # None => Truly(engine[u])

OomInv ==
    /\ EngineTruly
    /\ Holding => Truly(details)
    /\ \A e \in events :
          /\ Truly(e.of)
          /\ e.kind = "container.oom_killed" <=> e.of.oom

LEMMA EngineKeepsTruly ==
    ASSUME EngineTypeOK, EngineNext, EngineTruly
    PROVE  /\ EngineTruly'
           /\ \A d \in Container : Truly(d) => Truly(d)'
<1> USE DEF EngineTypeOK
<1>0. \A c \in Container : c.finished \in Nat /\ c.oom \in BOOLEAN
  BY DEF Container
<1>1. /\ deaths' \in Nat /\ deaths <= deaths' /\ oomDeaths \subseteq oomDeaths'
      /\ \A f \in oomDeaths' : f \in oomDeaths \/ (f = deaths + 1 /\ f = deaths')
  BY DEF EngineNext, Create, Die, AutoRestart, ManualStart, Remove, Tick,
     BootHost
<1>2. OomDated'
  BY <1>1 DEF EngineTruly, OomDated, Never
<1>3. \A d \in Container : Truly(d) => Truly(d)'
  BY <1>0, <1>1 DEF Truly
<1>4. ASSUME NEW v \in Uris, engine[v] # None, engine'[v] = engine[v]
      PROVE  Truly(engine[v])'
  BY <1>3, <1>4 DEF EngineTruly, Truly
<1>5. ASSUME NEW v \in Uris, engine'[v] # None PROVE Truly(engine[v])'
  <2>1. CASE engine'[v] = engine[v]
    BY <1>4, <1>5, <2>1
  <2>2. CASE Create(v)
    <3>1. engine'[v].finished = 0 /\ ~engine'[v].oom
      BY <2>2 DEF Create, Fresh, Never
    <3> QED BY <1>1, <1>2, <3>1 DEF Truly, OomDated, Never
  <2>3. ASSUME NEW oom \in BOOLEAN, NEW restart \in BOOLEAN,
               Die(v, oom, restart)
        PROVE  Truly(engine[v])'
    <3>1. engine[v] \in Container
      BY <2>3 DEF Die
    <3>2. engine'[v] = Killed(engine[v], deaths + 1, oom, restart)
      BY <2>3 DEF Die
    <3>3. engine'[v].finished = deaths + 1 /\ engine'[v].oom = oom
      BY <3>1, <3>2 DEF Killed, Container
    <3>4. /\ deaths' = deaths + 1
          /\ oomDeaths' = IF oom THEN oomDeaths \cup {deaths + 1} ELSE oomDeaths
      BY <2>3 DEF Die
    <3>5. deaths + 1 \notin oomDeaths
      BY DEF EngineTruly, OomDated
    <3> QED BY <3>3, <3>4, <3>5 DEF Truly
  <2>4. CASE AutoRestart(v) \/ ManualStart(v)
    <3>1. /\ engine[v] \in Container
          /\ engine'[v].finished = engine[v].finished
          /\ ~engine'[v].oom /\ engine'[v].status = "running"
      BY <2>4 DEF AutoRestart, ManualStart, Started, Container
    <3>2. engine[v].finished <= deaths
      BY <3>1, NoneAssumption DEF EngineTruly, Truly
    <3> QED BY <1>0, <1>1, <3>1, <3>2 DEF Truly
  <2>5. ASSUME NEW busy \in {{}} \cup {{u} : u \in Occupied}, Tick(busy)
        PROVE  Truly(engine[v])'
    <3>1. /\ engine[v] # None
          /\ engine'[v].finished = engine[v].finished
          /\ engine'[v].oom = engine[v].oom
          /\ engine'[v].status = engine[v].status
      BY <1>5, <2>5, NoneAssumption DEF Tick, Occupied, Container
    <3>2. deaths' = deaths /\ oomDeaths' = oomDeaths
      BY <2>5 DEF Tick
    <3> QED BY <3>1, <3>2 DEF EngineTruly, Truly
  <2>6. CASE Remove(v)
    BY <1>5, <2>6 DEF Remove
  <2>7. ASSUME NEW u \in Uris, u # v,
               \/ Create(u) \/ AutoRestart(u) \/ ManualStart(u) \/ Remove(u)
               \/ \E oom, restart \in BOOLEAN : Die(u, oom, restart)
        PROVE  engine'[v] = engine[v]
    BY <2>7 DEF Create, AutoRestart, ManualStart, Remove, Die
  <2>8. CASE BootHost
    BY <2>1, <2>8 DEF BootHost
  <2> QED BY <2>1, <2>2, <2>3, <2>4, <2>5, <2>6, <2>7, <2>8 DEF EngineNext
<1> QED BY <1>2, <1>3, <1>5 DEF EngineTruly

LEMMA OomInit == Init => OomInv
BY DEF Init, EngineInit, OomInv, EngineTruly, OomDated, Holding, Inspected,
    InEvent

LEMMA OomNext == TypeInv /\ OomInv /\ [Next]_vars => OomInv'
<1> SUFFICES ASSUME TypeInv, OomInv, [Next]_vars PROVE OomInv'
  OBVIOUS
<1> USE DEF OomInv, EngineTruly, OomDated, Truly, Holding, Inspected, InEvent
<1>1. CASE EngineStep
  <2>1. /\ EngineTruly'
        /\ \A d \in Container : Truly(d) => Truly(d)'
    BY <1>1, EngineKeepsTruly DEF EngineStep, TypeInv, TypeOK
  <2>2. UNCHANGED <<pc, details, events>>
    BY <1>1 DEF EngineStep, localVars
  <2>3. \A e \in events : e.of \in Container
    BY DEF TypeInv, TypeOK, Event
  <2>4. Holding => details \in Container
    BY DEF TypeInv, HandOK
  <2> HIDE DEF EngineTruly, OomDated, Truly
  <2> QED BY <2>1, <2>2, <2>3, <2>4
<1>2. CASE Query
  BY <1>2 DEF Query, engineVars
<1>3. ASSUME NEW u \in Uris, Describe(u) \/ DescribeNotFound(u)
      PROVE  OomInv'
  BY <1>3 DEF Describe, DescribeNotFound, engineVars
<1>4. CASE LeaveCycle \/ Crash
  BY <1>4 DEF LeaveCycle, Crash, DropFrame, engineVars
<1>5. CASE MovesOn
  BY <1>5 DEF MovesOn, engineVars, localVars
<1>6. CASE ReadStats
  BY <1>6 DEF ReadStats, engineVars
<1>7. ASSUME NEW o \in Observation, Observes(o)
      PROVE  OomInv'
  BY <1>7 DEF Observes, engineVars
<1>8. ASSUME NEW e \in Event, Announces(e)
      PROVE  OomInv'
  <2>1. /\ UNCHANGED engineVars /\ Holding /\ pc' = "next"
        /\ details \in Container
    BY <1>8 DEF Announces, TypeInv, HandOK
  <2>2. /\ e.of = details /\ e.kind = EventKind(baselines[cur], details)
        /\ events' = events \cup {e}
    BY <1>8 DEF Announces
  <2>3. EventKind(baselines[cur], details) = "container.oom_killed"
           <=> details.oom
    BY <2>1 DEF EventKind, Container
  <2> QED BY <2>1, <2>2, <2>3 DEF engineVars
<1>9. CASE FinishCollect
  BY <1>9 DEF FinishCollect, engineVars, localVars
<1>10. ASSUME NEW s \in Sinks, Publish(s) \/ PublishRaises(s)
      PROVE  OomInv'
  BY <1>10 DEF Publish, PublishRaises, engineVars, localVars
<1>11. ASSUME NEW s \in Sinks, NEW i \in Slots, Arrive(s, i)
      PROVE  OomInv'
  BY <1>11 DEF Arrive, engineVars, localVars
<1>12. CASE Reboot
  BY <1>12 DEF Reboot, engineVars, localVars
<1>13. CASE UNCHANGED vars
  BY <1>13 DEF vars, engineVars, runnerVars, localVars
<1> HIDE DEF OomInv
<1> QED BY <1>1, <1>2, <1>3, <1>4, <1>5, <1>6, <1>7, <1>8, <1>9, <1>10,
           <1>11, <1>12, <1>13, Steps

(* An OOM is never announced falsely, and is missed only where the         *)
(* container runs again (runner.py 254-266).                               *)
THEOREM OomIsToldTruly == Spec => []OomToldTruly
<1>1. OomInv => OomToldTruly
  BY DEF OomInv, Truly, OomToldTruly
<1> QED BY <1>1, TypeInit, TypeNext, OomInit, OomNext, PTL DEF Spec
-----------------------------------------------------------------------------
(* A death belongs to one address, and once a receiver has been told of it *)
(* no later cycle can detect it again: whatever the baseline of an address *)
(* is remade from was inspected after the death, unless the address holds  *)
(* another container by now.  A receiver has been told also by a report    *)
(* that is still on its way, or lost.                                      *)
At(u, f) ==
    \/ engine[u] # None /\ engine[u].finished = f
    \/ prior[u] # None /\ prior[u].finished = f
    \/ observations[u] # None /\ observations[u].details.finished = f
    \/ Holding /\ cur = u /\ details.finished = f

OwnDeaths ==
    \A u, v \in Uris : \A f \in Stamps : At(u, f) /\ At(v, f) => u = v

(* No inspect that a baseline comes from lies before f, a death of what    *)
(* the address holds; and what was inspected there this cycle died of f    *)
(* only if the baseline says so.                                           *)
Spent(u, f) ==
    /\ engine[u] # None /\ engine[u].finished = f =>
          /\ prior[u] # None => prior[u].finished >= f
          /\ observations[u] # None => observations[u].details.finished >= f
          /\ Holding /\ cur = u => details.finished >= f
    /\ Collecting /\ prior[u] # None =>
          /\ observations[u] # None /\ observations[u].details.finished = f
                => prior[u].finished >= f
          /\ Holding /\ cur = u /\ details.finished = f
                => prior[u].finished >= f

EventOfObserved ==
    /\ \A e \in events : /\ e.of = observations[e.uri].details
                         /\ e.of.finished # Never
    /\ \A e, o \in events : e.uri = o.uri => e = o

PublishPrior == pc = "publish" => prior = Inventory

Tells(r, f) == r # None /\ r.news[f] # 0

Told(s, f) == heard[s][f] # 0 \/ \E i \in Slots : Tells(late[s][i], f)

ToldSpent ==
    \A s \in Sinks : \A f \in Stamps :
        Told(s, f) => f <= deaths /\ \A u \in Uris : Spent(u, f)

(* Each death is in one report at most, on its way or taken.               *)
ToldOnce ==
    \A s \in Sinks : \A f \in Stamps :
        /\ heard[s][f] \in {0, 1}
        /\ \A i \in Slots :
             Tells(late[s][i], f) =>
                /\ late[s][i].news[f] = 1
                /\ heard[s][f] = 0
                /\ \A j \in Slots : Tells(late[s][j], f) => i = j

Untold ==
    pc = "publish" =>
        \A s \in unsent : \A e \in events : \A f \in Stamps :
            e.of.finished = f => ~Told(s, f)

NewsInv ==
    OwnDeaths /\ EventOfObserved /\ PublishPrior /\ ToldSpent /\ ToldOnce
    /\ Untold

LEMMA NewsInit == Init => NewsInv
<1> SUFFICES ASSUME Init PROVE NewsInv
  OBVIOUS
<1>1. \A u \in Uris : \A f \in Stamps : ~At(u, f)
  BY DEF Init, EngineInit, NoObservations, At, Holding, Inspected, InEvent
<1>2. \A s \in Sinks : \A f \in Stamps : heard[s][f] = 0
  BY DEF Init
<1>3. \A s \in Sinks : \A i \in Slots : late[s][i] = None
  BY DEF Init
<1> QED BY <1>1, <1>2, <1>3 DEF NewsInv, OwnDeaths, EventOfObserved,
         PublishPrior, ToldSpent, ToldOnce, Untold, Told, Tells, Init

(* Every FinishedAt there is is of a death that has happened.              *)
LEMMA AtDated ==
    ASSUME EventInv, NEW u \in Uris, NEW f, At(u, f) PROVE f <= deaths
BY DEF At, EventInv, EngineDated, PriorKnown, ObservedKnown, HandKnown, Known

LEMMA StampsAreNat == \A f \in Stamps : f \in Nat /\ f # Never
BY BoundsAssumption DEF Stamps, Never

(* One step of the engine stamps one address at most, with a new stamp.    *)
LEMMA EngineStamps ==
    ASSUME EngineTypeOK, EngineNext
    PROVE  /\ deaths' \in Nat /\ deaths <= deaths'
           /\ \E v : \A u \in Uris : engine'[u] # None =>
                 \/ engine[u] # None /\ engine'[u].finished = engine[u].finished
                 \/ engine'[u].finished = Never
                 \/ u = v /\ engine'[u].finished = deaths + 1
<1> USE DEF EngineTypeOK
<1>1. deaths' \in Nat /\ deaths <= deaths'
  BY DEF EngineNext, Create, Die, AutoRestart, ManualStart, Remove, Tick,
     BootHost
<1> DEFINE Same(u) == engine[u] # None /\ engine'[u].finished = engine[u].finished
           New(u)  == engine'[u].finished = Never
           Dead(u) == engine'[u].finished = deaths + 1
<1>2. ASSUME NEW v \in Uris, Create(v) \/ Remove(v)
      PROVE  \A u \in Uris : engine'[u] # None => Same(u) \/ New(u)
  <2>1. \A u \in Uris : u # v => engine'[u] = engine[u]
    BY <1>2 DEF Create, Remove
  <2>2. engine'[v] # None => New(v)
    BY <1>2 DEF Create, Remove, Fresh
  <2> QED BY <2>1, <2>2
<1>3. ASSUME NEW v \in Uris, AutoRestart(v) \/ ManualStart(v)
      PROVE  \A u \in Uris : engine'[u] # None => Same(u) \/ New(u)
  <2>1. \A u \in Uris : u # v => engine'[u] = engine[u]
    BY <1>3 DEF AutoRestart, ManualStart
  <2>2. Same(v)
    BY <1>3 DEF AutoRestart, ManualStart, Started, Container
  <2> QED BY <2>1, <2>2
<1>4. ASSUME NEW v \in Uris, NEW oom \in BOOLEAN, NEW restart \in BOOLEAN,
             Die(v, oom, restart)
      PROVE  \A u \in Uris : engine'[u] # None => Same(u) \/ (u = v /\ Dead(u))
  <2>1. \A u \in Uris : u # v => engine'[u] = engine[u]
    BY <1>4 DEF Die
  <2>2. Dead(v)
    BY <1>4 DEF Die, Killed, Container
  <2> QED BY <2>1, <2>2
<1>5. ASSUME NEW busy \in {{}} \cup {{u} : u \in Occupied}, Tick(busy)
      PROVE  \A u \in Uris : engine'[u] # None => Same(u)
  BY <1>5, NoneAssumption DEF Tick, Occupied, Container
<1>6. ASSUME BootHost
      PROVE  \A u \in Uris : engine'[u] # None => Same(u)
  BY <1>6 DEF BootHost
<1> HIDE DEF Same, New, Dead
<1>7. \E v : \A u \in Uris :
          engine'[u] # None => Same(u) \/ New(u) \/ (u = v /\ Dead(u))
  BY <1>2, <1>3, <1>4, <1>5, <1>6 DEF EngineNext
<1> QED BY <1>1, <1>7 DEF Same, New, Dead

(* What a sink has been told stays as it is when nothing reaches it.       *)
LEMMA ToldKeeps ==
    ASSUME ToldSpent, ToldOnce, UNCHANGED <<heard, late>>, deaths \in Nat,
           deaths' \in Nat, deaths <= deaths',
           \A f \in Stamps : (\E s \in Sinks : Told(s, f)) =>
               \A u \in Uris : Spent(u, f) => Spent(u, f)'
    PROVE  ToldSpent' /\ ToldOnce'
<1>1. \A s, f : Told(s, f)' <=> Told(s, f)
  BY DEF Told, Tells
<1>2. ToldSpent'
  BY <1>1, StampsAreNat DEF ToldSpent
<1>3. ToldOnce'
  BY DEF ToldOnce, Tells
<1> QED BY <1>2, <1>3

LEMMA NewsEngineStep ==
    ASSUME TypeInv, EventInv, NewsInv, EngineStep PROVE NewsInv'
<1>1. UNCHANGED <<pc, cur, details, observations, events, prior, unsent, late,
                  heard>>
  BY DEF EngineStep, localVars
<1>2. deaths \in Nat /\ deaths' \in Nat /\ deaths <= deaths'
  BY EngineStamps DEF EngineStep, TypeInv, TypeOK, EngineTypeOK
<1>3. PICK v : \A u \in Uris : engine'[u] # None =>
                 \/ engine[u] # None /\ engine'[u].finished = engine[u].finished
                 \/ engine'[u].finished = Never
                 \/ u = v /\ engine'[u].finished = deaths + 1
  BY EngineStamps DEF EngineStep, TypeInv, TypeOK
<1>4. \A u \in Uris : \A f \in Stamps :
          At(u, f)' => At(u, f) \/ (u = v /\ f = deaths + 1)
  BY <1>1, <1>3, StampsAreNat DEF At, Holding, Inspected, InEvent
<1>5. OwnDeaths'
  <2> SUFFICES ASSUME NEW u \in Uris, NEW w \in Uris, NEW f \in Stamps,
                      At(u, f)', At(w, f)'
               PROVE  u = w
    BY DEF OwnDeaths
  <2>1. At(u, f) => f <= deaths
    BY AtDated
  <2>2. At(w, f) => f <= deaths
    BY AtDated
  <2>3. f \in Nat
    BY StampsAreNat
  <2> QED BY <1>2, <1>4, <2>1, <2>2, <2>3 DEF NewsInv, OwnDeaths
<1>6. ToldSpent' /\ ToldOnce'
  <2>1. ASSUME NEW s \in Sinks, NEW f \in Stamps, Told(s, f),
               NEW u \in Uris, Spent(u, f)
        PROVE  Spent(u, f)'
    <3>1. f <= deaths
      BY <2>1 DEF NewsInv, ToldSpent
    <3>2. f \in Nat /\ f # Never
      BY StampsAreNat
    <3>3. engine'[u] # None /\ engine'[u].finished = f =>
              engine[u] # None /\ engine[u].finished = f
      BY <1>2, <1>3, <3>1, <3>2
    <3> QED BY <1>1, <2>1, <3>3 DEF Spent, Holding, Inspected, InEvent,
            Collecting
  <2> QED BY <1>1, <1>2, <2>1, ToldKeeps DEF NewsInv
<1>7. EventOfObserved' /\ PublishPrior' /\ Untold'
  BY <1>1 DEF NewsInv, EventOfObserved, PublishPrior, Untold, Told, Tells,
     Inventory
<1> QED BY <1>5, <1>6, <1>7 DEF NewsInv

(* A step of the runner that knows no more of an address than before.      *)
LEMMA OwnDeathsKeep ==
    ASSUME OwnDeaths, \A u \in Uris : \A f \in Stamps : At(u, f)' => At(u, f)
    PROVE  OwnDeaths'
BY DEF OwnDeaths

LEMMA NewsDescribe ==
    ASSUME TypeInv, NewsInv, NEW u \in Uris, Describe(u) PROVE NewsInv'
<1>1. /\ UNCHANGED <<engine, deaths, observations, events, prior, unsent, late,
                     heard>>
      /\ pc = "next" /\ pc' = "stats"
      /\ cur' = u /\ details' = engine[u] /\ engine[u] # None
  BY DEF Describe, engineVars, historyVars
<1>2. engine[u].finished \in Nat /\ deaths \in Nat
  BY <1>1 DEF TypeInv, TypeOK, EngineTypeOK, Container
<1>3. OwnDeaths'
  <2>1. \A w \in Uris : \A f \in Stamps : At(w, f)' => At(w, f)
    BY <1>1 DEF At, Holding, Inspected, InEvent
  <2> QED BY <2>1, OwnDeathsKeep DEF NewsInv
<1>4. ASSUME NEW f \in Stamps, NEW w \in Uris, Spent(w, f) PROVE Spent(w, f)'
  BY <1>1, <1>2, <1>4 DEF Spent, Holding, Inspected, InEvent, Collecting
<1>5. ToldSpent' /\ ToldOnce'
  BY <1>1, <1>2, <1>4, ToldKeeps DEF NewsInv
<1> QED BY <1>1, <1>3, <1>5
         DEF NewsInv, EventOfObserved, PublishPrior, Untold

LEMMA NewsObserves ==
    ASSUME TypeInv, EventInv, NewsInv, NEW o \in Observation, Observes(o)
    PROVE  NewsInv'
<1>1. /\ UNCHANGED <<engine, deaths, events, prior, unsent, late, heard>>
      /\ pc \in {"revision", "revision_read"}
      /\ pc' \in {"next", "postmortem"}
      /\ pc' = "postmortem" => cur' = cur /\ details' = details
  BY DEF Observes, engineVars, historyVars
<1>2. cur \in Uris /\ deaths \in Nat
  BY <1>1 DEF TypeInv, TypeOK, EngineTypeOK, HandOK
<1>3. observations' = [observations EXCEPT ![cur] = o] /\ o.details = details
  BY DEF Observes
<1>4. /\ observations'[cur] = o /\ o # None
      /\ \A v \in Uris : v # cur => observations'[v] = observations[v]
  BY <1>2, <1>3, NoneIsNoRecord DEF TypeInv, TypeOK
<1>5. OwnDeaths'
  <2>1. \A w \in Uris : \A f \in Stamps : At(w, f)' => At(w, f)
    BY <1>1, <1>2, <1>3, <1>4 DEF At, Holding, Inspected, InEvent
  <2> QED BY <2>1, OwnDeathsKeep DEF NewsInv
<1>6. ASSUME NEW f \in Stamps, NEW w \in Uris, Spent(w, f) PROVE Spent(w, f)'
  <2> USE DEF Spent, Holding, Inspected, InEvent, Collecting
  <2>1. CASE w = cur
    BY <1>1, <1>3, <1>4, <1>6, <2>1
  <2>2. CASE w # cur
    BY <1>1, <1>4, <1>6, <2>2
  <2> QED BY <2>1, <2>2
<1>7. ToldSpent' /\ ToldOnce'
  BY <1>1, <1>2, <1>6, ToldKeeps DEF NewsInv
<1>8. EventOfObserved'
  <2>1. \A e \in events : e.uri \in Uris /\ e.uri # cur
    BY <1>1, <1>2 DEF EventInv, OneAtATime, Inspected, TypeInv, TypeOK, Event
  <2> QED BY <1>1, <1>4, <2>1 DEF NewsInv, EventOfObserved
<1> QED BY <1>1, <1>5, <1>7, <1>8 DEF NewsInv, PublishPrior, Untold

LEMMA NewsAnnounces ==
    ASSUME TypeInv, EventInv, EventInv', NewsInv, NEW made \in Event,
           Announces(made)
    PROVE  NewsInv'
<1>1. /\ UNCHANGED <<engine, deaths, observations, prior, unsent, late, heard>>
      /\ pc \in {"postmortem", "log_read"} /\ pc' = "next"
  BY DEF Announces, engineVars, historyVars
<1>2. cur \in Uris /\ details \in Container /\ deaths \in Nat
  BY <1>1 DEF TypeInv, TypeOK, EngineTypeOK, HandOK
<1>3. events' = events \cup {made} /\ made.uri = cur /\ made.of = details
  BY DEF Announces
<1>4. /\ observations[cur] # None /\ observations[cur].details = details
      /\ \A e \in events : e.uri # cur
  BY <1>1 DEF EventInv, InPostmortem, InEvent
<1>5. prior[cur] # None /\ details.finished > prior[cur].finished
  BY <1>1, <1>2, <1>3, <1>4 DEF EventInv, EventsTellNewerDeaths, Collecting
<1>6. details.finished # Never
  <2>1. prior[cur] \in Container
    BY <1>2, <1>5 DEF TypeInv, TypeOK
  <2> QED BY <1>2, <1>5, <2>1 DEF Container, Never
<1>7. EventOfObserved'
  BY <1>1, <1>3, <1>4, <1>6 DEF NewsInv, EventOfObserved
<1>8. OwnDeaths'
  <2>1. \A w \in Uris : \A f \in Stamps : At(w, f)' => At(w, f)
    BY <1>1 DEF At, Holding, Inspected, InEvent
  <2> QED BY <2>1, OwnDeathsKeep DEF NewsInv
<1>9. ToldSpent' /\ ToldOnce'
  <2>1. ASSUME NEW f \in Stamps, NEW w \in Uris, Spent(w, f) PROVE Spent(w, f)'
    BY <1>1, <2>1 DEF Spent, Holding, Inspected, InEvent, Collecting
  <2> QED BY <1>1, <1>2, <2>1, ToldKeeps DEF NewsInv
<1> QED BY <1>1, <1>7, <1>8, <1>9 DEF NewsInv, PublishPrior, Untold

(* At the end of the collection every event is news to every receiver.     *)
LEMMA NewsFinishCollect ==
    ASSUME TypeInv, EventInv, NewsInv, FinishCollect PROVE NewsInv'
<1>1. /\ UNCHANGED <<engine, deaths, observations, events, late, heard>>
      /\ pc = "next" /\ pc' = "publish"
      /\ prior' = Inventory /\ unsent' = Sinks
  BY DEF FinishCollect, engineVars, localVars
<1>2. \A u \in Uris :
          prior'[u] = IF observations[u] = None THEN None
                      ELSE observations[u].details
  BY <1>1 DEF Inventory
<1>3. OwnDeaths'
  <2>1. \A w \in Uris : \A f \in Stamps : At(w, f)' => At(w, f)
    BY <1>1, <1>2 DEF At, Holding, Inspected, InEvent
  <2> QED BY <2>1, OwnDeathsKeep DEF NewsInv
<1>4. ToldSpent' /\ ToldOnce'
  <2>1. ASSUME NEW f \in Stamps, NEW w \in Uris, Spent(w, f) PROVE Spent(w, f)'
    BY <1>1, <1>2, <2>1 DEF Spent, Holding, Inspected, InEvent, Collecting
  <2>2. deaths \in Nat
    BY DEF TypeInv, TypeOK, EngineTypeOK
  <2> QED BY <1>1, <2>1, <2>2, ToldKeeps DEF NewsInv
<1>5. Untold'
  <2> SUFFICES ASSUME NEW s \in Sinks, NEW e \in events, NEW f \in Stamps,
                      e.of.finished = f, Told(s, f)
               PROVE  FALSE
    BY <1>1 DEF Untold, Told, Tells
  <2>1. /\ e.uri \in Uris /\ observations[e.uri] # None
        /\ observations[e.uri].details = e.of
    BY DEF TypeInv, TypeOK, Event, EventInv, OneAtATime, NewsInv, EventOfObserved
  <2>2. prior[e.uri] # None /\ e.of.finished > prior[e.uri].finished
    BY <1>1, <2>1 DEF EventInv, EventsTellNewerDeaths, Collecting
  <2>3. prior[e.uri].finished >= f
    BY <1>1, <2>1, <2>2 DEF NewsInv, ToldSpent, Spent, Collecting
  <2>4. prior[e.uri].finished \in Nat /\ f \in Nat
    BY <2>1, <2>2, StampsAreNat DEF TypeInv, TypeOK, Container
  <2> QED BY <2>2, <2>3, <2>4
<1>6. EventOfObserved' /\ PublishPrior'
  BY <1>1 DEF NewsInv, EventOfObserved, PublishPrior, Inventory
<1> QED BY <1>3, <1>4, <1>5, <1>6 DEF NewsInv

(* A snapshot tells of a death once.                                       *)
LEMMA NewsAreSingle ==
    ASSUME TypeInv, EventInv, NewsInv, NEW f \in Stamps
    PROVE  NewsOf(f) = 0 \/ (NewsOf(f) = 1 /\ \E e \in events : e.of.finished = f)
<1> DEFINE news == {e \in events : e.of.finished = f}
<1>1. ASSUME NEW e \in news, NEW o \in news PROVE e = o
  <2>1. /\ e.uri \in Uris /\ o.uri \in Uris
        /\ At(e.uri, f) /\ At(o.uri, f)
    BY DEF TypeInv, TypeOK, Event, EventInv, OneAtATime, NewsInv,
       EventOfObserved, At
  <2>2. e.uri = o.uri
    BY <2>1 DEF NewsInv, OwnDeaths
  <2> QED BY <2>2 DEF NewsInv, EventOfObserved
<1>2. CASE news = {}
  BY <1>2, FS_EmptySet DEF NewsOf
<1>3. ASSUME NEW e \in news PROVE NewsOf(f) = 1
  <2>1. news = {e}
    BY <1>1
  <2>2. Cardinality({e}) = 1
    BY FS_Singleton
  <2> QED BY <2>1, <2>2 DEF NewsOf
<1> QED BY <1>2, <1>3

(* A death in the snapshot is spent with it: the baselines are of this     *)
(* cycle by now.                                                           *)
LEMMA NewsAreSpent ==
    ASSUME TypeInv, EventInv, NewsInv, pc = "publish", NEW f \in Stamps,
           NewsOf(f) # 0
    PROVE  /\ f <= deaths /\ \A u \in Uris : Spent(u, f)
           /\ \A s \in unsent : ~Told(s, f)
<1>1. PICK e \in events : e.of.finished = f
  BY NewsAreSingle
<1>2. /\ e.uri \in Uris /\ observations[e.uri] # None
      /\ observations[e.uri].details.finished = f
  BY <1>1 DEF TypeInv, TypeOK, Event, EventInv, OneAtATime, NewsInv,
     EventOfObserved
<1>3. At(e.uri, f)
  BY <1>2 DEF At
<1>4. f <= deaths
  BY <1>2, <1>3, AtDated
<1>5. prior[e.uri].finished = f
  BY <1>2 DEF NewsInv, PublishPrior, Inventory
<1>6. f \in Nat
  BY StampsAreNat
<1>7. ASSUME NEW u \in Uris PROVE Spent(u, f)
  <2>1. CASE u = e.uri
    BY <1>2, <1>5, <1>6, <2>1 DEF Spent, Holding, Inspected, InEvent, Collecting
  <2>2. CASE u # e.uri
    <3>1. ~At(u, f)
      BY <1>2, <1>3, <2>2 DEF NewsInv, OwnDeaths
    <3> QED BY <3>1 DEF At, Spent, Collecting
  <2> QED BY <2>1, <2>2
<1>8. \A s \in unsent : ~Told(s, f)
  BY <1>1 DEF NewsInv, Untold
<1> QED BY <1>4, <1>7, <1>8

(* A step of the loop that moves reports and nothing the deaths are known  *)
(* from.                                                                   *)
LEMMA ReportsMove ==
    ASSUME TypeInv, NewsInv, ToldOnce',
           UNCHANGED <<engineVars, pc, localVars, prior>>,
           unsent' \subseteq unsent,
           \A s \in Sinks : \A f \in Stamps :
              Told(s, f)' =>
                 \/ Told(s, f)
                 \/ /\ f <= deaths /\ \A u \in Uris : Spent(u, f)
                    /\ s \notin unsent'
    PROVE  NewsInv'
<1>1. UNCHANGED <<engine, deaths, observations, events, prior, cur, details, pc>>
  BY DEF engineVars, localVars
<1>2. OwnDeaths' /\ EventOfObserved' /\ PublishPrior'
  BY <1>1 DEF NewsInv, OwnDeaths, EventOfObserved, PublishPrior, Inventory, At,
     Holding, Inspected, InEvent
<1>3. \A u \in Uris : \A f \in Stamps : Spent(u, f)' <=> Spent(u, f)
  BY <1>1 DEF Spent, Holding, Inspected, InEvent, Collecting
<1>4. ToldSpent'
  BY <1>1, <1>3 DEF NewsInv, ToldSpent
<1>5. Untold'
  BY <1>1 DEF NewsInv, Untold, TypeInv, TypeOK
<1> QED BY <1>2, <1>4, <1>5 DEF NewsInv

LEMMA NewsTake ==
    ASSUME TypeInv, EventInv, NewsInv, pc = "publish", NEW s \in unsent,
           Take(s, Snapshot), unsent' = unsent \ {s},
           UNCHANGED <<engineVars, pc, localVars, prior, late>>
    PROVE  NewsInv'
<1>1. s \in Sinks /\ \A t \in Sinks : \A f \in Stamps : heard[t][f] \in Nat
  BY DEF TypeInv, TypeOK
<1>2. \A t \in Sinks : \A f \in Stamps :
        heard'[t][f] = IF t = s THEN heard[t][f] + NewsOf(f) ELSE heard[t][f]
  BY <1>1 DEF Take, Snapshot, TypeInv, TypeOK
<1>3. ASSUME NEW f \in Stamps
      PROVE  \/ NewsOf(f) = 0
             \/ NewsOf(f) = 1 /\ ~Told(s, f)
  BY NewsAreSingle, NewsAreSpent
<1>4. ToldOnce'
  <2> SUFFICES ASSUME NEW t \in Sinks, NEW f \in Stamps
               PROVE  /\ heard'[t][f] \in {0, 1}
                      /\ \A i \in Slots :
                           Tells(late[t][i], f) =>
                              /\ late[t][i].news[f] = 1
                              /\ heard'[t][f] = 0
                              /\ \A j \in Slots : Tells(late[t][j], f) => i = j
    BY DEF ToldOnce, Tells
  <2>1. CASE t # s \/ NewsOf(f) = 0
    BY <1>1, <1>2, <2>1 DEF NewsInv, ToldOnce
  <2>2. CASE t = s /\ NewsOf(f) = 1 /\ ~Told(s, f)
    BY <1>1, <1>2, <2>2 DEF Told
  <2> QED BY <1>3, <2>1, <2>2
<1>5. ASSUME NEW t \in Sinks, NEW f \in Stamps, Told(t, f)'
      PROVE  \/ Told(t, f)
             \/ /\ f <= deaths /\ \A u \in Uris : Spent(u, f)
                /\ t \notin unsent'
  <2>1. CASE t # s \/ NewsOf(f) = 0
    BY <1>1, <1>2, <1>5, <2>1 DEF Told, Tells
  <2>2. CASE t = s /\ NewsOf(f) # 0
    BY <2>2, NewsAreSpent
  <2> QED BY <2>1, <2>2
<1> QED BY <1>4, <1>5, ReportsMove

(* A report that is left behind tells its receiver no sooner or later than *)
(* one that is taken.                                                      *)
LEMMA NewsLeft ==
    ASSUME TypeInv, EventInv, NewsInv, pc = "publish", NEW s \in unsent,
           LeaveBehind(s), UNCHANGED heard
    PROVE  /\ ToldOnce'
           /\ \A t \in Sinks : \A f \in Stamps :
                 Told(t, f)' =>
                    \/ Told(t, f)
                    \/ f <= deaths /\ (\A u \in Uris : Spent(u, f)) /\ t = s
<1>1. s \in Sinks /\ late \in [Sinks -> [Slots -> Report \cup {None}]]
  BY DEF TypeInv, TypeOK
<1>2. PICK i \in Slots : /\ late[s][i] = None
                         /\ late' = [late EXCEPT ![s][i] = Snapshot]
  BY DEF LeaveBehind
<1>3. \A t \in Sinks : \A j \in Slots :
        late'[t][j] = IF t = s /\ j = i THEN Snapshot ELSE late[t][j]
  BY <1>1, <1>2
<1>4. \A f \in Stamps : Snapshot.news[f] = NewsOf(f)
  BY DEF Snapshot
<1>5. ASSUME NEW f \in Stamps
      PROVE  \/ NewsOf(f) = 0
             \/ NewsOf(f) = 1 /\ ~Told(s, f)
  BY NewsAreSingle, NewsAreSpent
<1>6. ToldOnce'
  <2> SUFFICES ASSUME NEW t \in Sinks, NEW f \in Stamps
               PROVE  /\ heard[t][f] \in {0, 1}
                      /\ \A k \in Slots :
                           Tells(late'[t][k], f) =>
                              /\ late'[t][k].news[f] = 1
                              /\ heard[t][f] = 0
                              /\ \A j \in Slots : Tells(late'[t][j], f) => k = j
    BY DEF ToldOnce, Tells
  <2>1. CASE t # s \/ NewsOf(f) = 0
    <3>1. \A k \in Slots : Tells(late'[t][k], f) =>
             Tells(late[t][k], f) /\ late'[t][k] = late[t][k]
      BY <1>3, <1>4, <2>1 DEF Tells
    <3> QED BY <3>1 DEF NewsInv, ToldOnce
  <2>2. CASE t = s /\ NewsOf(f) = 1 /\ ~Told(s, f)
    <3>1. heard[s][f] = 0 /\ \A j \in Slots : ~Tells(late[s][j], f)
      BY <2>2 DEF Told
    <3> QED BY <1>3, <1>4, <2>2, <3>1 DEF Tells
  <2> QED BY <1>5, <2>1, <2>2
<1>7. ASSUME NEW t \in Sinks, NEW f \in Stamps, Told(t, f)', ~Told(t, f)
      PROVE  t = s /\ NewsOf(f) # 0
  BY <1>3, <1>4, <1>7 DEF Told, Tells
<1> QED BY <1>6, <1>7, NewsAreSpent

(* A report that arrives is no longer on its way.                          *)
LEMMA NewsArrive ==
    ASSUME TypeInv, NewsInv, NEW s \in Sinks, NEW i \in Slots, Arrive(s, i)
    PROVE  NewsInv'
<1>1. /\ late \in [Sinks -> [Slots -> Report \cup {None}]]
      /\ late[s][i] # None
      /\ late' = [late EXCEPT ![s][i] = None]
      /\ UNCHANGED <<engineVars, pc, localVars, prior, unsent>>
  BY DEF TypeInv, TypeOK, Arrive
<1>2. late[s][i] \in Report
  BY <1>1
<1>3. \A t \in Sinks : \A j \in Slots :
        late'[t][j] = IF t = s /\ j = i THEN None ELSE late[t][j]
  BY <1>1
<1>4. heard \in [Sinks -> [Stamps -> Nat]]
  BY DEF TypeInv, TypeOK
<1>5. \A t \in Sinks : \A f \in Stamps :
        \/ heard'[t][f] = heard[t][f]
        \/ t = s /\ heard'[t][f] = heard[t][f] + late[s][i].news[f]
  BY <1>4 DEF Arrive, Take
<1>6. \A f \in Stamps : late[s][i].news[f] \in Nat
  BY <1>2 DEF Report
<1>7. ASSUME NEW t \in Sinks, NEW f \in Stamps,
             heard'[t][f] # heard[t][f]
      PROVE  /\ t = s /\ Tells(late[s][i], f)
             /\ heard[t][f] = 0 /\ heard'[t][f] = 1
             /\ \A j \in Slots : ~Tells(late'[t][j], f)
  <2>1. t = s /\ heard'[t][f] = heard[t][f] + late[s][i].news[f]
    BY <1>5, <1>7
  <2>2. heard[t][f] \in Nat
    BY <1>4
  <2>3. Tells(late[s][i], f)
    BY <1>1, <1>6, <1>7, <2>1, <2>2 DEF Tells
  <2>4. /\ late[s][i].news[f] = 1 /\ heard[s][f] = 0
        /\ \A j \in Slots : Tells(late[s][j], f) => i = j
    BY <2>3 DEF NewsInv, ToldOnce
  <2>5. \A j \in Slots : ~Tells(late'[t][j], f)
    BY <1>3, <2>1, <2>4 DEF Tells
  <2> QED BY <2>1, <2>3, <2>4, <2>5
<1>8. \A t \in Sinks, j \in Slots : \A f \in Stamps :
        Tells(late'[t][j], f) =>
           Tells(late[t][j], f) /\ late'[t][j] = late[t][j]
  BY <1>3 DEF Tells
<1>9. ToldOnce'
  <2> SUFFICES ASSUME NEW t \in Sinks, NEW f \in Stamps
               PROVE  /\ heard'[t][f] \in {0, 1}
                      /\ \A k \in Slots :
                           Tells(late'[t][k], f) =>
                              /\ late'[t][k].news[f] = 1
                              /\ heard'[t][f] = 0
                              /\ \A j \in Slots : Tells(late'[t][j], f) => k = j
    BY DEF ToldOnce, Tells
  <2>1. CASE heard'[t][f] = heard[t][f]
    BY <1>8, <2>1 DEF NewsInv, ToldOnce
  <2>2. CASE heard'[t][f] # heard[t][f]
    BY <1>7, <2>2
  <2> QED BY <2>1, <2>2
<1>10. \A t \in Sinks : \A f \in Stamps : Told(t, f)' => Told(t, f)
  <2> SUFFICES ASSUME NEW t \in Sinks, NEW f \in Stamps, Told(t, f)'
               PROVE  Told(t, f)
    OBVIOUS
  <2>1. heard'[t][f] # 0 \/ \E j \in Slots : Tells(late'[t][j], f)
    BY DEF Told, Tells
  <2>2. CASE heard'[t][f] # heard[t][f]
    BY <1>7, <2>2 DEF Told
  <2>3. CASE heard'[t][f] = heard[t][f]
    BY <1>8, <2>1, <2>3 DEF Told
  <2> QED BY <2>2, <2>3
<1> QED BY <1>1, <1>9, <1>10, ReportsMove

LEMMA NewsPublish ==
    ASSUME TypeInv, EventInv, NewsInv, NEW s \in Sinks,
           Publish(s) \/ PublishRaises(s)
    PROVE  NewsInv'
<1>1. /\ pc = "publish" /\ s \in unsent /\ unsent' = unsent \ {s}
      /\ UNCHANGED <<engineVars, pc, localVars, prior>>
      /\ \/ Take(s, Snapshot) /\ UNCHANGED late
         \/ UNCHANGED heard /\ LeaveBehind(s)
         \/ UNCHANGED <<heard, late>>
  BY DEF Publish, PublishRaises
<1>2. CASE Take(s, Snapshot) /\ UNCHANGED late
  BY <1>1, <1>2, NewsTake
<1>3. CASE UNCHANGED heard /\ LeaveBehind(s)
  <2>1. /\ ToldOnce'
        /\ \A t \in Sinks : \A f \in Stamps :
              Told(t, f)' =>
                 \/ Told(t, f)
                 \/ f <= deaths /\ (\A u \in Uris : Spent(u, f)) /\ t = s
    BY <1>1, <1>3, NewsLeft
  <2> QED BY <1>1, <2>1, ReportsMove
<1>4. CASE UNCHANGED <<heard, late>>
  <2>1. ToldOnce' /\ \A t, f : Told(t, f)' <=> Told(t, f)
    BY <1>4 DEF NewsInv, ToldOnce, Told, Tells
  <2> QED BY <1>1, <2>1, ReportsMove
<1> QED BY <1>1, <1>2, <1>3, <1>4

LEMMA NewsCrash ==
    ASSUME TypeInv, EventInv, NewsInv, Crash PROVE NewsInv'
<1>1. /\ UNCHANGED <<engine, deaths, heard>>
      /\ pc' = "down"
      /\ prior' = [u \in Uris |-> None]
      /\ observations' = NoObservations /\ events' = {}
      /\ \/ UNCHANGED late
         \/ pc = "publish" /\ \E s \in unsent : LeaveBehind(s)
  BY DEF Crash, DropFrame, engineVars
<1>2. \A u \in Uris : \A f \in Stamps : At(u, f)' => At(u, f)
  BY <1>1 DEF At, Holding, Inspected, InEvent, NoObservations
<1>3. \A u \in Uris : \A f \in Stamps : Spent(u, f)'
  BY <1>1 DEF Spent, Holding, Inspected, InEvent, Collecting, NoObservations
<1>4. OwnDeaths' /\ EventOfObserved' /\ PublishPrior' /\ Untold'
  BY <1>1, <1>2, OwnDeathsKeep
     DEF NewsInv, EventOfObserved, PublishPrior, Untold
<1>5. /\ ToldOnce'
      /\ \A t \in Sinks : \A f \in Stamps : Told(t, f)' => f <= deaths
  <2>1. CASE UNCHANGED late
    <3>1. ToldOnce' /\ \A t, f : Told(t, f)' <=> Told(t, f)
      BY <1>1, <2>1 DEF NewsInv, ToldOnce, Told, Tells
    <3> QED BY <3>1 DEF NewsInv, ToldSpent
  <2>2. ASSUME pc = "publish", NEW s \in unsent, LeaveBehind(s)
        PROVE  /\ ToldOnce'
               /\ \A t \in Sinks : \A f \in Stamps :
                     Told(t, f)' => f <= deaths
    BY <1>1, <2>2, NewsLeft DEF NewsInv, ToldSpent
  <2> QED BY <1>1, <2>1, <2>2
<1>6. ToldSpent'
  BY <1>1, <1>3, <1>5 DEF ToldSpent
<1> QED BY <1>4, <1>5, <1>6 DEF NewsInv

LEMMA NewsNext ==
    TypeInv /\ EventInv /\ EventInv' /\ NewsInv /\ [Next]_vars => NewsInv'
<1> SUFFICES ASSUME TypeInv, EventInv, EventInv', NewsInv, [Next]_vars
             PROVE  NewsInv'
  OBVIOUS
<1> DEFINE Less == /\ \A u \in Uris : \A f \in Stamps : At(u, f)' => At(u, f)
                   /\ \A u \in Uris : \A f \in Stamps :
                         Spent(u, f) => Spent(u, f)'
<1>0. ASSUME Less, UNCHANGED <<heard, late, deaths>>, EventOfObserved',
             PublishPrior', Untold'
      PROVE  NewsInv'
  <2>1. deaths \in Nat
    BY DEF TypeInv, TypeOK, EngineTypeOK
  <2> QED BY <1>0, <2>1, OwnDeathsKeep, ToldKeeps DEF NewsInv
<1> USE DEF Holding, Inspected, InEvent
<1>1. CASE Query
  <2>1. /\ UNCHANGED <<engine, deaths, cur, details, observations, events, prior,
                       unsent, late, heard>>
        /\ pc = "idle" /\ pc' = "next"
    BY <1>1 DEF Query, engineVars
  <2>2. observations = NoObservations
    BY <2>1 DEF EventInv, OneAtATime, CycleOpen, Collecting
  <2>3. Less
    BY <2>1, <2>2 DEF At, Spent, Collecting, NoObservations
  <2> QED BY <1>0, <2>1, <2>3
           DEF NewsInv, EventOfObserved, PublishPrior, Untold
<1>2. ASSUME UNCHANGED <<engine, deaths, cur, details, observations, events,
                         prior, unsent, late, heard>>,
             \/ pc' = pc
             \/ pc = "stats_read" /\ pc' = "revision"
             \/ pc = "down" /\ pc' = "idle"
             \/ MovesOn
      PROVE  NewsInv'
  <2>1. Less
    BY <1>2 DEF At, Spent, Collecting, MovesOn
  <2> QED BY <1>0, <1>2, <2>1 DEF NewsInv, EventOfObserved, PublishPrior, Untold,
          Told, Tells, Inventory, MovesOn
<1>3. ASSUME NEW u \in Uris, DescribeNotFound(u) PROVE NewsInv'
  BY <1>2, <1>3 DEF DescribeNotFound, engineVars, historyVars
<1>4. CASE LeaveCycle
  <2>1. /\ UNCHANGED <<engine, deaths, late, heard, prior>>
        /\ pc' = "idle"
        /\ observations' = NoObservations /\ events' = {}
    BY <1>4 DEF LeaveCycle, DropFrame, engineVars
  <2>2. Less
    BY <2>1 DEF At, Spent, Collecting, NoObservations
  <2> QED BY <1>0, <2>1, <2>2
           DEF NewsInv, EventOfObserved, PublishPrior, Untold
<1>5. CASE MovesOn
  <2>1. UNCHANGED <<engine, deaths, cur, details, observations, events, prior,
                    unsent, late, heard>>
    BY <1>5 DEF MovesOn, engineVars, localVars, historyVars
  <2> QED BY <1>2, <1>5, <2>1
<1>6. CASE ReadStats
  BY <1>2, <1>6 DEF ReadStats, engineVars, historyVars
<1>7. CASE Reboot \/ UNCHANGED vars
  BY <1>2, <1>7 DEF Reboot, vars, engineVars, runnerVars, localVars, historyVars
<1> QED BY <1>1, <1>3, <1>4, <1>5, <1>6, <1>7, NewsEngineStep, NewsDescribe,
           NewsObserves, NewsAnnounces, NewsFinishCollect, NewsPublish,
           NewsArrive, NewsCrash, Steps

(* No receiver is told of one death twice, whatever calls and publishes    *)
(* fail, however late a failed publish is taken and however often the      *)
(* process dies (runner.py 178-205, 235-270).                              *)
THEOREM DeathsAreHeardOnce == Spec => []DeathsHeardAtMostOnce
<1>1. NewsInv => DeathsHeardAtMostOnce
  BY DEF NewsInv, ToldOnce, DeathsHeardAtMostOnce
<1>2. TypeInv /\ EventInv /\ [Next]_vars => TypeInv' /\ EventInv'
  BY TypeNext, EventNext
<1> QED BY <1>1, <1>2, TypeInit, EventInit, NewsInit, NewsNext, PTL DEF Spec
=============================================================================
