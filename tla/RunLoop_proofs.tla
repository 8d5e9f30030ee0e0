--------------------------- MODULE RunLoop_proofs ---------------------------
(***************************************************************************)
(* Proofs that a stop lets at most one more cycle begin, and that the lock *)
(* of the Condition is held where the code says, for any number of stops,  *)
(* from a handler or from threads; that the process around the loop only   *)
(* runs it as it is; and that blank variables are no variables, for any    *)
(* environments.                                                           *)
(***************************************************************************)
EXTENDS DriverProcess, TLAPS

(* The flag is never lowered, so a cycle that began with the flag up was   *)
(* let in by a test made before, and the next test ends the loop.          *)
LateInv ==
    /\ late \in {0, 1}
    /\ late = 1 => flag = TRUE /\ pc # "begin"

(* However many stops are asked for, at most one cycle begins once the     *)
(* flag is up (process.py 294, runner.py 135).                             *)
THEOREM StopAdmitsOneCycle == Spec => []AtMostOneLateCycle
<1>1. Init => LateInv
  BY DEF Init, LateInv
<1>2. LateInv /\ [Next]_vars => LateInv'
  <2> SUFFICES ASSUME LateInv, [Next]_vars PROVE LateInv'
    OBVIOUS
  <2> USE DEF LateInv
  <2>1. CASE TestStop
    BY <2>1 DEF TestStop
  <2>2. CASE BeginCycle
    BY <2>2 DEF BeginCycle
  <2>3. CASE EndCycle \/ CycleRaises
    BY <2>3 DEF EndCycle, CycleRaises
  <2>4. CASE EnterWait \/ Park \/ SkipPark \/ Notified \/ Timeout
    BY <2>4 DEF EnterWait, Park, SkipPark, Notified, Timeout
  <2>5. CASE Reacquire \/ LeaveWait
    BY <2>5 DEF Reacquire, LeaveWait
  <2>6. ASSUME NEW i \in Stops, RequestStop(i)
        PROVE  LateInv'
    BY <2>6 DEF RequestStop
  <2>7. ASSUME NEW i \in Stops, SetStep(i)
        PROVE  LateInv'
    BY <2>7 DEF SetStep, SetAcquire, RaiseFlag, SetRelease
  <2>8. CASE UNCHANGED vars
    BY <2>8 DEF vars
  <2> QED BY <2>1, <2>2, <2>3, <2>4, <2>5, <2>6, <2>7, <2>8 DEF Next, LoopStep
<1>3. LateInv => AtMostOneLateCycle
  BY DEF LateInv, AtMostOneLateCycle
<1> QED BY <1>1, <1>2, <1>3, PTL DEF Spec
-----------------------------------------------------------------------------
(* A set() between its acquire and its release has the lock.               *)
LockInv ==
    /\ TypeOK
    /\ \A i \in Stops : setter[i] \in {"locked", "release"} => lock = i

LEMMA LoopIsNoStop == /\ Loop \in Nat /\ Loop \notin Stops /\ 0 \notin Stops
                      /\ Loop # 0 /\ Stops \subseteq 0 .. Loop
                      /\ Loop \in 0 .. Loop /\ 0 \in 0 .. Loop
BY StopsAssumption DEF Loop, Stops

LEMMA LockInit == Init => LockInv
<1> SUFFICES ASSUME Init PROVE LockInv
  OBVIOUS
<1>1. late = 0 /\ 0 \in 0 .. 2
  BY DEF Init
<1>2. TypeOK
  BY <1>1, LoopIsNoStop DEF Init, TypeOK, Nobody
<1> QED BY <1>2 DEF LockInv, Init

LEMMA LockNext == LockInv /\ [Next]_vars => LockInv'
<1> SUFFICES ASSUME LockInv, [Next]_vars PROVE LockInv'
  OBVIOUS
<1> USE LoopIsNoStop DEF LockInv, TypeOK, Nobody
<1>1. CASE TestStop \/ EndCycle \/ CycleRaises
  BY <1>1 DEF TestStop, EndCycle, CycleRaises
<1>2. CASE BeginCycle
  <2>1. late' \in 0 .. 2
    BY <1>2 DEF BeginCycle
  <2>2. /\ pc = "begin" /\ pc' = "cycle" /\ failed' = FALSE
        /\ UNCHANGED <<flag, lock, notified, setter>>
    BY <1>2 DEF BeginCycle
  <2> QED BY <2>1, <2>2
<1>3. CASE EnterWait
  BY <1>3 DEF EnterWait
<1>4. CASE Park
  BY <1>4 DEF Park
<1>5. CASE SkipPark \/ Notified \/ Timeout
  BY <1>5 DEF SkipPark, Notified, Timeout
<1>6. CASE Reacquire
  BY <1>6 DEF Reacquire
<1>7. CASE LeaveWait
  BY <1>7 DEF LeaveWait
<1>8. ASSUME NEW i \in Stops, RequestStop(i) PROVE LockInv'
  BY <1>8 DEF RequestStop
<1>9. ASSUME NEW i \in Stops, SetAcquire(i) PROVE LockInv'
  BY <1>9 DEF SetAcquire
<1>10. ASSUME NEW i \in Stops, RaiseFlag(i) PROVE LockInv'
  BY <1>10 DEF RaiseFlag
<1>11. ASSUME NEW i \in Stops, SetRelease(i) PROVE LockInv'
  BY <1>11 DEF SetRelease
<1>12. CASE UNCHANGED vars
  BY <1>12 DEF vars
<1> QED
  BY <1>1, <1>2, <1>3, <1>4, <1>5, <1>6, <1>7, <1>8, <1>9, <1>10, <1>11, <1>12
  DEF Next, LoopStep, SetStep

(* The polling thread has the Event's lock exactly inside wait(), where a  *)
(* handler that calls set() finds it taken (process.py 293-297).           *)
THEOREM LockHeldInsideWait == Spec => []TypeOK
<1>1. LockInv => TypeOK
  BY DEF LockInv
<1> QED BY <1>1, LockInit, LockNext, PTL DEF Spec

-----------------------------------------------------------------------------
(* The process around the loop.                                            *)

(* main does nothing to the loop but start it and wait for it to return:   *)
(* what is proved of the loop holds of the process (process.py 290-308).   *)
THEOREM ProcessRunsTheLoop == ProcessSpec => Spec
<1>1. ProcessInit => Init
  BY DEF ProcessInit
<1>2. [ProcessNext]_processVars => [Next]_vars
  BY DEF ProcessNext, Refuse, BuildRaises, Start, Run, Return, processVars
<1> QED BY <1>1, <1>2, PTL DEF ProcessSpec, Spec

(* The environment is the one the process was started in.                  *)
EnvironInv == environ \in Environments

LEMMA EnvironStep == EnvironInv /\ [ProcessNext]_processVars => EnvironInv'
BY DEF EnvironInv, ProcessNext, Refuse, BuildRaises, Start, Run, Return,
    processVars

(* A blank variable reads as one that is not set, whatever its default.    *)
LEMMA BlankReadsAsUnset ==
    ASSUME NEW e \in Environments
    PROVE  Config(e) = Config([v \in DOMAIN e |->
                                  IF Strip(e[v]) = "" THEN None ELSE e[v]])
<1> DEFINE unset == [v \in DOMAIN e |-> IF Strip(e[v]) = "" THEN None ELSE e[v]]
<1>1. \A n \in Looked : n \in DOMAIN e
  BY EnvironmentsAssumption
<1>2. ASSUME NEW n \in Looked, NEW default
      PROVE  Get(e, n, default) = Get(unset, n, default)
  <2>1. unset[n] = IF Strip(e[n]) = "" THEN None ELSE e[n]
    BY <1>1
  <2>2. Strip(None) = None
    BY ConfigAssumption DEF Strip
  <2> HIDE DEF unset
  <2> QED BY <2>1, <2>2 DEF Get
<1> HIDE DEF unset
<1>3. Config(e) = Config(unset)
  BY <1>2 DEF Config, Looked
<1> QED BY <1>3 DEF unset

(* The blanks that deploy/compose.yaml passes change nothing               *)
(* (process.py 97-101).                                                    *)
THEOREM BlanksAreUnset == ProcessSpec => []BlankMeansUnset
<1>1. EnvironInv => BlankMeansUnset
  BY BlankReadsAsUnset DEF EnvironInv, BlankMeansUnset
<1>2. ProcessInit => EnvironInv
  BY DEF ProcessInit, EnvironInv
<1> QED BY <1>1, <1>2, EnvironStep, PTL DEF ProcessSpec
=============================================================================
