------------------------------ MODULE RunLoop -------------------------------
(***************************************************************************)
(* How the polling process runs and stops: DriverRunner.run_forever        *)
(* (src/miraasdk/driver/runner.py) and the signal handler of main          *)
(* (src/miraasdk/driver/process.py), which share a threading.Event.        *)
(*                                                                         *)
(* The Event is CPython's: a flag guarded by a Condition whose lock is not *)
(* re-entrant.  wait() holds the lock while it reads the flag and while it *)
(* parks and unparks, and set() takes it to raise the flag.  A signal      *)
(* handler runs on the main thread between two bytecodes of whatever the   *)
(* main thread is doing, and nothing else of that thread runs until the    *)
(* handler returns.  A stop called from another thread only competes for   *)
(* the lock.                                                               *)
(***************************************************************************)
EXTENDS Naturals

CONSTANTS
    Stopper,    \* "signal": _terminate calls set(); "thread": another thread does
    MaxStops    \* bound: calls of set()

ASSUME StopperAssumption == Stopper \in {"signal", "thread"}
ASSUME StopsAssumption == MaxStops \in Nat

Stops == 1 .. MaxStops

VARIABLES
    pc,         \* the polling thread
    failed,     \* a cycle ended in a DriverError and none was begun since
    flag,       \* Event._flag
    lock,       \* who holds the Condition's lock: 0 nobody, or
    notified,   \* the parked waiter has been notified
    setter,     \* per stop: where its set() is
    late        \* history: cycles begun with the flag already up, up to 2

vars == <<pc, failed, flag, lock, notified, setter, late>>

Nobody == 0
Loop   == MaxStops + 1      \* the polling thread as a holder of the lock

Active(i) == setter[i] \in {"acquire", "locked", "release"}

(* A handler suspends what it interrupts, an earlier handler included.     *)
LoopRuns   == Stopper = "signal" => \A i \in Stops : ~Active(i)
SetRuns(i) == /\ Active(i)
              /\ Stopper = "signal" => \A j \in Stops : j > i => ~Active(j)

Over == pc \in {"exited", "raised"}

Init ==
    /\ pc = "test"
    /\ failed = FALSE
    /\ flag = FALSE
    /\ lock = Nobody
    /\ notified = FALSE
    /\ setter = [i \in Stops |-> "idle"]
    /\ late = 0

-----------------------------------------------------------------------------
(* run_forever.                                                            *)

(* A bug: the loop does not look at the event.                             *)
TestStop_Forever ==
    /\ pc = "test" /\ LoopRuns
    /\ pc' = "begin"
    /\ UNCHANGED <<failed, flag, lock, notified, setter, late>>

TestStop ==
    /\ pc = "test" /\ LoopRuns
    /\ pc' = IF flag THEN "exited" ELSE "begin"
    /\ UNCHANGED <<failed, flag, lock, notified, setter, late>>

BeginCycle ==
    /\ pc = "begin" /\ LoopRuns
    /\ pc' = "cycle"
    /\ failed' = FALSE
    /\ late' = IF flag /\ late < 2 THEN late + 1 ELSE late
    /\ UNCHANGED <<flag, lock, notified, setter>>

(* A bug: a DriverError is not caught.                                     *)
EndCycle_ErrorEscapes ==
    /\ pc = "cycle" /\ LoopRuns
    /\ failed' \in BOOLEAN
    /\ pc' = IF failed' THEN "raised" ELSE "wait"
    /\ UNCHANGED <<flag, lock, notified, setter, late>>

(* run_once returns or raises a DriverError, which is ridden out.          *)
EndCycle ==
    /\ pc = "cycle" /\ LoopRuns
    /\ pc' = "wait"
    /\ failed' \in BOOLEAN
    /\ UNCHANGED <<flag, lock, notified, setter, late>>

(* Any other exception leaves run_forever and main.                        *)
CycleRaises ==
    /\ pc = "cycle" /\ LoopRuns
    /\ pc' = "raised"
    /\ UNCHANGED <<failed, flag, lock, notified, setter, late>>

-----------------------------------------------------------------------------
(* stop_event.wait(interval - elapsed).                                    *)

EnterWait ==
    /\ pc = "wait" /\ LoopRuns
    /\ lock = Nobody
    /\ lock' = Loop
    /\ pc' = "entered"
    /\ UNCHANGED <<failed, flag, notified, setter, late>>

Park ==
    /\ pc = "entered" /\ LoopRuns
    /\ ~flag
    /\ pc' = "parked"
    /\ lock' = Nobody
    /\ notified' = FALSE
    /\ UNCHANGED <<failed, flag, setter, late>>

SkipPark ==
    /\ pc = "entered" /\ LoopRuns
    /\ flag
    /\ pc' = "leaving"
    /\ UNCHANGED <<failed, flag, lock, notified, setter, late>>

Timeout ==
    /\ pc = "parked" /\ LoopRuns
    /\ pc' = "waking"
    /\ UNCHANGED <<failed, flag, lock, notified, setter, late>>

Notified ==
    /\ pc = "parked" /\ LoopRuns
    /\ notified
    /\ pc' = "waking"
    /\ UNCHANGED <<failed, flag, lock, notified, setter, late>>

Reacquire ==
    /\ pc = "waking" /\ LoopRuns
    /\ lock = Nobody
    /\ lock' = Loop
    /\ pc' = "leaving"
    /\ UNCHANGED <<failed, flag, notified, setter, late>>

(* A bug: an early return that skips the release.                          *)
LeaveWait_KeepsLock ==
    /\ pc = "leaving" /\ LoopRuns
    /\ pc' = "test"
    /\ UNCHANGED <<failed, flag, lock, notified, setter, late>>

LeaveWait ==
    /\ pc = "leaving" /\ LoopRuns
    /\ lock' = Nobody
    /\ pc' = "test"
    /\ UNCHANGED <<failed, flag, notified, setter, late>>

-----------------------------------------------------------------------------
(* stop.set(), from the handler or from a thread.                          *)

RequestStop(i) ==
    /\ ~Over
    /\ setter[i] = "idle"
    /\ \A j \in Stops : j < i => setter[j] # "idle"
    /\ setter' = [setter EXCEPT ![i] = "acquire"]
    /\ UNCHANGED <<pc, failed, flag, lock, notified, late>>

SetAcquire(i) ==
    /\ setter[i] = "acquire" /\ SetRuns(i)
    /\ lock = Nobody
    /\ lock' = i
    /\ setter' = [setter EXCEPT ![i] = "locked"]
    /\ UNCHANGED <<pc, failed, flag, notified, late>>

RaiseFlag(i) ==
    /\ setter[i] = "locked" /\ SetRuns(i)
    /\ flag' = TRUE
    /\ notified' = (notified \/ pc = "parked")
    /\ setter' = [setter EXCEPT ![i] = "release"]
    /\ UNCHANGED <<pc, failed, lock, late>>

SetRelease(i) ==
    /\ setter[i] = "release" /\ SetRuns(i)
    /\ lock' = Nobody
    /\ setter' = [setter EXCEPT ![i] = "done"]
    /\ UNCHANGED <<pc, failed, flag, notified, late>>

-----------------------------------------------------------------------------
LoopStep ==
    \/ TestStop \/ BeginCycle \/ EndCycle \/ CycleRaises
    \/ EnterWait \/ Park \/ SkipPark \/ Notified \/ Reacquire \/ LeaveWait

SetStep(i) == SetAcquire(i) \/ RaiseFlag(i) \/ SetRelease(i)

(* Once the process is over its threads are gone: TLC sees a deadlock      *)
(* there and nowhere else unless the code has one.                         *)
Next ==
    \/ LoopStep
    \/ Timeout
    \/ \E i \in Stops : RequestStop(i) \/ SetStep(i)

Spec == Init /\ [][Next]_vars

(* Threads run and cycles end (every request has a timeout).  A set() that *)
(* waits for the lock gets it if the lock is free again and again: the     *)
(* loop holds it for a few bytecodes between cycles that take requests and *)
(* waits that take an interval.  How long the interval is, is the          *)
(* operator's: a stop must not depend on it, so StopSpec does not make the *)
(* timeout happen.                                                         *)
ThreadFairness ==
    /\ WF_vars(LoopStep)
    /\ \A i \in Stops : WF_vars(SetStep(i)) /\ SF_vars(SetAcquire(i))

StopSpec == Spec /\ ThreadFairness

-----------------------------------------------------------------------------
(* Properties.                                                             *)

(* Every variable has its type, and the loop holds the Condition's lock    *)
(* exactly where it is inside wait().                                      *)
TypeOK ==
    /\ pc \in {"test", "begin", "cycle", "wait", "entered", "parked",
               "waking", "leaving", "exited", "raised"}
    /\ failed \in BOOLEAN /\ flag \in BOOLEAN /\ notified \in BOOLEAN
    /\ lock \in 0 .. Loop
    /\ lock = Loop <=> pc \in {"entered", "leaving"}
    /\ setter \in [Stops -> {"idle", "acquire", "locked", "release", "done"}]
    /\ late \in 0 .. 2

(* "Stopping after the current cycle" (process.py 294): a stop that lands  *)
(* between the test and the call of run_once lets that cycle run, and no   *)
(* stop lets two.                                                          *)
AtMostOneLateCycle == late <= 1

(* A stop that is requested ends the loop, however long the interval is    *)
(* and however cycles end: the handler's own message is "received signal   *)
(* %d, stopping after the current cycle" (process.py 294).                 *)
StopEndsLoop == (\E i \in Stops : Active(i)) ~> Over

(* A DriverError never ends the polling: where waits time out, the next    *)
(* cycle is begun unless a stop was asked for (runner.py 139-143).         *)
FailedCycleRetried ==
    []<>(pc # "parked") =>
        (failed ~> (pc = "cycle" \/ \E i \in Stops : setter[i] # "idle"))
=============================================================================
