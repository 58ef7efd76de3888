---------------------------- MODULE RunnerProofs ----------------------------
(***************************************************************************)
(* For every limit and every grain of time: run() is type correct, what it *)
(* leaves to compare() is clean, and, for the limits that RLIMIT_CPU can   *)
(* express, nobody is told TLE before its time.                            *)
(***************************************************************************)
EXTENDS Runner, TLAPS

\* The child has not computed for longer than it has run, nor after now.
Clock == cpu <= now /\ endAt <= now

\* Once wait4 has returned, the child is at rest, and for good.
AtRest ==
  pc \in {"woken", "measured", "cancelled"} =>
    /\ child \in {"ended", "stopped"}
    /\ status = "exit" => child = "ended" /\ cause = "exit"

\* The measured real time reaches to the end of the child.
Measured == pc \in {"measured", "cancelled"} => endAt <= real

\* ComparedIsClean, with what keeps it true afterwards: the child is at rest.
Clean ==
  Compared =>
    /\ child \in {"ended", "stopped"}
    /\ status = "stopped" \/ (child = "ended" /\ cause = "exit")
    /\ CpuLimit # 0 => cpu <= CpuLimit
    /\ RealLimit # 0 => endAt <= RealLimit

IInv == TypeOK /\ Clock /\ AtRest /\ Measured /\ Clean

\* The delay of the killer is a time.
LEMMA KillAfterType == KillAfter \in Nat
  BY LimitAssumption, SMT DEF KillAfter

LEMMA InitInv == Init => IInv
  BY LimitAssumption, SMT
  DEF Init, IInv, TypeOK, Clock, AtRest, Measured, Clean, Compared, Signals, Alive

USE DEF IInv, TypeOK, Clock, AtRest, Measured, Clean, Compared, Signals, Alive,
        parentVars, childVars, killerVars

\* Every step of the parent preserves the invariant.
LEMMA ParentStep == IInv /\ Parent => IInv'
<1> SUFFICES ASSUME IInv, Parent PROVE IInv'
  OBVIOUS
<1> USE LimitAssumption
<1>1. CASE ForkFailed
  BY <1>1, SMT DEF ForkFailed, Return
<1>2. CASE Fork
  BY <1>2, SMT DEF Fork
<1>3. CASE Bind
  BY <1>3, SMT DEF Bind
<1>4. CASE BindFailed
  BY <1>4, SMT DEF BindFailed, Kill, End, Return
<1>5. CASE Wait
  BY <1>5, SMT DEF Wait, Reported
<1>6. CASE WaitFailed
  BY <1>6, SMT DEF WaitFailed, Kill, End, Return
<1>7. CASE Measure
  BY <1>7, SMT DEF Measure
<1>8. CASE Cancel
  BY <1>8, SMT DEF Cancel
<1>9. CASE DecideSignal
  BY <1>9, SMT DEF DecideSignal, Return
<1>10. CASE DecideUsage
  <2>1. CASE OverCpu \/ OverReal
    BY <1>10, <2>1, SMT DEF DecideUsage, Return
  <2>2. CASE ~OverCpu /\ ~OverReal
    <3>1. /\ CpuLimit # 0 => cpu <= CpuLimit
          /\ RealLimit # 0 => real <= RealLimit
      BY <2>2, SMT DEF OverCpu, OverReal
    <3>2. result' \in {"MLE", result}
      BY <1>10, <2>2 DEF DecideUsage
    <3>3. UNCHANGED <<now, real, status, childVars, killerVars, struck>>
      BY <1>10 DEF DecideUsage
    <3>4. /\ pc = "cancelled" /\ status \in {"exit", "stopped"}
          /\ pc' = "returned" /\ code' = "SUCCESS"
      BY <1>10 DEF DecideUsage, Return
    <3>5. TypeOK'
      BY <3>2, <3>3, <3>4, SMT
    <3>6. Clock'
      BY <3>3, SMT
    <3>7. AtRest' /\ Measured'
      <4>1. pc' \notin {"woken", "measured", "cancelled"}
        BY <3>4
      <4> QED
        BY <4>1
    <3>8. Clean'
      BY <3>1, <3>3, <3>4, SMT
    <3> HIDE DEF TypeOK, Clock, AtRest, Measured, Clean
    <3> QED
      BY <3>5, <3>6, <3>7, <3>8
  <2> QED
    BY <2>1, <2>2
<1> QED
  BY <1>1, <1>2, <1>3, <1>4, <1>5, <1>6, <1>7, <1>8, <1>9, <1>10
  DEF Parent, Proceed, GiveUp

\* So does every step of the killer, wherever it is aimed.
LEMMA KillerStep == IInv /\ Killer => IInv'
<1> SUFFICES ASSUME IInv, Killer PROVE IInv'
  OBVIOUS
<1>1. CASE Doze
  <2>1. wake' \in Nat
    BY <1>1, KillAfterType, LimitAssumption, SMT DEF Doze
  <2>2. aim' \in {"child", "unknown"} /\ killer' = "asleep"
    BY <1>1 DEF Doze
  <2>3. UNCHANGED <<now, parentVars, childVars, struck>>
    BY <1>1 DEF Doze
  <2>4. TypeOK'
    BY <2>1, <2>2, <2>3, SMT
  <2>5. Clock' /\ AtRest' /\ Measured' /\ Clean'
    BY <2>3, SMT
  <2> HIDE DEF TypeOK, Clock, AtRest, Measured, Clean
  <2> QED
    BY <2>4, <2>5
<1>2. CASE Strike
  <2>1. CASE aim = "child" /\ Kill
    BY <1>2, <2>1, SMT DEF Strike, Kill, End
  <2>2. CASE aim = "unknown"
    <3>1. /\ UNCHANGED <<now, parentVars, childVars, wake, aim>>
          /\ killer' = "gone"
      BY <1>2, <2>2 DEF Strike
    <3>2. struck' = struck \cup {"other"}
      BY <1>2, <2>2 DEF Strike
    <3>3. TypeOK'
      BY <3>1, <3>2, SMT
    <3>4. Clock' /\ AtRest' /\ Measured' /\ Clean'
      BY <3>1, SMT
    <3> HIDE DEF TypeOK, Clock, AtRest, Measured, Clean
    <3> QED
      BY <3>3, <3>4
  <2> QED
    BY <1>2, <2>1, <2>2 DEF Strike
<1> QED
  BY <1>1, <1>2 DEF Killer

\* So does every step of the child and of the kernel.
LEMMA ChildStep == IInv /\ (Child \/ CpuKill \/ Pass) => IInv'
<1> SUFFICES ASSUME IInv, Child \/ CpuKill \/ Pass PROVE IInv'
  OBVIOUS
<1> USE LimitAssumption
<1>1. CASE SetupFailed
  BY <1>1, SMT DEF SetupFailed, End
<1>2. CASE Exec
  BY <1>2, SMT DEF Exec
<1>3. CASE Exit
  BY <1>3, SMT DEF Exit, End
<1>4. CASE Stop
  BY <1>4, SMT DEF Stop
<1>5. CASE CpuKill
  BY <1>5, SMT DEF CpuKill, CpuExpired, End
<1>6. CASE Pass
  BY <1>6, SMT DEF Pass, Late
<1> QED
  BY <1>1, <1>2, <1>3, <1>4, <1>5, <1>6 DEF Child

\* Stuttering does not change anything.
LEMMA StutterStep == IInv /\ UNCHANGED vars => IInv'
  BY SMT DEF vars

\* The inductive invariant holds in every state of run().
LEMMA Invariance == Spec => []IInv
<1>1. IInv /\ [Next]_vars => IInv'
  <2> SUFFICES ASSUME IInv, [Next]_vars PROVE IInv'
    OBVIOUS
  <2> HIDE DEF IInv
  <2> QED
    BY ParentStep, KillerStep, ChildStep, StutterStep DEF Next
<1> QED
  <2> HIDE DEF IInv
  <2> QED
    BY <1>1, InitInv, PTL DEF Spec

\* The variables of run() keep their types, times stay within the bound.
THEOREM TypeCorrect == Spec => []TypeOK
<1>1. IInv => TypeOK
  OBVIOUS
<1> QED
  <2> HIDE DEF IInv, TypeOK
  <2> QED
    BY <1>1, Invariance, PTL

\* Output is compared only for a child that came to its end by itself (or stopped)
\* within its limits, for every limit and every interleaving of parent, killer,
\* child and kernel (runner.c:39-111, 171-180).
THEOREM ComparedIsCleanHolds == Spec => []ComparedIsClean
<1>1. IInv => ComparedIsClean
  BY DEF ComparedIsClean
<1> QED
  <2> HIDE DEF IInv
  <2> QED
    BY <1>1, Invariance, PTL

------------------------- (* the verdict TLE *) ----------------------------
\* The kernel is asked for no less than the limit of the CPU time: whole seconds are not
\* rounded, and the kernel makes a second of less than one.  With other limits TLE may come
\* too early, which is what the run runner_fraction shows.
WholeSeconds == CpuLimit <= 1000 \/ CpuLimit % 1000 = 0

\* What SIGKILL needs to be justified, at the time n.
UsedUp(n) == cpu >= CpuLimit \/ n >= RealLimit

\* The killer that is aimed at the child does not wake before the limit of the real time.
WakesLate == killer = "asleep" /\ aim = "child" => wake >= RealLimit

\* An error ends run(), and nothing is decided before its end.
Undecided ==
  /\ code # "none" => pc = "returned"
  /\ result = "TLE" => code = "SUCCESS"
  /\ cause # "none" => child = "ended"
  /\ pc = "start" => child = "none"

\* Whoever has killed the child for Koj had a reason, unless run() had given it up.
KilledWithReason ==
  cause = "KILL" => code \in {"PTHREAD_FAILED", "WAIT_FAILED"} \/ UsedUp(now)

\* The reason is still there when the parent has measured the time and decides.
ReportedWithReason ==
  /\ status = "XCPU" => cause = "XCPU"
  /\ status = "KILL" =>
       /\ cause \in {"KILL", "FOREIGN"}
       /\ pc \in {"woken", "measured", "cancelled"} /\ cause = "KILL" => UsedUp(now)
       /\ pc \in {"measured", "cancelled"} /\ cause = "KILL" => UsedUp(real)

TimeInv ==
  WakesLate /\ Undecided /\ KilledWithReason /\ ReportedWithReason /\ TimeLimitJustified

LEMMA Delays ==
  ASSUME WholeSeconds
  PROVE  /\ KillAfter >= RealLimit
         /\ CpuSeconds \in Nat /\ CpuSeconds >= CpuLimit
         /\ (Late /\ now \in Nat => now >= RealLimit)
<1>1. KillAfter >= RealLimit
  BY LimitAssumption, SMT DEF KillAfter
<1>2. CpuSeconds \in Nat /\ CpuSeconds >= CpuLimit
  BY LimitAssumption, SMT DEF CpuSeconds, WholeSeconds
<1>3. Late /\ now \in Nat => now >= RealLimit
  BY LimitAssumption, SMT DEF Late
<1> QED
  BY <1>1, <1>2, <1>3

LEMMA TimeStep ==
  ASSUME WholeSeconds, IInv, TimeInv, [Next]_vars
  PROVE  TimeInv'
<1> USE LimitAssumption, KillAfterType
    DEF TimeInv, WakesLate, Undecided, KilledWithReason, ReportedWithReason, TimeLimitJustified,
        UsedUp
<1>1. CASE ForkFailed
  BY <1>1, SMT DEF ForkFailed, Return
<1>2. CASE Fork
  BY <1>2, SMT DEF Fork
<1>3. CASE Bind
  BY <1>3, SMT DEF Bind
<1>4. CASE BindFailed
  BY <1>4, SMT DEF BindFailed, Kill, End, Return
<1>5. CASE Wait
  BY <1>5, SMT DEF Wait, Reported
<1>6. CASE WaitFailed
  BY <1>6, SMT DEF WaitFailed, Kill, End, Return
<1>7. CASE Measure
  BY <1>7, SMT DEF Measure
<1>8. CASE Cancel
  BY <1>8, SMT DEF Cancel
<1>9. CASE DecideSignal
  BY <1>9, SMT DEF DecideSignal, Return
<1>10. CASE DecideUsage
  BY <1>10, SMT DEF DecideUsage, Return, OverCpu, OverReal
<1>11. CASE Doze
  BY <1>11, Delays, SMT DEF Doze
<1>12. CASE Strike
  BY <1>12, Delays, SMT DEF Strike, Kill, End
<1>13. CASE SetupFailed \/ Exec
  BY <1>13, SMT DEF SetupFailed, Exec, End
<1>14. CASE Exit
  BY <1>14, SMT DEF Exit, End
<1>15. CASE Stop
  BY <1>15, SMT DEF Stop
<1>16. CASE CpuKill
  BY <1>16, Delays, SMT DEF CpuKill, CpuExpired, End
<1>17. CASE Pass
  BY <1>17, SMT DEF Pass, Late
<1>18. CASE UNCHANGED vars
  BY <1>18, SMT DEF vars
<1> QED
  BY <1>1, <1>2, <1>3, <1>4, <1>5, <1>6, <1>7, <1>8, <1>9, <1>10, <1>11, <1>12, <1>13, <1>14,
     <1>15, <1>16, <1>17, <1>18
  DEF Next, Parent, Proceed, GiveUp, Killer, Child

\* Nobody is told TLE before its time - except a child that somebody else has killed or
\* that raised SIGXCPU, which run() does not tell from a limit (runner.c:88) -, however
\* parent, killer, child and kernel interleave, as long as the limit of the CPU time is one
\* that RLIMIT_CPU can express (runner.c:54-111, 171-189).
THEOREM TimeLimitJustifiedHolds ==
  ASSUME WholeSeconds
  PROVE  Spec => []TimeLimitJustified
<1>1. Init => TimeInv
  BY LimitAssumption, SMT
  DEF Init, TimeInv, WakesLate, Undecided, KilledWithReason, ReportedWithReason,
      TimeLimitJustified
<1>2. IInv /\ TimeInv /\ [Next]_vars => TimeInv'
  <2> HIDE DEF IInv, TimeInv
  <2> QED
    BY TimeStep
<1>3. TimeInv => TimeLimitJustified
  BY DEF TimeInv
<1> QED
  <2> HIDE DEF IInv, TimeInv, TimeLimitJustified
  <2> QED
    BY <1>1, <1>2, <1>3, Invariance, PTL DEF Spec
=============================================================================
