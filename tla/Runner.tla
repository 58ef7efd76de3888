------------------------------- MODULE Runner -------------------------------
(***************************************************************************)
(* run() of judged (runner.c): the parent forks the submission, binds a    *)
(* killer thread to it, waits for it, and decides from its status and its  *)
(* usage.  Three actors run side by side - parent, killer, child - and     *)
(* the kernel enforces RLIMIT_CPU.  Times are in milliseconds, from the    *)
(* first gettimeofday; limits that are 0 are UNLIMITED.                    *)
(***************************************************************************)
EXTENDS Integers

CONSTANTS
  CpuLimit,    \* task->limit_time_cpu
  RealLimit,   \* task->limit_time_real
  Tick,        \* the grain of time
  MaxTime,     \* bound: from here on time is not counted, it is this late or later
  Faults       \* the system calls that may fail

ASSUME LimitAssumption ==
  /\ CpuLimit \in Nat /\ RealLimit \in Nat
  /\ Tick \in Nat \ {0}
  /\ MaxTime \in Nat /\ RealLimit + Tick <= MaxTime
  /\ Faults \subseteq {"fork", "pthread_create", "wait4", "setup"}

VARIABLES
  now,      \* elapsed time
  pc,       \* where run() stands in the parent
  code,     \* the error_code run() returns
  result,   \* result->result, "SE" until decided
  real,     \* real_time, as measured after wait4
  child,    \* what the child process is doing
  cause,    \* how the child ended: "exit", the name of the signal, or "FOREIGN"
  cpu,      \* user and system time of the child
  memory,   \* the peak memory of the child: "within" its limit or "above" it
  status,   \* what wait4 reported: "stopped", "exit" or the name of the signal
  killer,   \* what the killer thread is doing
  wake,     \* when usleep returns
  aim,      \* the pid the killer has read: the child's, or whatever was there
  endAt,    \* history: when the child ran last
  struck    \* history: where SIGKILL was sent, the "child" or some "other" pid

vars == <<now, pc, code, result, real, child, cause, cpu, memory,
          status, killer, wake, aim, endAt, struck>>

parentVars == <<pc, code, result, real, status>>
childVars == <<child, cause, cpu, memory, endAt>>
killerVars == <<killer, wake, aim>>

\* The signals run() tells apart, and ABRT for those it does not know.
Signals == {"KILL", "XCPU", "XFSZ", "SYS", "SEGV", "USR1", "ABRT"}
Alive == {"setup", "running", "stopped"}

TypeOK ==
  /\ now \in 0..MaxTime /\ cpu \in 0..MaxTime /\ real \in 0..MaxTime
  /\ pc \in {"start", "forked", "waiting", "woken", "measured", "cancelled", "returned"}
  /\ code \in {"none", "SUCCESS", "FORK_FAILED", "PTHREAD_FAILED", "WAIT_FAILED", "CHILD_FAILED"}
  /\ result \in {"SE", "TLE", "OLE", "MLE", "RE"}
  /\ child \in Alive \cup {"none", "ended"}
  /\ cause \in Signals \cup {"none", "exit", "FOREIGN"}
  /\ status \in Signals \cup {"none", "exit", "stopped"}
  /\ memory \in {"within", "above"} /\ struck \subseteq {"child", "other"}
  /\ killer \in {"none", "created", "asleep", "gone", "cancelled"}
  /\ wake \in Nat /\ endAt \in 0..MaxTime
  /\ aim \in {"none", "child", "unknown"}

Init ==
  /\ now = 0 /\ pc = "start" /\ code = "none" /\ result = "SE" /\ real = 0
  /\ child = "none" /\ cause = "none" /\ cpu = 0 /\ memory = "within"
  /\ status = "none"
  /\ killer = "none" /\ wake = 0 /\ aim = "none"
  /\ endAt = 0 /\ struck = {}

-----------------------------------------------------------------------------
\* What setrlimit(RLIMIT_CPU) is given, in ms: whole seconds, rounded down.  The
\* kernel takes a limit of no second for one second.
CpuSeconds == IF CpuLimit < 2000 THEN 1000 ELSE (CpuLimit \div 1000) * 1000

\* Mutant: a tenth of the time.
KillAfterTenth == RealLimit \div 10

\* usleep((useconds_t)(timeout * 1000 * 1.1))
KillAfter == (RealLimit * 11) \div 10

\* Time is no longer counted.
Late == now + Tick > MaxTime

OverCpu == CpuLimit # 0 /\ cpu > CpuLimit
OverReal == RealLimit # 0 /\ real > RealLimit

\* The kernel is about to kill the child for its CPU time.
CpuExpired == CpuLimit # 0 /\ child = "running" /\ cpu >= CpuSeconds

\* Has wait4 removed the child from the process table?
Reaped == status \notin {"none", "stopped"}

\* The child ends for the reason c.
End(c) ==
  /\ child' = "ended" /\ cause' = c
  /\ endAt' = IF child = "stopped" THEN endAt ELSE now

Return(c) == pc' = "returned" /\ code' = c

\* kill(pid, SIGKILL): a child that has ended does not notice it, and the pid of
\* one that has been reaped is no longer its pid.
Kill ==
  /\ IF child \in Alive
       THEN End("KILL")
       ELSE UNCHANGED <<child, cause, endAt>>
  /\ struck' = struck \cup {IF Reaped THEN "other" ELSE "child"}
  /\ UNCHANGED <<cpu, memory>>

---------------------------- (* the parent *) ------------------------------
ForkFailed ==
  /\ pc = "start" /\ "fork" \in Faults
  /\ Return("FORK_FAILED")
  /\ UNCHANGED <<now, result, real, status, childVars, killerVars, struck>>

Fork ==
  /\ pc = "start" /\ pc' = "forked"
  /\ child' = "setup"
  /\ UNCHANGED <<now, code, result, real, status, cause, cpu, memory, endAt, killerVars, struck>>

\* Mutant: the killer is bound only when the CPU time is unlimited.
BindUnlessCpu ==
  /\ pc = "forked" /\ pc' = "waiting"
  /\ killer' = IF RealLimit # 0 /\ CpuLimit = 0 THEN "created" ELSE "none"
  /\ UNCHANGED <<now, code, result, real, status, childVars, wake, aim, struck>>

Bind ==
  /\ pc = "forked" /\ pc' = "waiting"
  /\ killer' = IF RealLimit # 0 THEN "created" ELSE "none"
  /\ UNCHANGED <<now, code, result, real, status, childVars, wake, aim, struck>>

\* pthread_create fails: the child is killed and never waited for.
BindFailed ==
  /\ pc = "forked" /\ RealLimit # 0 /\ "pthread_create" \in Faults
  /\ Kill
  /\ Return("PTHREAD_FAILED")
  /\ UNCHANGED <<now, result, real, status, killerVars>>

\* The status of an ended child: SIGKILL is SIGKILL, whoever sent it.
Reported == IF cause = "FOREIGN" THEN "KILL" ELSE cause

\* wait4 with WUNTRACED: a child that has stopped is reported, and stays.
Wait ==
  /\ pc = "waiting" /\ child \in {"ended", "stopped"}
  /\ pc' = "woken"
  /\ status' = IF child = "ended" THEN Reported ELSE "stopped"
  /\ UNCHANGED <<now, code, result, real, childVars, killerVars, struck>>

\* wait4 fails: the child is killed, not and the killer not cancelled.
WaitFailed ==
  /\ pc = "waiting" /\ "wait4" \in Faults
  /\ Kill
  /\ Return("WAIT_FAILED")
  /\ UNCHANGED <<now, result, real, status, killerVars>>

\* Mutant: start and end swapped.
MeasureSwapped ==
  /\ pc = "woken" /\ pc' = "measured"
  /\ real' = 0 - now
  /\ UNCHANGED <<now, code, result, status, childVars, killerVars, struck>>

\* The second gettimeofday.
Measure ==
  /\ pc = "woken" /\ pc' = "measured"
  /\ real' = now
  /\ UNCHANGED <<now, code, result, status, childVars, killerVars, struck>>

\* pthread_cancel: a thread in usleep, or on its way to it, goes no further.
Cancel ==
  /\ pc = "measured" /\ pc' = "cancelled"
  /\ killer' = IF killer \in {"created", "asleep"} THEN "cancelled" ELSE killer
  /\ UNCHANGED <<now, code, result, real, status, childVars, wake, aim, struck>>

\* The child was ended by a signal.
DecideSignal ==
  /\ pc = "cancelled" /\ status \in Signals
  /\ \/ status \in {"KILL", "XCPU"} /\ Return("SUCCESS") /\ result' = "TLE"
     \/ status = "XFSZ" /\ Return("SUCCESS") /\ result' = "OLE"
     \/ status = "SYS" /\ Return("SUCCESS") /\ result' = "RE"
     \/ status = "SEGV" /\ Return("SUCCESS") /\ result' = IF memory = "above" THEN "MLE" ELSE "RE"
     \/ status \in {"USR1", "ABRT"} /\ Return("CHILD_FAILED") /\ UNCHANGED result
  /\ UNCHANGED <<now, real, status, childVars, killerVars, struck>>

\* Mutant: the real time is left to the killer.
DecideUsageCpuOnly ==
  /\ pc = "cancelled" /\ status \in {"exit", "stopped"}
  /\ Return("SUCCESS")
  /\ result' = IF OverCpu THEN "TLE" ELSE IF memory = "above" THEN "MLE" ELSE result
  /\ UNCHANGED <<now, real, status, childVars, killerVars, struck>>

\* The child exited, whatever its exit status, or stopped.  RLIMIT_FSIZE keeps the
\* output within the limit that is tested last.
DecideUsage ==
  /\ pc = "cancelled" /\ status \in {"exit", "stopped"}
  /\ Return("SUCCESS")
  /\ result' = IF OverCpu \/ OverReal THEN "TLE" ELSE IF memory = "above" THEN "MLE" ELSE result
  /\ UNCHANGED <<now, real, status, childVars, killerVars, struck>>

---------------------------- (* the killer *) ------------------------------
\* The thread reads pid and timeout from the block of the parent that created it,
\* and sleeps.  That block is over by then; once wait4 has written its results the
\* bytes may be anything, and so may the pid and the timeout; the same when run() has
\* returned from a failed wait4.
Doze ==
  /\ killer = "created" /\ killer' = "asleep"
  /\ \/ /\ aim' = "child" /\ wake' = now + KillAfter
     \/ /\ pc \in {"woken", "measured", "returned"}
        /\ aim' = "unknown" /\ wake' = now
  /\ UNCHANGED <<now, parentVars, childVars, struck>>

Strike ==
  /\ killer = "asleep"
  /\ now >= wake \/ Late
  /\ killer' = "gone"
  /\ \/ aim = "child" /\ Kill
     \/ aim = "unknown" /\ struck' = struck \cup {"other"} /\ UNCHANGED childVars
  /\ UNCHANGED <<now, parentVars, wake, aim>>

----------------------------- (* the child *) ------------------------------
\* setrlimit, a file or execve fails: the child raises SIGUSR1.
SetupFailed ==
  /\ child = "setup" /\ "setup" \in Faults
  /\ End("USR1")
  /\ UNCHANGED <<now, parentVars, cpu, memory, killerVars, struck>>

Exec ==
  /\ child = "setup" /\ child' = "running"
  /\ UNCHANGED <<now, parentVars, cause, cpu, memory, endAt, killerVars, struck>>

\* The program exits, a signal of its own making ends it - a limit it ran into, a call
\* that is not one, or one it raised -, or a SIGKILL that does not come from Koj: the
\* program's own, or the one of the kernel short of memory.  RLIMIT_CPU is the same hard
\* and soft, so the kernel sends SIGKILL and XCPU comes from the program alone.
Exit ==
  /\ child = "running" /\ ~CpuExpired
  /\ \E c \in {"exit", "XCPU", "XFSZ", "SYS", "SEGV", "USR1", "ABRT", "FOREIGN"} : End(c)
  /\ memory' \in {"within", "above"}
  /\ UNCHANGED <<now, parentVars, cpu, killerVars, struck>>

\* The program stops; nothing ever continues it.
Stop ==
  /\ child = "running" /\ ~CpuExpired
  /\ child' = "stopped" /\ endAt' = now
  /\ memory' \in {"within", "above"}
  /\ UNCHANGED <<now, parentVars, cause, cpu, killerVars, struck>>

---------------------------- (* the kernel *) ------------------------------
CpuKill ==
  /\ CpuExpired
  /\ End("KILL")
  /\ UNCHANGED <<now, parentVars, cpu, memory, killerVars, struck>>

\* Time passes, and the child has computed in the meantime or it has not.
Pass ==
  /\ ~CpuExpired /\ ~Late
  /\ now' = now + Tick
  /\ \/ UNCHANGED cpu
     \/ child = "running" /\ cpu' = cpu + Tick
  /\ UNCHANGED <<parentVars, child, cause, memory, endAt, killerVars, struck>>

-----------------------------------------------------------------------------
Proceed ==
  \/ Fork \/ Bind \/ Wait \/ Measure \/ Cancel \/ DecideSignal \/ DecideUsage

GiveUp == ForkFailed \/ BindFailed \/ WaitFailed

Parent == Proceed \/ GiveUp

Killer == Doze \/ Strike

Child == SetupFailed \/ Exec \/ Exit \/ Stop

Next == Parent \/ Killer \/ Child \/ CpuKill \/ Pass

\* Parent and killer are threads the kernel schedules, and time passes.  No system
\* call has to fail, and nothing is asked of the child: it may loop, sleep or stop
\* for ever.
Fairness == WF_vars(Proceed) /\ WF_vars(Killer) /\ WF_vars(CpuKill) /\ WF_vars(Pass)

Spec == Init /\ [][Next]_vars /\ Fairness

-----------------------------------------------------------------------------
\* run() returned SUCCESS without a verdict, so that judge() compares the output.
Compared == pc = "returned" /\ code = "SUCCESS" /\ result = "SE"

\* Output is compared only for a child that stayed within its limits and came to
\* its end by itself, also where the killer, the kernel and the exit of the child
\* race (runner.c:56-62, 86-111).
ComparedIsClean ==
  Compared =>
    /\ cause = "exit" \/ status = "stopped"
    /\ CpuLimit # 0 => cpu <= CpuLimit
    /\ RealLimit # 0 => endAt <= RealLimit

\* run() returns for every child - one that loops, sleeps or stops - as long as a
\* real time limit is set (runner.c:40-51, 56, 171-180).
Returns == <>(pc = "returned")

\* The limit is in milliseconds of "user_time + sys_time" (types.h:55): TLE is for a
\* child that used up that time or whose real time is over its own limit, except for
\* one that somebody else killed (runner.c:88-89, 104-106, 176, 188) and one that sent
\* itself SIGXCPU, which runner.c:88 takes for the limit.
TimeLimitJustified ==
  result = "TLE" => cause \in {"FOREIGN", "XCPU"} \/ cpu >= CpuLimit \/ real >= RealLimit

\* "bind child a killer" (runner.c:39): the killer kills the child it is bound to
\* and no other process.
KillerBoundToChild == "other" \notin struck
=============================================================================
