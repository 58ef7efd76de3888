-------------------------- MODULE JudgeTaskProofs --------------------------
(***************************************************************************)
(* For every data directory, every number of tests and every conduct of a  *)
(* program: the block of Judger#start is type correct, publishes the       *)
(* verdict of the first test that did not pass, or AC when all have, and   *)
(* with it the peak of the times.                                          *)
(***************************************************************************)
EXTENDS JudgeTask, TLAPS

\* Within the loop there is a test at hand, and it has been taken from the entries.
AtHand == pc \in {"run", "compare", "collect"} => test \in Visited

\* The verdict of the call of judge() follows the conduct of the test: what compare() reads
\* is the output of the run before it, whatever an earlier delivery left in the directory.
Judged ==
  /\ pc = "run" => verdict = "SE"
  /\ pc = "compare" => ans = test
  /\ pc = "collect" => verdict = VerdictOf(conduct[test])

\* Before a test fails all tests visited have passed, and the result says so.
SoFar ==
  /\ pc \in {"compile", "list"} => result = "SE"
  /\ pc = "entry" =>
       /\ \A t \in Visited : Passes(t)
       /\ result = IF Visited = {} THEN "SE" ELSE "AC"
  /\ pc \in {"run", "compare", "collect"} => \A t \in Visited \ {test} : Passes(t)

AllPassed == todo = {} /\ \A t \in Tests : Passes(t)

\* The test that decided: it did not pass, the others visited did.
Decided(t) ==
  /\ ~Passes(t)
  /\ result = VerdictOf(conduct[t])
  /\ \A s \in Visited \ {t} : Passes(s)

\* What stands behind a result that is about to be published, or has been.
Owed ==
  pc \in {"publish", "published"} =>
    \/ result = "CE"
    \/ AllPassed /\ result = IF Tests = {} THEN "SE" ELSE "AC"
    \/ \E t \in Visited : Decided(t)

IInv == TypeOK /\ AtHand /\ Judged /\ SoFar /\ Owed

\* A conduct has a verdict of its own, and AC is the one of those that pass.
LEMMA VerdictOfConduct ==
  ASSUME NEW c \in Conducts
  PROVE  /\ VerdictOf(c) \in {"SE", "AC", "PE", "WA", "TLE", "RE"}
         /\ VerdictOf(c) = "AC" <=> c = "right"
         /\ c = "error" => VerdictOf(c) = "SE"
  BY SMT DEF VerdictOf, Conducts

\* A peak is one of the two values it is taken of.
LEMMA PeakType ==
  ASSUME NEW p \in Usages \cup {NoTime}, NEW v \in Usages
  PROVE  Peak(p, v) \in Usages
  BY TaskAssumption, SMT DEF Peak, NoTime

LEMMA InitInv == Init => IInv
  BY SMT DEF Init, IInv, TypeOK, AtHand, Judged, SoFar, Owed, NoTime

USE DEF IInv, TypeOK, AtHand, Judged, SoFar, Owed, Visited, taskVars

\* Outside the loop: compilation, the directory, entries that are no test.
LEMMA FrameStep ==
  ASSUME IInv, Compiled \/ CompileFailed \/ ListData \/ NoData \/ Publish
  PROVE  IInv'
<1>1. CASE Compiled
  BY <1>1, SMT DEF Compiled
<1>2. CASE CompileFailed
  BY <1>2, SMT DEF CompileFailed
<1>3. CASE ListData
  BY <1>3, TaskAssumption, SMT DEF ListData
<1>4. CASE NoData
  BY <1>4, SMT DEF NoData
<1>5. CASE Publish
  BY <1>5, SMT DEF Publish, AllPassed, Decided, Passes
<1> QED
  BY <1>1, <1>2, <1>3, <1>4, <1>5

\* The entries of the directory.
LEMMA EntryStep ==
  ASSUME IInv, AllSeen \/ \E e \in Entries : Skip(e) \/ Call(e)
  PROVE  IInv'
<1>1. CASE AllSeen
  BY <1>1, SMT DEF AllSeen, AllPassed, Passes
<1>2. ASSUME NEW e \in Entries, Skip(e) PROVE IInv'
  BY <1>2, SMT DEF Skip, Passes
<1>3. ASSUME NEW e \in Entries, Call(e) PROVE IInv'
  BY <1>3, SMT DEF Call, Passes
<1> QED
  BY <1>1, <1>2, <1>3

\* The call of judge().
LEMMA JudgeStep ==
  ASSUME IInv, RunQuiet \/ RunVerdict \/ RunFailed \/ Compare
  PROVE  IInv'
<1> conduct[test] \in Conducts \/ pc \notin {"run", "compare", "collect"}
  OBVIOUS
<1>1. CASE RunQuiet
  BY <1>1, SMT DEF RunQuiet, Passes
<1>2. CASE RunVerdict
  BY <1>2, VerdictOfConduct, SMT DEF RunVerdict, Passes
<1>3. CASE RunFailed
  BY <1>3, VerdictOfConduct, SMT DEF RunFailed, Passes
<1>4. CASE Compare
  BY <1>4, VerdictOfConduct, SMT DEF Compare, Compared, Passes
<1> QED
  BY <1>1, <1>2, <1>3, <1>4

\* The reply is folded into the result.
LEMMA CollectStep == ASSUME IInv, Collect PROVE IInv'
<1>1. /\ test \in Visited /\ conduct[test] \in Conducts
      /\ verdict = VerdictOf(conduct[test])
  BY DEF Collect
<1>2. time' \in Usages
  BY <1>1, PeakType DEF Collect
<1>3. CASE verdict = "AC"
  <2>1. pc' = "entry" /\ result' = "AC"
    BY <1>3 DEF Collect
  <2>2. UNCHANGED <<conduct, usage, todo, test, verdict, ans>>
    BY DEF Collect
  <2>3. Passes(test)
    BY <1>1, <1>3, VerdictOfConduct DEF Passes
  <2>4. \A t \in Visited : Passes(t)
    BY <2>3 DEF Collect
  <2>5. TypeOK'
    BY <1>2, <2>1, <2>2, SMT
  <2>6. AtHand' /\ Judged' /\ Owed'
    BY <2>1, SMT
  <2>7. SoFar'
    BY <1>1, <2>1, <2>2, <2>4, SMT DEF Passes
  <2> HIDE DEF TypeOK, AtHand, Judged, Owed, SoFar
  <2> QED
    BY <2>5, <2>6, <2>7
<1>4. CASE verdict # "AC"
  BY <1>1, <1>2, <1>4, VerdictOfConduct, SMT DEF Collect, Passes, Decided
<1> QED
  BY <1>3, <1>4

\* The inductive invariant holds at every point of the block.
LEMMA Invariance == Spec => []IInv
<1>1. IInv /\ [Next]_vars => IInv'
  <2> SUFFICES ASSUME IInv, [Next]_vars PROVE IInv'
    OBVIOUS
  <2>1. CASE UNCHANGED vars
    BY <2>1, SMT DEF vars, AllPassed, Decided, Passes
  <2> HIDE DEF IInv
  <2> QED
    BY <2>1, FrameStep, EntryStep, JudgeStep, CollectStep DEF Next
<1> QED
  <2> HIDE DEF IInv
  <2> QED
    BY <1>1, InitInv, PTL DEF Spec

\* The variables of the block keep their types.
THEOREM TypeCorrect == Spec => []TypeOK
<1>1. IInv => TypeOK
  OBVIOUS
<1> QED
  <2> HIDE DEF IInv, TypeOK
  <2> QED
    BY <1>1, Invariance, PTL

\* AC is published only for a problem that has tests all of which passed, however
\* many there are and in whatever order they come (judger.rb:156-192).
THEOREM AcceptedPassesAllHolds == Spec => []AcceptedPassesAll
<1>1. IInv => AcceptedPassesAll
  <2> SUFFICES ASSUME IInv, pc = "published", result = "AC"
               PROVE  Tests # {} /\ \A t \in Tests : Passes(t)
    BY DEF AcceptedPassesAll
  <2>1. ~ \E t \in Visited : Decided(t)
    BY VerdictOfConduct DEF Decided, Passes
  <2> QED
    BY <2>1 DEF AllPassed
<1> QED
  <2> HIDE DEF IInv
  <2> QED
    BY <1>1, Invariance, PTL

\* Any other verdict is owed to the first test that did not pass, all visited before
\* it having passed (judger.rb:176, 187-188).
THEOREM VerdictOfFirstFailureHolds == Spec => []VerdictOfFirstFailure
<1>1. IInv => VerdictOfFirstFailure
  BY SMT DEF VerdictOfFirstFailure, AllPassed, Decided
<1> QED
  <2> HIDE DEF IInv
  <2> QED
    BY <1>1, Invariance, PTL
----------------------------- (* the time *) -------------------------------
\* The tests whose reply has been folded into the result.
Counted == IF pc \in {"run", "compare", "collect"} THEN Visited \ {test} ELSE Visited

Ahead == {"compile", "list"}
Loop == {"entry", "run", "compare", "collect"}

\* The time is one of those that were counted, and none of them is larger.
PeakInv ==
  /\ pc \in Ahead => time = NoTime
  /\ time # NoTime => \E t \in Counted : time = usage[t]
  /\ pc \in Loop \/ time # NoTime => \A t \in Counted : usage[t] <= time

LEMMA PeakInit == Init => PeakInv
  BY SMT DEF Init, PeakInv, Ahead, Loop, NoTime

\* Only Collect changes the time or the tests that were counted; the list of the directory
\* comes when there is no time yet.
LEMMA PeakFrame ==
  ASSUME IInv, PeakInv, [Next]_vars, ~Collect
  PROVE  PeakInv'
<1> USE DEF PeakInv, Counted, Ahead, Loop
<1>1. CASE Compiled \/ CompileFailed \/ NoData \/ ListData
  BY <1>1, TaskAssumption, SMT DEF Compiled, CompileFailed, NoData, ListData
<1>2. ASSUME NEW e \in Entries, Skip(e) PROVE PeakInv'
  BY <1>2, SMT DEF Skip
<1>3. ASSUME NEW e \in Entries, Call(e) PROVE PeakInv'
  BY <1>3, SMT DEF Call
<1>4. CASE RunQuiet \/ RunVerdict \/ RunFailed \/ Compare
  BY <1>4, SMT DEF RunQuiet, RunVerdict, RunFailed, Compare
<1>5. CASE AllSeen \/ Publish
  BY <1>5, SMT DEF AllSeen, Publish
<1>6. CASE UNCHANGED vars
  BY <1>6, SMT DEF vars
<1> QED
  BY <1>1, <1>2, <1>3, <1>4, <1>5, <1>6 DEF Next

LEMMA PeakCollect ==
  ASSUME IInv, PeakInv, Collect
  PROVE  PeakInv'
<1>1. /\ test \in Visited /\ usage[test] \in Nat /\ pc = "collect"
      /\ \A t \in Visited : usage[t] \in Nat
  <2>1. usage \in [Tests -> Usages] /\ pc = "collect" /\ test \in Visited
    BY DEF Collect
  <2>2. ASSUME NEW t \in Tests PROVE usage[t] \in Nat
    BY <2>1, TaskAssumption
  <2> QED
    BY <2>1, <2>2
<1>2. /\ time' = Peak(time, usage[test]) /\ pc' \in {"entry", "publish"}
      /\ UNCHANGED <<usage, todo, test>>
  BY SMT DEF Collect
<1>3. Counted' = Visited /\ Counted = Visited \ {test}
  BY <1>1, <1>2, SMT DEF Counted
<1>4. time \in Int
  BY TaskAssumption, SMT DEF NoTime
<1>5. \E t \in Visited : time' = usage[t]
  BY <1>1, <1>2, <1>3, SMT DEF PeakInv, Peak
<1>6. \A t \in Visited : usage[t] <= time'
  BY <1>1, <1>2, <1>3, <1>4, SMT DEF PeakInv, Loop, Peak, NoTime
<1> QED
  BY <1>2, <1>3, <1>5, <1>6, SMT DEF PeakInv, Ahead

\* The published time is the largest of the tests that were run, of any number in any
\* order (judger.rb:185-186).
THEOREM TimeIsPeakHolds == Spec => []TimeIsPeak
<1>1. IInv /\ PeakInv /\ [Next]_vars => PeakInv'
  BY PeakFrame, PeakCollect
<1>2. PeakInv => TimeIsPeak
  BY SMT DEF PeakInv, TimeIsPeak, Counted
<1> QED
  <2> HIDE DEF IInv
  <2> QED
    BY <1>1, <1>2, PeakInit, Invariance, PTL DEF Spec
=============================================================================
