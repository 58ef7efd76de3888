----------------------------- MODULE JudgeTask -----------------------------
(***************************************************************************)
(* One task in the hands of a judger: the block of Judger#start            *)
(* (judger.rb) from the work directory to the publication, and judge() of  *)
(* judged (judge.c), called once per test with no source and no compiler   *)
(* command.  How run() comes to its outcome is the subject of Runner, how  *)
(* compare() does that of Comparor; here a test has one of their outcomes. *)
(***************************************************************************)
EXTENDS Integers

CONSTANTS
  Entries,    \* the entries of the data directory of the problem
  Tests,      \* those that end in .in and have their .out
  Usages,     \* the values res['time'] takes
  Broken      \* the tests on which run() may fail: no process, no file, an unknown signal

ASSUME TaskAssumption ==
  /\ Tests \subseteq Entries
  /\ Broken \subseteq Tests
  /\ Usages \subseteq Nat

None == "none"   \* no test, no file
NoTime == -1     \* nil

\* What the program does with a test: output that compare() accepts, accepts but
\* for the layout or refuses; a verdict of run(); a run() that returns an error.
Conducts == {"right", "layout", "wrong", "slow", "crash", "error"}

VerdictOf(c) ==
  CASE c = "right"  -> "AC"
    [] c = "layout" -> "PE"
    [] c = "wrong"  -> "WA"
    [] c = "slow"   -> "TLE"
    [] c = "crash"  -> "RE"
    [] c = "error"  -> "SE"

VARIABLES
  conduct,    \* conduct[t]: what the program does with test t
  usage,      \* usage[t]: the time it takes
  pc,         \* where the block stands
  todo,       \* the entries each_entry has still to give
  test,       \* the test at hand
  result,     \* result[:result]
  time,       \* result[:time]
  verdict,    \* result->result of the call of judge() at hand
  ans         \* the run whose output is in the file ans

vars == <<conduct, usage, pc, todo, test, result, time, verdict, ans>>

taskVars == <<conduct, usage>>

TypeOK ==
  /\ conduct \in [Tests -> Conducts] /\ usage \in [Tests -> Usages]
  /\ pc \in {"compile", "list", "entry", "run", "compare", "collect", "publish", "published", "raised"}
  /\ todo \subseteq Entries
  /\ test \in Tests \cup {None}
  /\ result \in {"SE", "CE", "AC", "PE", "WA", "TLE", "RE"}
  /\ time \in Usages \cup {NoTime}
  /\ verdict \in {"SE", "AC", "PE", "WA", "TLE", "RE"}
  /\ ans \in Tests \cup {None, "earlier"}

\* A task that was delivered before may find the directory with the ans of that time.
Init ==
  /\ conduct \in [Tests -> Conducts] /\ usage \in [Tests -> Usages]
  /\ \A t \in Tests : conduct[t] = "error" => t \in Broken
  /\ pc = "compile"
  /\ todo = {} /\ test = None
  /\ result = "SE" /\ time = NoTime /\ verdict = "SE"
  /\ ans \in {None, "earlier"}

-----------------------------------------------------------------------------
\* The language has no compiler command, or the command succeeds.
Compiled ==
  /\ pc = "compile" /\ pc' = "list"
  /\ UNCHANGED <<taskVars, todo, test, result, time, verdict, ans>>

CompileFailed ==
  /\ pc = "compile" /\ pc' = "publish"
  /\ result' = "CE"
  /\ UNCHANGED <<taskVars, todo, test, time, verdict, ans>>

ListData ==
  /\ pc = "list" /\ pc' = "entry"
  /\ todo' = Entries
  /\ UNCHANGED <<taskVars, test, result, time, verdict, ans>>

\* Dir.new raises, or a limit of the problem is nil: the exception leaves the block.
NoData ==
  /\ pc = "list" /\ pc' = "raised"
  /\ UNCHANGED <<taskVars, todo, test, result, time, verdict, ans>>

\* "next unless": not a test.
Skip(e) ==
  /\ pc = "entry" /\ e \in todo \ Tests
  /\ todo' = todo \ {e}
  /\ UNCHANGED <<taskVars, pc, test, result, time, verdict, ans>>

\* judge_json_ret: the result starts as SYSTEM_ERROR, compile() has nothing to do.
Call(t) ==
  /\ pc = "entry" /\ t \in todo \cap Tests
  /\ todo' = todo \ {t} /\ test' = t
  /\ verdict' = "SE" /\ pc' = "run"
  /\ UNCHANGED <<taskVars, result, time, ans>>

\* run() succeeds and leaves the verdict to compare(); the child has opened ans.
RunQuiet ==
  /\ pc = "run" /\ conduct[test] \in {"right", "layout", "wrong"}
  /\ ans' = test /\ pc' = "compare"
  /\ UNCHANGED <<taskVars, todo, test, result, time, verdict>>

\* run() succeeds with a verdict.
RunVerdict ==
  /\ pc = "run" /\ conduct[test] \in {"slow", "crash"}
  /\ ans' = test /\ verdict' = VerdictOf(conduct[test]) /\ pc' = "collect"
  /\ UNCHANGED <<taskVars, todo, test, result, time>>

\* Mutant: the error code of run() is not looked at.
RunFailedUnseen ==
  /\ pc = "run" /\ conduct[test] = "error"
  /\ ans' \in {ans, test} /\ pc' = "compare"
  /\ UNCHANGED <<taskVars, todo, test, result, time, verdict>>

\* run() returns an error, or chdir() fails before it is called: before the child opens ans or after.
RunFailed ==
  /\ pc = "run" /\ conduct[test] = "error"
  /\ ans' \in {ans, test} /\ pc' = "collect"
  /\ UNCHANGED <<taskVars, todo, test, result, time, verdict>>

\* What compare() finds in the file ans: the output of this run, or one of which nothing is known.
Compared == IF ans = test THEN {VerdictOf(conduct[test])} ELSE {"AC", "PE", "WA", "SE"}

\* compare() opens both files: one was tested for before the call (judger.rb:159), the
\* other was just written.
Compare ==
  /\ pc = "compare" /\ pc' = "collect"
  /\ verdict' \in Compared
  /\ UNCHANGED <<taskVars, todo, test, result, time, ans>>

\* Mutant: the time of the last test.
LastValue(p, v) == v

\* Mutant: the time of all tests.
SumOf(p, v) == IF p = NoTime THEN v ELSE p + v

\* The larger of a peak and a value; nil gives way to any value.
Peak(p, v) == IF p = NoTime \/ v > p THEN v ELSE p

\* Mutant: the loop goes on after a test that failed.
CollectAll ==
  /\ pc = "collect"
  /\ time' = Peak(time, usage[test])
  /\ result' = verdict
  /\ pc' = "entry"
  /\ UNCHANGED <<taskVars, todo, test, verdict, ans>>

\* The reply is folded into the result; the first test that is not AC ends the loop.
Collect ==
  /\ pc = "collect"
  /\ time' = Peak(time, usage[test])
  /\ result' = verdict
  /\ pc' = IF verdict = "AC" THEN "entry" ELSE "publish"
  /\ UNCHANGED <<taskVars, todo, test, verdict, ans>>

AllSeen ==
  /\ pc = "entry" /\ todo = {} /\ pc' = "publish"
  /\ UNCHANGED <<taskVars, todo, test, result, time, verdict, ans>>

Publish ==
  /\ pc = "publish" /\ pc' = "published"
  /\ UNCHANGED <<taskVars, todo, test, result, time, verdict, ans>>

-----------------------------------------------------------------------------
Next ==
  \/ Compiled \/ CompileFailed \/ ListData \/ NoData
  \/ \E e \in Entries : Skip(e) \/ Call(e)
  \/ RunQuiet \/ RunVerdict \/ RunFailed \/ Compare \/ Collect \/ AllSeen \/ Publish

Spec == Init /\ [][Next]_vars

-----------------------------------------------------------------------------
Passes(t) == conduct[t] = "right"
Visited == Tests \ todo

\* AC is published only if there is a test and every test of the problem passes, in
\* whatever order the directory gives them (judger.rb:156-192, judge.c:15-18).
AcceptedPassesAll ==
  pc = "published" /\ result = "AC" => Tests # {} /\ \A t \in Tests : Passes(t)

\* Whatever is published is owed to one test: the first that did not pass, all those
\* visited before it having passed (judger.rb:176, 187-188).
VerdictOfFirstFailure ==
  pc = "published" /\ result \notin {"AC", "CE"} /\ Visited # {} =>
    \E t \in Visited :
      /\ result = VerdictOf(conduct[t])
      /\ \A s \in Visited \ {t} : Passes(s)

\* The published time is the peak over the tests that were run (judger.rb:185-186).
TimeIsPeak ==
  pc = "published" /\ time # NoTime =>
    /\ \E t \in Visited : time = usage[t]
    /\ \A t \in Visited : usage[t] <= time
=============================================================================
