--------------------------- MODULE PriorityPolicy ---------------------------
(***************************************************************************)
(* The points a user holds (User.priority) and how a submission moves      *)
(* them: the charge taken by the submit view, the priority written into    *)
(* the task message, and the reward given when the verdict comes back.     *)
(***************************************************************************)
EXTENDS Integers

\* The verdict strings of judged (RESULT_CODE), also Submit.RESULTS without 'Q'.
Verdicts == {"AC", "CE", "RE", "TLE", "MLE", "OLE", "PE", "WA", "SE"}

MaxPriority == 100      \* the cap written in on_response
ContestBonus == 100     \* what the submit view adds for a contest problem
SubmitCost == 5         \* what it takes for any other problem

-----------------------------------------------------------------------------
\* The clamp at zero lost.
FloorDropped(p) == p

\* "if u.priority < 0: u.priority = 0"
Floor(p) == IF p < 0 THEN 0 ELSE p

\* The cap compared against the wrong bound.
CapOffByBonus(p) == IF p > MaxPriority + ContestBonus THEN MaxPriority ELSE p

\* "if u.priority > 100: u.priority = 100"
Cap(p) == IF p > MaxPriority THEN MaxPriority ELSE p

\* The user's points after a submission: a contest problem is free.
Charge(p, contest) == Floor(IF contest THEN p ELSE p - SubmitCost)

\* The priority property of the task message.
PublishPriority(p, contest) == IF contest THEN p + ContestBonus ELSE p

\* The points a verdict is worth.
Points(v) ==
  CASE v = "AC"                       -> 10
    [] v \in {"SE", "PE"}             -> 5
    [] v \in {"CE", "RE", "MLE", "OLE"} -> 0
    [] OTHER                          -> 2

\* The user's points after a verdict.
Reward(p, v) == Cap(p + Points(v))
=============================================================================
