--------------------------- MODULE SubmitService ---------------------------
(***************************************************************************)
(* What Koj promises for the rows of the Submit table, seen from outside:  *)
(* a row is opened as 'Q', the judging side comes to answers for opened    *)
(* rows, and a row takes nothing but an answer that was given for it.      *)
(***************************************************************************)
EXTENDS PriorityPolicy

CONSTANT Submissions

VARIABLES
  row,       \* the result column of each submission
  answers    \* the answers given so far, as records of submission and verdict

serviceVars == <<row, answers>>

Answer == [req : Submissions, verdict : Verdicts]

Init ==
  /\ row = [s \in Submissions |-> "none"]
  /\ answers = {}

Open(s) ==
  /\ row[s] = "none"
  /\ row' = [row EXCEPT ![s] = "Q"]
  /\ UNCHANGED answers

Judge(a) ==
  /\ row[a.req] # "none"
  /\ answers' = answers \cup {a}
  /\ UNCHANGED row

Record(a) ==
  /\ a \in answers
  /\ row' = [row EXCEPT ![a.req] = a.verdict]
  /\ UNCHANGED answers

Next ==
  \/ \E s \in Submissions : Open(s)
  \/ \E a \in Answer : Judge(a) \/ Record(a)

Spec == Init /\ [][Next]_serviceVars
=============================================================================
