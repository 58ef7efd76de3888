------------------------------- MODULE Judger -------------------------------
(***************************************************************************)
(* The judger process (judge/judger.rb): it declares the task queue, takes *)
(* deliveries under a prefetch limit with manual acknowledgement, judges   *)
(* them one at a time, publishes the result and only then acknowledges.    *)
(* How the verdict of one task comes about is the subject of JudgeTask;    *)
(* here it is any member of Outcomes.                                      *)
(***************************************************************************)
EXTENDS Broker

CONSTANTS
  Judgers,
  Prefetch,      \* channel.prefetch
  Unsupported,   \* submissions in a language no toolchain is loaded for
  Outcomes       \* the verdicts that occur during the run

ASSUME JudgerAssumption ==
  /\ Prefetch \in Nat \ {0}
  /\ Unsupported \subseteq Requests
  /\ Outcomes \subseteq Verdicts

VARIABLES
  jstate,       \* what the process of j is doing
  buffer,       \* delivered to j, waiting for its consumer block
  current,      \* the delivery the block of j is working on, if any
  parked,       \* deliveries whose block ended without acknowledging
  outdated,     \* deliveries of a lost connection that j may still work on
  redelivered   \* history: tasks queued again that were or may be answered

judgerVars == <<jstate, buffer, current, parked, outdated, redelivered>>

JudgerTypeOK ==
  /\ jstate \in [Judgers -> {"down", "idle", "judging", "answered"}]
  /\ buffer \in [Judgers -> Seq(Requests)]
  /\ current \in [Judgers -> Seq(Requests)]
  /\ parked \in [Judgers -> Seq(Requests)]
  /\ outdated \in [Judgers -> Seq(Requests)]
  /\ redelivered \in SUBSET Requests

JudgerInit ==
  /\ jstate = [j \in Judgers |-> "down"]
  /\ buffer = [j \in Judgers |-> <<>>]
  /\ current = [j \in Judgers |-> <<>>]
  /\ parked = [j \in Judgers |-> <<>>]
  /\ outdated = [j \in Judgers |-> <<>>]
  /\ redelivered = {}

-----------------------------------------------------------------------------
\* What j has been delivered and has not acknowledged, oldest first.
Unacked(j) == parked[j] \o current[j] \o buffer[j]

\* A prefetch window full of deliveries that j will not answer.
Wedged(j) == Len(parked[j]) = Prefetch

\* initialize and start: connect, declare 'koj', subscribe.
StartJudger(j) ==
  /\ jstate[j] = "down"
  /\ jstate' = [jstate EXCEPT ![j] = "idle"]
  /\ declared' = TRUE
  /\ UNCHANGED <<taskq, respq, published, consumers, inbox, faults>>
  /\ UNCHANGED <<buffer, current, parked, outdated, redelivered>>

\* The broker pushes a task while the judger has fewer than Prefetch
\* unacknowledged ones.
Deliver(j) ==
  /\ jstate[j] # "down"
  /\ taskq # <<>> /\ Len(Unacked(j)) < Prefetch
  /\ buffer' = [buffer EXCEPT ![j] = Append(@, Head(taskq))]
  /\ taskq' = Tail(taskq)
  /\ UNCHANGED <<declared, respq, published, consumers, inbox, faults>>
  /\ UNCHANGED <<jstate, current, parked, outdated, redelivered>>

\* The block runs for a task whose language has a toolchain.
Begin(j) ==
  /\ jstate[j] = "idle" /\ buffer[j] # <<>>
  /\ Head(buffer[j]) \notin Unsupported
  /\ current' = [current EXCEPT ![j] = <<Head(buffer[j])>>]
  /\ buffer' = [buffer EXCEPT ![j] = Tail(@)]
  /\ jstate' = [jstate EXCEPT ![j] = "judging"]
  /\ UNCHANGED <<brokerVars, parked, outdated, redelivered>>

\* Mutant: the refused task is rejected without being queued again.
RefuseDropping(j) ==
  /\ jstate[j] = "idle" /\ buffer[j] # <<>>
  /\ Head(buffer[j]) \in Unsupported
  /\ buffer' = [buffer EXCEPT ![j] = Tail(@)]
  /\ UNCHANGED <<brokerVars, jstate, current, parked, outdated, redelivered>>

\* The block runs for any other task: a warning, no answer, no acknowledgement.
Refuse(j) ==
  /\ jstate[j] = "idle" /\ buffer[j] # <<>>
  /\ Head(buffer[j]) \in Unsupported
  /\ parked' = [parked EXCEPT ![j] = Append(@, Head(buffer[j]))]
  /\ buffer' = [buffer EXCEPT ![j] = Tail(@)]
  /\ UNCHANGED <<brokerVars, jstate, current, outdated, redelivered>>

\* The task is judged and the result published to reply_to.
Answer(j, v) ==
  /\ jstate[j] = "judging"
  /\ Respond([req |-> Head(current[j]), verdict |-> v])
  /\ jstate' = [jstate EXCEPT ![j] = "answered"]
  /\ UNCHANGED <<declared, taskq, consumers, inbox, faults>>
  /\ UNCHANGED <<buffer, current, parked, outdated, redelivered>>

\* Mutant: acknowledged before the result is published.
AckEarly(j) ==
  /\ jstate[j] \in {"judging", "answered"}
  /\ jstate' = [jstate EXCEPT ![j] = "idle"]
  /\ current' = [current EXCEPT ![j] = <<>>]
  /\ UNCHANGED <<brokerVars, buffer, parked, outdated, redelivered>>

\* channel.acknowledge, after the publication.
Ack(j) ==
  /\ jstate[j] = "answered"
  /\ jstate' = [jstate EXCEPT ![j] = "idle"]
  /\ current' = [current EXCEPT ![j] = <<>>]
  /\ UNCHANGED <<brokerVars, buffer, parked, outdated, redelivered>>

\* An exception leaves the block before the publication (no test data for the
\* problem, no time limit, no memory for the result): Bunny logs it and goes
\* on, and the delivery stays unacknowledged.
Raise(j) ==
  /\ jstate[j] = "judging"
  /\ Fault
  /\ parked' = [parked EXCEPT ![j] = @ \o current[j]]
  /\ current' = [current EXCEPT ![j] = <<>>]
  /\ jstate' = [jstate EXCEPT ![j] = "idle"]
  /\ UNCHANGED <<declared, taskq, respq, published, consumers, inbox>>
  /\ UNCHANGED <<buffer, outdated, redelivered>>

\* The judger is down and holds nothing.
GoDown(j) ==
  /\ jstate' = [jstate EXCEPT ![j] = "down"]
  /\ buffer' = [buffer EXCEPT ![j] = <<>>]
  /\ current' = [current EXCEPT ![j] = <<>>]
  /\ parked' = [parked EXCEPT ![j] = <<>>]
  /\ outdated' = [outdated EXCEPT ![j] = <<>>]
  /\ redelivered' = redelivered \cup (IF jstate[j] = "answered" THEN Range(current[j]) ELSE {})

\* Mutant: automatic acknowledgement, a crash loses what was delivered.
CrashLosing(j) ==
  /\ jstate[j] # "down"
  /\ Fault
  /\ GoDown(j)
  /\ UNCHANGED <<declared, taskq, respq, published, consumers, inbox>>

\* Mutant: what is put back goes to the end of the queue.
CrashRequeueLast(j) ==
  /\ jstate[j] # "down"
  /\ Fault
  /\ GoDown(j)
  /\ taskq' = taskq \o Unacked(j)
  /\ UNCHANGED <<declared, respq, published, consumers, inbox>>

\* The process crashes or is interrupted (stop closes the channel): the broker
\* puts its unacknowledged deliveries back where they were.
CrashJudger(j) ==
  /\ jstate[j] # "down"
  /\ Fault
  /\ GoDown(j)
  /\ taskq' = Unacked(j) \o taskq
  /\ UNCHANGED <<declared, respq, published, consumers, inbox>>

\* The connection breaks while the process lives: the broker puts the deliveries
\* back, Bunny reconnects and subscribes again.  The block and what waits for it
\* belong to the old connection, but nothing in the judger tells them so.
LoseConnection(j) ==
  /\ jstate[j] # "down"
  /\ Fault
  /\ taskq' = Unacked(j) \o taskq
  /\ outdated' = [outdated EXCEPT
                    ![j] = @ \o (IF jstate[j] = "judging" THEN current[j] ELSE <<>>) \o buffer[j]]
  /\ redelivered' = redelivered \cup Range(current[j]) \cup Range(buffer[j])
  /\ jstate' = [jstate EXCEPT ![j] = "idle"]
  /\ buffer' = [buffer EXCEPT ![j] = <<>>]
  /\ current' = [current EXCEPT ![j] = <<>>]
  /\ parked' = [parked EXCEPT ![j] = <<>>]
  /\ UNCHANGED <<declared, respq, published, consumers, inbox>>

\* The block of an outdated delivery comes to its result and publishes it on the
\* new connection; the acknowledgement that follows has no effect any more.
AnswerOutdated(j, v) ==
  /\ outdated[j] # <<>> /\ Head(outdated[j]) \notin Unsupported
  /\ Respond([req |-> Head(outdated[j]), verdict |-> v])
  /\ outdated' = [outdated EXCEPT ![j] = Tail(@)]
  /\ UNCHANGED <<declared, taskq, consumers, inbox, faults>>
  /\ UNCHANGED <<jstate, buffer, current, parked, redelivered>>

\* The block of an outdated delivery ends without an answer: its language is not
\* supported, the connection was not back yet, or Bunny ended its thread.
DropOutdated(j) ==
  /\ outdated[j] # <<>>
  /\ outdated' = [outdated EXCEPT ![j] = Tail(@)]
  /\ UNCHANGED <<brokerVars, jstate, buffer, current, parked, redelivered>>

-----------------------------------------------------------------------------
JudgerStep(j) ==
  \/ StartJudger(j) \/ Deliver(j) \/ Begin(j) \/ Refuse(j) \/ Ack(j)
  \/ (\E v \in Outcomes : Answer(j, v))

JudgerNext ==
  \E j \in Judgers :
    \/ JudgerStep(j) \/ Raise(j) \/ CrashJudger(j)
    \/ LoseConnection(j) \/ DropOutdated(j) \/ \E v \in Outcomes : AnswerOutdated(j, v)
=============================================================================
