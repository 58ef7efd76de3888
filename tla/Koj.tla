-------------------------------- MODULE Koj --------------------------------
(***************************************************************************)
(* The whole of Koj behind the HTTP interface: views and client threads of *)
(* the API, the broker, and the judgers, with the faults of each.          *)
(***************************************************************************)
EXTENDS Api, Judger

vars == <<brokerVars, apiVars, judgerVars>>

TypeOK == BrokerTypeOK /\ ApiTypeOK /\ JudgerTypeOK

Init == BrokerInit /\ ApiInit /\ JudgerInit

Next ==
  \/ ApiNext /\ UNCHANGED judgerVars
  \/ JudgerNext /\ UNCHANGED apiVars
  \/ Push /\ UNCHANGED <<apiVars, judgerVars>>

Spec == Init /\ [][Next]_vars

\* Every thread that can run runs, the broker delivers, sockets of dead threads
\* are collected, and whoever operates a judger starts it again.  Nothing is
\* assumed of the arrival of requests or of faults.
Fairness ==
  /\ \A r \in Requests :
       /\ WF_vars(CreateSubmit(r) /\ UNCHANGED judgerVars)
       /\ WF_vars(SaveCharge(r) /\ UNCHANGED judgerVars)
       /\ WF_vars(Client(r) /\ UNCHANGED judgerVars)
       /\ WF_vars(DropConnection(r) /\ UNCHANGED judgerVars)
  /\ \A j \in Judgers : WF_vars(JudgerStep(j) /\ UNCHANGED apiVars)
  /\ WF_vars(Push /\ UNCHANGED <<apiVars, judgerVars>>)

FairSpec == Spec /\ Fairness

-----------------------------------------------------------------------------
\* The tasks a judger has been delivered and not acknowledged.
Held == UNION {Range(Unacked(j)) : j \in Judgers}

\* The submissions whose answer is between the judger and its callback.
Returning ==
  Answered(respq) \cup UNION {Answered(inbox[r] \o batch[r]) : r \in Requests}

\* Submissions with a row or a task on its way, seen from no single process.
InPipeline(r) ==
  \/ pc[r] \in {"created", "consuming"}
  \/ r \in Range(taskq) \cup Held \cup Returning

\* Unless a client writes more into the row of a user (UserViewSet takes any
\* priority), the row never holds more than the cap, and neither does any copy of
\* it that a view, a callback or an update will still write back; the priority of
\* the messages of that user then stays under twice the cap, which is within the
\* octet of AMQP (views.py:69-76, mq.py:39-51, 64).
PriorityBounded ==
  /\ \A u \in Users \ raised : priority[u] <= MaxPriority /\ editing[u] <= MaxPriority
  /\ \A r \in Requests :
       Owner[r] \notin raised =>
         snap[r] <= MaxPriority /\ weight[r] <= MaxPriority + ContestBonus

\* A verdict in the database is one that a judger published for that very
\* submission: the shared response queue never hands a verdict to the wrong row
\* (mq.py:23-38).
VerdictProvenance ==
  \A r \in Requests :
    result[r] \in Verdicts => [req |-> r, verdict |-> result[r]] \in published

\* A submission that is still 'Q' is on its way, or its view or thread failed,
\* or one of the three known leaks took its task or its answer.  Nothing else
\* loses a submission, not even the crash of a judger (judger.rb:109, 198-201).
NoSilentLoss ==
  \A r \in Requests :
    result[r] = "Q" =>
      \/ InPipeline(r)
      \/ pc[r] = "failed"
      \/ \E c \in Causes : <<r, c>> \in lost

\* A task that reached the queue leaves broker and judgers only once an answer
\* to it has been published (judger.rb:198-201).
AnsweredBeforeGone ==
  \A r \in Requests :
    pc[r] \in {"waiting", "dispatching", "stored", "rewarding", "closed"} =>
      \/ r \in Range(taskq) \cup Held
      \/ <<r, "unroutable">> \in lost
      \/ \E v \in Verdicts : [req |-> r, verdict |-> v] \in published

\* The callback takes effect once per submission - one verdict, one reward -
\* unless a judger that had the task died between publishing its answer and
\* acknowledging it, or lost its connection (mq.py:22-51, judger.rb:198-201).
AppliedOnce ==
  [][\A r \in Requests :
       StoreVerdict(r) => result[r] = "Q" \/ r \in redelivered]_vars

\* 'Q' is shown as "Judging" (models.py:76): a submission that has been answered, is
\* marked so and whose thread is alive, has its answer still on the way to it.
AnswerOnTheWay ==
  \A r \in {m.req : m \in published} :
    result[r] = "Q" /\ pc[r] # "failed" => r \in Returning

\* The view's "Priority Strategy" (views.py:68): no task is handed out while one
\* of a higher priority is queued.
HigherPriorityFirst ==
  [][\A j \in Judgers :
       Deliver(j) => \A r \in Range(taskq) : weight[Head(taskq)] >= weight[r]]_vars

\* A submission is settled: judged, or stopped by a leak, by a failure of its view or
\* thread, by a judger that keeps it without an answer, or by windows full of such.
Settled(r) ==
  \/ result[r] \in Verdicts
  \/ pc[r] = "failed"
  \/ \E c \in Causes : <<r, c>> \in lost
  \/ \E j \in Judgers : r \in Range(parked[j])
  \/ \A j \in Judgers : Wedged(j)

\* Every submission that was opened is settled in the end, through faults, restarts
\* and redeliveries (mq.py:53-68, judger.rb:80, 109-212).
EventuallySettled ==
  \A r \in Requests : result[r] = "Q" ~> Settled(r)

\* The table of submissions as its readers see it (SubmitViewSet).
Service == INSTANCE SubmitService
             WITH Submissions <- Requests, row <- result, answers <- published

\* Koj keeps the promise of SubmitService: rows are opened once, answers are given
\* for opened rows, and a row takes nothing but an answer given for it, whatever
\* the shared queue, faults and redeliveries do (views.py:77, mq.py:22-38).
ImplementsService == Service!Spec
=============================================================================
