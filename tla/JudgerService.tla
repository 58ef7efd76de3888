--------------------------- MODULE JudgerService ---------------------------
(***************************************************************************)
(* The judgers alone, fed by any client that publishes tasks and never     *)
(* reads the answers: what prefetch, parked deliveries and restarts do to  *)
(* the flow of tasks.                                                      *)
(***************************************************************************)
EXTENDS Judger, FiniteSets

VARIABLE arrived    \* the tasks published so far

serviceVars == <<brokerVars, judgerVars, arrived>>

\* A client publishes a task.
Arrive(r) ==
  /\ r \notin arrived /\ declared
  /\ Enqueue(r)
  /\ arrived' = arrived \cup {r}
  /\ UNCHANGED <<declared, respq, published, consumers, inbox, faults, judgerVars>>

ServiceInit == BrokerInit /\ JudgerInit /\ arrived = {}

ServiceNext ==
  \/ \E r \in Requests : Arrive(r)
  \/ JudgerNext /\ UNCHANGED arrived

\* The judger process runs, the broker delivers, and an operator starts a judger
\* that is down.  Arrivals, exceptions and crashes are not forced.
ServiceFairness == \A j \in Judgers : WF_serviceVars(JudgerStep(j) /\ UNCHANGED arrived)

ServiceSpec == ServiceInit /\ [][ServiceNext]_serviceVars /\ ServiceFairness

-----------------------------------------------------------------------------
HasAnswer(r) == \E m \in published : m.req = r

\* Every task in a supported language is answered, through crashes, restarts and
\* redeliveries, as long as some judger is not wedged by deliveries it neither
\* answers nor acknowledges (judger.rb:80, 109-113, 209-211).
AnsweredUnlessWedged ==
  \A r \in Requests \ Unsupported :
    r \in arrived ~>
      \/ HasAnswer(r)
      \/ \E j \in Judgers : r \in Range(parked[j])
      \/ \A j \in Judgers : Wedged(j)

\* Restarting a wedged judger does not cure it: what wedged it is queued ahead of
\* everything else and, if no language is added, is parked again before any
\* other task is answered (judger.rb:92-113).  Once a lone judger is wedged by
\* unsupported tasks, and has nothing of a lost connection left to answer, no
\* further answer is ever published.
WedgedForGood ==
  \A P \in SUBSET [req : Requests, verdict : Outcomes], j \in Judgers :
    []( /\ Judgers = {j} /\ Wedged(j) /\ Range(parked[j]) \subseteq Unsupported
        /\ outdated[j] = <<>> /\ published = P
        => [](published = P))
=============================================================================
