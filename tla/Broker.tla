------------------------------- MODULE Broker -------------------------------
(***************************************************************************)
(* The part of RabbitMQ that Koj relies on, modelled from how api/mq.py    *)
(* and judge/judger.rb use it: the task queue 'koj', which only a judger   *)
(* declares, and the one response queue 'koj-resp' that every client       *)
(* thread of the API consumes with no_ack.  A submission, its HTTP         *)
(* request, its client thread and its correlation id stand in bijection,   *)
(* so all four are named by a member of Requests.                          *)
(***************************************************************************)
EXTENDS Naturals, SequencesExt, PriorityPolicy

CONSTANTS
  Requests,     \* submissions made during the run
  MaxFaults     \* how many faults of any kind the environment injects

ASSUME FaultsAssumption == MaxFaults \in Nat

VARIABLES
  declared,     \* has a judger declared the queue 'koj'?
  taskq,        \* the queue 'koj'
  respq,        \* the queue 'koj-resp'
  published,    \* history: every response ever published to 'koj-resp'
  consumers,    \* consumers of 'koj-resp', the next one to be served first
  inbox,        \* inbox[r]: pushed to the connection of r, not yet read by it
  faults        \* faults injected so far

brokerVars == <<declared, taskq, respq, published, consumers, inbox, faults>>

\* A message of 'koj-resp': the correlation id and the verdict of the body.
Response == [req : Requests, verdict : Verdicts]

BrokerTypeOK ==
  /\ declared \in BOOLEAN
  /\ taskq \in Seq(Requests)
  /\ published \subseteq Response
  /\ respq \in Seq(Response)
  /\ consumers \in Seq(Requests)
  /\ inbox \in [Requests -> Seq(Response)]
  /\ faults \in 0..MaxFaults

BrokerInit ==
  /\ declared = FALSE
  /\ taskq = <<>>
  /\ respq = <<>>
  /\ published = {}
  /\ consumers = <<>>
  /\ inbox = [r \in Requests |-> <<>>]
  /\ faults = 0

-----------------------------------------------------------------------------
\* The environment spends one of its faults.
Fault == faults < MaxFaults /\ faults' = faults + 1

\* A task published to the default exchange with routing key 'koj': without
\* a declared queue it is unroutable and the broker drops it.
Enqueue(r) == taskq' = IF declared THEN Append(taskq, r) ELSE taskq

\* A response published to reply_to, which its client has declared.
Respond(m) ==
  /\ respq' = Append(respq, m)
  /\ published' = published \cup {m}

\* Mutant: the response is kept until the client has acknowledged it.
PushKeeping ==
  /\ respq # <<>> /\ consumers # <<>>
  /\ inbox' = [inbox EXCEPT ![Head(consumers)] = Append(@, Head(respq))]
  /\ consumers' = Append(Tail(consumers), Head(consumers))
  /\ UNCHANGED <<declared, taskq, respq, published, faults>>

\* 'koj-resp' serves its consumers in turn.  A no_ack message is gone from the
\* broker once it is pushed, whatever becomes of the connection.
Push ==
  /\ respq # <<>> /\ consumers # <<>>
  /\ inbox' = [inbox EXCEPT ![Head(consumers)] = Append(@, Head(respq))]
  /\ consumers' = Append(Tail(consumers), Head(consumers))
  /\ respq' = Tail(respq)
  /\ UNCHANGED <<declared, taskq, published, faults>>
=============================================================================
