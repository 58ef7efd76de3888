-------------------------------- MODULE Api --------------------------------
(***************************************************************************)
(* The Django side: the submit view (api/views.py), the MQThread it starts *)
(* and the MQClient that thread runs (api/mq.py), on the rows of User and  *)
(* Submit (api/models.py).  Every database call is a step of its own: the  *)
(* settings configure no transaction per request, and u.save() writes the  *)
(* whole row it read earlier.                                              *)
(***************************************************************************)
EXTENDS Broker

CONSTANTS
  Users,
  Owner,            \* Owner[r]: the user whose token request r carries
  Contest,          \* the requests for a problem that belongs to a contest
  Editors,          \* the users who are edited during the run
  Assigned,         \* the priorities that clients write into a User row
  InitialPriority   \* User.priority of every user at the start

ASSUME ApiAssumption ==
  /\ Owner \in [Requests -> Users]
  /\ Contest \subseteq Requests
  /\ Editors \subseteq Users
  /\ Assigned \subseteq Nat
  /\ InitialPriority \in Nat

VARIABLES
  priority,   \* User.priority
  result,     \* Submit.result, "none" while there is no row
  pc,         \* where the view, then the client thread, of r stands
  snap,       \* the priority column of the User object r has in memory
  weight,     \* the priority property of the task message of r
  response,   \* MQClient.response
  batch,      \* responses read by process_data_events, callback still to run
  editing,    \* editing[u]: the priority column held by a profile update of u
  lost,       \* history: the responses and tasks lost on the way, and how
  raised      \* history: the users that a client has set above the cap

apiVars == <<priority, result, pc, snap, weight, response, batch, editing, lost, raised>>

Stages == {"idle", "rejected", "loaded", "charged", "created", "consuming",
           "waiting", "dispatching", "stored", "rewarding", "closed", "failed"}
Final == {"rejected", "closed", "failed"}
\* The stages in which the client thread has a connection.
Connected == {"consuming", "waiting", "dispatching", "stored", "rewarding"}
\* The stages in which r holds a User object that it will write back.
Window == {"loaded", "rewarding"}

NoEdit == -1

Causes == {"unroutable", "misrouted", "discarded"}

ApiTypeOK ==
  /\ priority \in [Users -> Nat]
  /\ result \in [Requests -> Verdicts \cup {"none", "Q"}]
  /\ pc \in [Requests -> Stages]
  /\ snap \in [Requests -> Nat]
  /\ weight \in [Requests -> Nat]
  /\ response \in [Requests -> BOOLEAN]
  /\ batch \in [Requests -> Seq(Response)]
  /\ editing \in [Users -> Nat \cup {NoEdit}]
  /\ lost \in SUBSET (Requests \X Causes)
  /\ raised \in SUBSET Users

ApiInit ==
  /\ priority = [u \in Users |-> InitialPriority]
  /\ result = [r \in Requests |-> "none"]
  /\ pc = [r \in Requests |-> "idle"]
  /\ snap = [r \in Requests |-> 0]
  /\ weight = [r \in Requests |-> 0]
  /\ response = [r \in Requests |-> FALSE]
  /\ batch = [r \in Requests |-> <<>>]
  /\ editing = [u \in Users |-> NoEdit]
  /\ lost = {}
  /\ raised = {u \in Users : InitialPriority > MaxPriority}

-----------------------------------------------------------------------------
\* r moves from stage a to stage b.
Move(r, a, b) == pc[r] = a /\ pc' = [pc EXCEPT ![r] = b]

\* The submissions answered in the sequence s of responses.
Answered(s) == {s[i].req : i \in DOMAIN s}

\* What was on its way to the submissions R is lost for the reason c.
Lose(R, c) == lost' = lost \cup (R \X {c})

------------------------------ (* the view *) ------------------------------
\* No user has the token (401) or no problem has the number (404).
Reject(r) ==
  /\ Move(r, "idle", "rejected")
  /\ UNCHANGED <<brokerVars, priority, result, snap, weight, response, batch, editing, lost, raised>>

\* The User row is read; the Problem lookup that follows changes nothing.
LoadUser(r) ==
  /\ Move(r, "idle", "loaded")
  /\ snap' = [snap EXCEPT ![r] = priority[Owner[r]]]
  /\ UNCHANGED <<brokerVars, priority, result, weight, response, batch, editing, lost, raised>>

\* u.save(): the charge is computed from the row read earlier.
SaveCharge(r) ==
  /\ Move(r, "loaded", "charged")
  /\ priority' = [priority EXCEPT ![Owner[r]] = Charge(snap[r], r \in Contest)]
  /\ UNCHANGED <<brokerVars, result, snap, weight, response, batch, editing, lost, raised>>

\* The Submit row is created with its default 'Q', the thread is started.
CreateSubmit(r) ==
  /\ Move(r, "charged", "created")
  /\ result' = [result EXCEPT ![r] = "Q"]
  /\ UNCHANGED <<brokerVars, priority, snap, weight, response, batch, editing, lost, raised>>

--------------------------- (* the client thread *) ------------------------
\* MQClient(): connect, declare and consume the shared response queue.
Connect(r) ==
  /\ Move(r, "created", "consuming")
  /\ consumers' = Append(consumers, r)
  /\ UNCHANGED <<declared, taskq, respq, published, inbox, faults>>
  /\ UNCHANGED <<priority, result, snap, weight, response, batch, editing, lost, raised>>

\* AMQP has one octet for the priority of a message.
MaxOctet == 255

\* call(): publish the task, then loop on process_data_events.
PublishTask(r) ==
  /\ PublishPriority(snap[r], r \in Contest) <= MaxOctet
  /\ Move(r, "consuming", "waiting")
  /\ Enqueue(r)
  /\ weight' = [weight EXCEPT ![r] = PublishPriority(snap[r], r \in Contest)]
  /\ Lose(IF declared THEN {} ELSE {r}, "unroutable")
  /\ UNCHANGED <<declared, respq, published, consumers, inbox, faults>>
  /\ UNCHANGED <<priority, result, snap, response, batch, editing, raised>>

\* The client library cannot encode the priority: the exception ends the thread.
PriorityOverflow(r) ==
  /\ PublishPriority(snap[r], r \in Contest) > MaxOctet
  /\ Move(r, "consuming", "failed")
  /\ UNCHANGED <<brokerVars, priority, result, snap, weight, response, batch, editing, lost, raised>>

\* process_data_events reads what has arrived; the callbacks of the whole
\* batch then run one after the other.
Poll(r) ==
  /\ Move(r, "waiting", "dispatching")
  /\ inbox[r] # <<>>
  /\ batch' = [batch EXCEPT ![r] = inbox[r]]
  /\ inbox' = [inbox EXCEPT ![r] = <<>>]
  /\ UNCHANGED <<declared, taskq, respq, published, consumers, faults>>
  /\ UNCHANGED <<priority, result, snap, weight, response, editing, lost, raised>>

\* on_response for another correlation id: nothing is done, and the message
\* was consumed.
DropForeign(r) ==
  /\ pc[r] = "dispatching" /\ batch[r] # <<>>
  /\ Head(batch[r]).req # r
  /\ batch' = [batch EXCEPT ![r] = Tail(@)]
  /\ Lose({Head(batch[r]).req}, "misrouted")
  /\ UNCHANGED <<brokerVars, priority, result, pc, snap, weight, response, editing, raised>>

\* Mutant: the correlation id is not compared.
StoreAny(r) ==
  /\ batch[r] # <<>>
  /\ Move(r, "dispatching", "stored")
  /\ response' = [response EXCEPT ![r] = TRUE]
  /\ result' = [result EXCEPT ![r] = Head(batch[r]).verdict]
  /\ batch' = [batch EXCEPT ![r] = Tail(@)]
  /\ UNCHANGED <<brokerVars, priority, snap, weight, editing, lost, raised>>

\* on_response for the own correlation id, to s.save().
StoreVerdict(r) ==
  /\ batch[r] # <<>>
  /\ Head(batch[r]).req = r
  /\ Move(r, "dispatching", "stored")
  /\ response' = [response EXCEPT ![r] = TRUE]
  /\ result' = [result EXCEPT ![r] = Head(batch[r]).verdict]
  /\ batch' = [batch EXCEPT ![r] = Tail(@)]
  /\ UNCHANGED <<brokerVars, priority, snap, weight, editing, lost, raised>>

\* Mutant: the callback uses the User object of the view.
KeepOwner(r) ==
  /\ Move(r, "stored", "rewarding")
  /\ UNCHANGED <<brokerVars, priority, result, snap, weight, response, batch, editing, lost, raised>>

\* u = User.objects.get(id=self.uid)
LoadOwner(r) ==
  /\ Move(r, "stored", "rewarding")
  /\ snap' = [snap EXCEPT ![r] = priority[Owner[r]]]
  /\ UNCHANGED <<brokerVars, priority, result, weight, response, batch, editing, lost, raised>>

\* The reward for the verdict of the message, which is the one just stored, and
\* u.save().
SaveReward(r) ==
  /\ Move(r, "rewarding", "dispatching")
  /\ priority' = [priority EXCEPT ![Owner[r]] = Reward(snap[r], result[r])]
  /\ UNCHANGED <<brokerVars, result, snap, weight, response, batch, editing, lost, raised>>

\* The batch is through and there was no response for r in it: loop.
KeepWaiting(r) ==
  /\ batch[r] = <<>> /\ ~response[r]
  /\ Move(r, "dispatching", "waiting")
  /\ UNCHANGED <<brokerVars, priority, result, snap, weight, response, batch, editing, lost, raised>>

\* The broker forgets the connection of r, and what it pushed there is gone.
Disconnect(r) ==
  /\ \E i \in DOMAIN consumers :
       consumers[i] = r /\ consumers' = RemoveAt(consumers, i)
  /\ inbox' = [inbox EXCEPT ![r] = <<>>]
  /\ UNCHANGED <<declared, taskq, respq, published, faults>>

\* The batch is through and r has its response: channel and connection close.
Close(r) ==
  /\ batch[r] = <<>> /\ response[r]
  /\ Move(r, "dispatching", "closed")
  /\ Disconnect(r)
  /\ Lose(Answered(inbox[r]), "discarded")
  /\ UNCHANGED <<priority, result, snap, weight, response, batch, editing, raised>>

----------------------------- (* what may fail *) --------------------------
\* An exception ends the view or the thread of r: the database is locked, the
\* broker refuses the connection or drops it.  Nothing closes the connection
\* explicitly and the broker keeps serving it until DropConnection.
Fail(r) ==
  /\ pc[r] \notin Final \cup {"idle"}
  /\ Fault
  /\ pc' = [pc EXCEPT ![r] = "failed"]
  /\ batch' = [batch EXCEPT ![r] = <<>>]
  /\ Lose(Answered(batch[r]), "discarded")
  /\ UNCHANGED <<declared, taskq, respq, published, consumers, inbox>>
  /\ UNCHANGED <<priority, result, snap, weight, response, editing, raised>>

\* The socket of a failed thread is collected or times out.
DropConnection(r) ==
  /\ pc[r] = "failed"
  /\ Disconnect(r)
  /\ Lose(Answered(inbox[r]), "discarded")
  /\ UNCHANGED <<priority, result, pc, snap, weight, response, batch, editing, raised>>

\* The API process dies with every view and thread in it.  Nothing of what
\* they were doing is written down, and no restart resumes it.
ApiCrash ==
  /\ Fault
  /\ pc' = [r \in Requests |->
              IF pc[r] \in Final \cup {"idle"} THEN pc[r] ELSE "failed"]
  /\ batch' = [r \in Requests |-> <<>>]
  /\ consumers' = <<>>
  /\ inbox' = [r \in Requests |-> <<>>]
  /\ Lose(UNION {Answered(inbox[r] \o batch[r]) : r \in Requests}, "discarded")
  /\ editing' = [u \in Users |-> NoEdit]
  /\ UNCHANGED <<declared, taskq, respq, published>>
  /\ UNCHANGED <<priority, result, snap, weight, response, raised>>

--------------------------- (* updates of a user *) ------------------------
\* PUT or PATCH of a user, which anybody may send: the view set reads the row ...
EditLoad(u) ==
  /\ u \in Editors /\ editing[u] = NoEdit
  /\ editing' = [editing EXCEPT ![u] = priority[u]]
  /\ UNCHANGED <<brokerVars, priority, result, pc, snap, weight, response, batch, lost, raised>>

\* ... and writes it back with the fields of the request.  The priority is as it
\* was read, if it is none of them ...
EditSave(u) ==
  /\ editing[u] # NoEdit
  /\ priority' = [priority EXCEPT ![u] = editing[u]]
  /\ editing' = [editing EXCEPT ![u] = NoEdit]
  /\ UNCHANGED <<brokerVars, result, pc, snap, weight, response, batch, lost, raised>>

\* ... or the one of the request: the serializer takes every field and no bound.
AssignPriority(u, p) ==
  /\ editing[u] # NoEdit
  /\ priority' = [priority EXCEPT ![u] = p]
  /\ editing' = [editing EXCEPT ![u] = NoEdit]
  /\ raised' = IF p > MaxPriority THEN raised \cup {u} ELSE raised
  /\ UNCHANGED <<brokerVars, result, pc, snap, weight, response, batch, lost>>

-----------------------------------------------------------------------------
View(r) == Reject(r) \/ LoadUser(r) \/ SaveCharge(r) \/ CreateSubmit(r)

Callback(r) ==
  DropForeign(r) \/ StoreVerdict(r) \/ LoadOwner(r) \/ SaveReward(r)

Client(r) ==
  \/ Connect(r) \/ PublishTask(r) \/ PriorityOverflow(r) \/ Poll(r) \/ Callback(r)
  \/ KeepWaiting(r) \/ Close(r)

ApiNext ==
  \/ \E r \in Requests : View(r) \/ Client(r) \/ Fail(r) \/ DropConnection(r)
  \/ \E u \in Users : EditLoad(u) \/ EditSave(u) \/ \E p \in Assigned : AssignPriority(u, p)
  \/ ApiCrash
=============================================================================
