---------------------------- MODULE KojRefinement ----------------------------
(***************************************************************************)
(* What Koj promises of tasks and answers, for all values of its           *)
(* constants: a task goes away only once it is answered, no submission is  *)
(* lost silently, the Submit table behaves as SubmitService says, and a    *)
(* verdict is stored once.  All rest on where a task is: with the broker   *)
(* or one judger, in one place.  The last two need as well that a task is  *)
(* for an opened row and that a row is opened once.                        *)
(***************************************************************************)
EXTENDS KojSafety

------------------------- (* where a task is *) ----------------------------
\* No element twice.
Once(s) == \A i, k \in 1..Len(s) : s[i] = s[k] => i = k

LEMMA FirstAndRest ==
  ASSUME NEW S, NEW s \in Seq(S), s # <<>>
  PROVE  /\ Head(s) \in S /\ Tail(s) \in Seq(S)
         /\ Range(s) = {Head(s)} \cup Range(Tail(s))
         /\ Once(s) => Once(Tail(s)) /\ Head(s) \notin Range(Tail(s))
<1>1. /\ Head(s) \in S /\ Tail(s) \in Seq(S) /\ Len(Tail(s)) = Len(s) - 1
      /\ \A i \in 1..Len(Tail(s)) : Tail(s)[i] = s[i + 1]
  BY HeadTailProperties
<1>2. Len(s) \in Nat \ {0} /\ Head(s) = s[1]
  BY EmptySeq
<1>3. /\ Range(s) = {s[i] : i \in 1..Len(s)}
      /\ Range(Tail(s)) = {Tail(s)[i] : i \in 1..Len(Tail(s))}
  BY <1>1, RangeEquality
<1> DEFINE t == Tail(s)
<1> HIDE DEF t
<1>4. Range(s) = {s[1]} \cup Range(t)
  <2>1. ASSUME NEW i \in 1..Len(s), i # 1
        PROVE  i - 1 \in 1..Len(t) /\ t[i - 1] = s[i]
    BY <1>1, <1>2, <2>1 DEF t
  <2>2. ASSUME NEW i \in 1..Len(t)
        PROVE  i + 1 \in 1..Len(s) /\ t[i] = s[i + 1]
    BY <1>1, <1>2 DEF t
  <2>3. 1 \in 1..Len(s)
    BY <1>2
  <2>4. Range(t) = {t[i] : i \in 1..Len(t)}
    BY <1>3 DEF t
  <2> QED
    BY <1>3, <2>1, <2>2, <2>3, <2>4, SMTT(60)
<1>5. Once(s) => Once(t) /\ s[1] \notin Range(t)
  BY <1>1, <1>2, <1>3 DEF Once, t
<1> QED
  BY <1>1, <1>2, <1>4, <1>5 DEF t

LEMMA OneMore ==
  ASSUME NEW S, NEW s \in Seq(S), NEW e \in S
  PROVE  /\ Append(s, e) \in Seq(S)
         /\ Range(Append(s, e)) = Range(s) \cup {e}
         /\ Once(s) /\ e \notin Range(s) => Once(Append(s, e))
<1> DEFINE t == Append(s, e)
<1>1. /\ t \in Seq(S) /\ Len(t) = Len(s) + 1 /\ t[Len(s) + 1] = e
      /\ \A i \in 1..Len(s) : t[i] = s[i]
  BY AppendProperties
<1>2. Len(s) \in Nat
  BY LenProperties
<1> HIDE DEF t
<1>3. Range(s) = {s[i] : i \in 1..Len(s)} /\ Range(t) = {t[i] : i \in 1..Len(t)}
  BY <1>1, RangeEquality
<1>4. Range(t) = Range(s) \cup {e}
  BY <1>1, <1>2, <1>3
<1>5. Once(s) /\ e \notin Range(s) => Once(t)
  BY <1>1, <1>2, <1>3 DEF Once
<1> QED
  BY <1>1, <1>4, <1>5 DEF t

LEMMA OneAfterOther ==
  ASSUME NEW S, NEW s \in Seq(S), NEW t \in Seq(S)
  PROVE  /\ s \o t \in Seq(S)
         /\ Range(s \o t) = Range(s) \cup Range(t)
         /\ Once(s) /\ Once(t) /\ Range(s) \cap Range(t) = {} => Once(s \o t)
<1> DEFINE u == s \o t
<1>1. /\ u \in Seq(S) /\ Len(u) = Len(s) + Len(t)
      /\ \A i \in 1..Len(s) + Len(t) : u[i] = IF i <= Len(s) THEN s[i] ELSE t[i - Len(s)]
  BY ConcatProperties
<1>2. Len(s) \in Nat /\ Len(t) \in Nat
  BY LenProperties
<1>3. Range(u) = Range(s) \cup Range(t)
  BY RangeConcatenation
<1>4. Range(s) = {s[i] : i \in 1..Len(s)} /\ Range(t) = {t[i] : i \in 1..Len(t)}
  BY RangeEquality
<1> HIDE DEF u
<1>5. ASSUME Once(s), Once(t), Range(s) \cap Range(t) = {},
             NEW i \in 1..Len(u), NEW k \in 1..Len(u), u[i] = u[k]
      PROVE  i = k
  <2>1. CASE i <= Len(s) /\ k <= Len(s)
    BY <1>1, <1>2, <1>5, <2>1 DEF Once
  <2>2. CASE i > Len(s) /\ k > Len(s)
    <3>1. i - Len(s) \in 1..Len(t) /\ k - Len(s) \in 1..Len(t)
      BY <1>1, <1>2, <2>2
    <3>2. t[i - Len(s)] = t[k - Len(s)]
      BY <1>1, <1>2, <1>5, <2>2
    <3>3. i - Len(s) = k - Len(s)
      BY <1>5, <3>1, <3>2 DEF Once
    <3> QED
      BY <1>1, <1>2, <3>3
  <2>3. CASE i <= Len(s) /\ k > Len(s)
    <3>1. i \in 1..Len(s) /\ k - Len(s) \in 1..Len(t) /\ s[i] = t[k - Len(s)]
      BY <1>1, <1>2, <1>5, <2>3
    <3> QED
      BY <1>4, <1>5, <3>1
  <2>4. CASE i > Len(s) /\ k <= Len(s)
    <3>1. k \in 1..Len(s) /\ i - Len(s) \in 1..Len(t) /\ s[k] = t[i - Len(s)]
      BY <1>1, <1>2, <1>5, <2>4
    <3> QED
      BY <1>4, <1>5, <3>1
  <2> QED
    BY <1>1, <1>2, <2>1, <2>2, <2>3, <2>4
<1>6. Once(s) /\ Once(t) /\ Range(s) \cap Range(t) = {} => Once(u)
  BY <1>5 DEF Once
<1> QED
  BY <1>1, <1>3, <1>6 DEF u

LEMMA NoneAndOne ==
  /\ Range(<<>>) = {} /\ Once(<<>>)
  /\ \A e : Range(<<e>>) = {e} /\ Once(<<e>>)
<1>1. Range(<<>>) = {} /\ Once(<<>>)
  BY DEF Range, Once
<1>2. ASSUME NEW e PROVE Range(<<e>>) = {e} /\ Once(<<e>>)
  <2>1. DOMAIN <<e>> = {1} /\ <<e>>[1] = e /\ Len(<<e>>) = 1
    OBVIOUS
  <2> QED
    BY <2>1 DEF Range, Once
<1> QED
  BY <1>1, <1>2

\* The tasks that j has not acknowledged, and those that broker and judgers have.
Mine(j) == Range(parked[j]) \cup Range(current[j]) \cup Range(buffer[j])
Tasks == Range(taskq) \cup UNION {Mine(j) : j \in Judgers}

\* The stages in which the task has not been published.
Before == {"idle", "rejected", "loaded", "charged", "created", "consuming"}

\* A judger has a task at hand when it judges or has answered, and each task is in one of
\* the parts of one judger or in the queue, once.
Apart(j) ==
  /\ Once(parked[j]) /\ Once(current[j]) /\ Once(buffer[j])
  /\ Range(parked[j]) \cap Range(current[j]) = {}
  /\ Range(parked[j]) \cap Range(buffer[j]) = {}
  /\ Range(current[j]) \cap Range(buffer[j]) = {}
  /\ Mine(j) \cap Range(taskq) = {}

TaskInv ==
  /\ \A j \in Judgers : /\ jstate[j] \in {"down", "idle"} => current[j] = <<>>
                        /\ Apart(j)
  /\ Once(taskq)
  /\ \A i, j \in Judgers : i # j => Mine(i) \cap Mine(j) = {}
  /\ \A r \in Tasks : pc[r] \notin Before

\* What a step of the judger j does to its tasks: it moves them, and gives none away but
\* those it drops.
Moves(j, dropped) ==
  /\ \A i \in Judgers \ {j} : /\ parked'[i] = parked[i] /\ current'[i] = current[i]
                              /\ buffer'[i] = buffer[i] /\ jstate'[i] = jstate[i]
  /\ jstate'[j] \in {"down", "idle"} => current'[j] = <<>>
  /\ Once(taskq') /\ Apart(j)'
  /\ Mine(j)' \cup Range(taskq') = (Mine(j) \cup Range(taskq)) \ dropped

\* The types and the invariant of j, in one place.
LEMMA OfJudger ==
  ASSUME TypeInv, TaskInv, NEW j \in Judgers
  PROVE  /\ parked[j] \in Seq(Requests) /\ current[j] \in Seq(Requests)
         /\ buffer[j] \in Seq(Requests) /\ taskq \in Seq(Requests)
         /\ Apart(j) /\ Once(taskq)
         /\ jstate[j] \in {"down", "idle"} => current[j] = <<>>
BY DEF TypeInv, TypeOK, BrokerTypeOK, JudgerTypeOK, TaskInv

LEMMA TasksMove ==
  ASSUME TaskInv, NEW j \in Judgers, NEW D, Moves(j, D), pc' = pc
  PROVE  TaskInv' /\ Tasks' = Tasks \ (D \cap (Mine(j) \cup Range(taskq)))
<1>1. \A i \in Judgers \ {j} : Mine(i)' = Mine(i)
  BY DEF Moves, Mine
<1>2. \A i \in Judgers \ {j} : Mine(i) \cap (Mine(j) \cup Range(taskq)) = {}
  BY DEF TaskInv, Apart
<1>3. Mine(j)' \cup Range(taskq') \subseteq Mine(j) \cup Range(taskq)
  BY DEF Moves
<1>4. \A i \in Judgers \ {j} : Mine(i)' \cap (Mine(j)' \cup Range(taskq')) = {}
  BY <1>1, <1>2, <1>3
<1>5. Tasks' = Tasks \ (D \cap (Mine(j) \cup Range(taskq)))
  <2>1. Tasks = (Mine(j) \cup Range(taskq)) \cup UNION {Mine(i) : i \in Judgers \ {j}}
    BY DEF Tasks
  <2>2. Tasks' = (Mine(j)' \cup Range(taskq')) \cup UNION {Mine(i) : i \in Judgers \ {j}}
    BY <1>1 DEF Tasks
  <2>3. \A r \in UNION {Mine(i) : i \in Judgers \ {j}} : r \notin Mine(j) \cup Range(taskq)
    BY <1>2
  <2> QED
    BY <2>1, <2>2, <2>3 DEF Moves
<1>6. ASSUME NEW i \in Judgers
      PROVE  /\ jstate'[i] \in {"down", "idle"} => current'[i] = <<>>
             /\ Apart(i)'
  <2>1. CASE i = j
    BY <2>1 DEF Moves
  <2>2. CASE i # j
    BY <1>1, <1>4, <2>2 DEF Moves, Apart, TaskInv
  <2> QED
    BY <2>1, <2>2
<1>7. \A i, k \in Judgers : i # k => Mine(i)' \cap Mine(k)' = {}
  BY <1>1, <1>4 DEF TaskInv
<1>8. \A r \in Tasks' : pc'[r] \notin Before
  BY <1>5 DEF TaskInv
<1>9. TaskInv'
  BY <1>6, <1>7, <1>8 DEF TaskInv, Moves
<1> QED
  BY <1>5, <1>9

\* The judger's own steps, one by one.
LEMMA JudgerMoves ==
  ASSUME TypeInv, TaskInv, NEW j \in Judgers,
         \/ StartJudger(j) \/ Deliver(j) \/ Begin(j) \/ Refuse(j) \/ Raise(j)
         \/ CrashJudger(j) \/ LoseConnection(j)
         \/ \E v \in Outcomes : Answer(j, v)
  PROVE  Moves(j, {})
<1> DEFINE P == parked[j]  C == current[j]  B == buffer[j]  Q == taskq
<1>a. /\ P \in Seq(Requests) /\ C \in Seq(Requests) /\ B \in Seq(Requests) /\ Q \in Seq(Requests)
      /\ Once(P) /\ Once(C) /\ Once(B) /\ Once(Q)
      /\ Range(P) \cap Range(C) = {} /\ Range(P) \cap Range(B) = {}
      /\ Range(C) \cap Range(B) = {}
      /\ Mine(j) \cap Range(Q) = {}
      /\ jstate[j] \in {"down", "idle"} => C = <<>>
  BY OfJudger DEF Apart
<1>b. Mine(j) = Range(P) \cup Range(C) \cup Range(B)
  BY DEF Mine
<1>0. \A i \in Judgers \ {j} : /\ parked'[i] = parked[i] /\ current'[i] = current[i]
                               /\ buffer'[i] = buffer[i] /\ jstate'[i] = jstate[i]
  BY DEF StartJudger, Deliver, Begin, Refuse, Raise, CrashJudger, LoseConnection, Answer,
    GoDown,
    TypeInv, TypeOK, JudgerTypeOK
<1>1. CASE StartJudger(j) \/ \E v \in Outcomes : Answer(j, v)
  <2>1. /\ UNCHANGED <<taskq, parked, current, buffer>>
        /\ jstate'[j] \in {"down", "idle"} => current[j] = <<>>
    BY <1>1, <1>a DEF StartJudger, Answer, brokerVars, TypeInv, TypeOK, JudgerTypeOK
  <2>2. Mine(j)' = Mine(j)
    BY <2>1 DEF Mine
  <2>3. Apart(j)'
    BY <2>1, <2>2, OfJudger DEF Apart
  <2> QED
    BY <1>0, <2>1, <2>2, <2>3, <1>a DEF Moves
<1>2. CASE Deliver(j)
  <2>1. /\ Q # <<>> /\ taskq' = Tail(Q) /\ buffer'[j] = Append(B, Head(Q))
        /\ parked'[j] = P /\ current'[j] = C /\ jstate'[j] = jstate[j]
    BY <1>2 DEF Deliver, TypeInv, TypeOK, JudgerTypeOK
  <2>2. /\ Head(Q) \in Requests /\ Range(Q) = {Head(Q)} \cup Range(Tail(Q))
        /\ Once(Tail(Q)) /\ Head(Q) \notin Range(Tail(Q))
    BY <2>1, <1>a, FirstAndRest
  <2>3. Head(Q) \notin Mine(j)
    BY <2>2, <1>a
  <2>4. Range(Append(B, Head(Q))) = Range(B) \cup {Head(Q)} /\ Once(Append(B, Head(Q)))
    BY <2>2, <2>3, <1>a, <1>b, OneMore
  <2>5. Mine(j)' = Mine(j) \cup {Head(Q)}
    BY <2>1, <2>4, <1>b DEF Mine
  <2>6. Apart(j)'
    BY <2>1, <2>2, <2>3, <2>4, <2>5, <1>a, <1>b DEF Apart
  <2> QED
    BY <1>0, <2>1, <2>2, <2>5, <2>6, <1>a DEF Moves
<1>3. CASE Begin(j)
  <2>1. /\ B # <<>> /\ buffer'[j] = Tail(B) /\ current'[j] = <<Head(B)>> /\ C = <<>>
        /\ taskq' = Q /\ parked'[j] = P /\ jstate'[j] = "judging"
    BY <1>3, <1>a DEF Begin, brokerVars, TypeInv, TypeOK, JudgerTypeOK
  <2>2. /\ Range(B) = {Head(B)} \cup Range(Tail(B))
        /\ Once(Tail(B)) /\ Head(B) \notin Range(Tail(B))
    BY <2>1, <1>a, FirstAndRest
  <2>3. Range(C) = {} /\ Range(current'[j]) = {Head(B)} /\ Once(current'[j])
    BY <2>1, NoneAndOne
  <2>4. Mine(j)' = Mine(j)
    BY <2>1, <2>2, <2>3, <1>b DEF Mine
  <2>5. Apart(j)'
    BY <2>1, <2>2, <2>3, <2>4, <1>a DEF Apart
  <2> QED
    BY <1>0, <2>1, <2>4, <2>5, <1>a DEF Moves
<1>4. CASE Refuse(j)
  <2>1. /\ B # <<>> /\ buffer'[j] = Tail(B) /\ parked'[j] = Append(P, Head(B))
        /\ taskq' = Q /\ current'[j] = C /\ jstate'[j] = jstate[j]
    BY <1>4 DEF Refuse, brokerVars, TypeInv, TypeOK, JudgerTypeOK
  <2>2. /\ Head(B) \in Requests /\ Range(B) = {Head(B)} \cup Range(Tail(B))
        /\ Once(Tail(B)) /\ Head(B) \notin Range(Tail(B))
    BY <2>1, <1>a, FirstAndRest
  <2>3. Range(Append(P, Head(B))) = Range(P) \cup {Head(B)} /\ Once(Append(P, Head(B)))
    BY <2>2, <1>a, OneMore
  <2>4. Mine(j)' = Mine(j)
    BY <2>1, <2>2, <2>3, <1>b DEF Mine
  <2>5. Apart(j)'
    BY <2>1, <2>2, <2>3, <2>4, <1>a DEF Apart
  <2> QED
    BY <1>0, <2>1, <2>4, <2>5, <1>a DEF Moves
<1>5. CASE Raise(j)
  <2>1. /\ parked'[j] = P \o C /\ current'[j] = <<>>
        /\ taskq' = Q /\ buffer'[j] = B
    BY <1>5 DEF Raise, TypeInv, TypeOK, JudgerTypeOK
  <2>2. Range(P \o C) = Range(P) \cup Range(C) /\ Once(P \o C)
    BY <1>a, OneAfterOther
  <2>3. Range(current'[j]) = {} /\ Once(current'[j])
    BY <2>1, NoneAndOne
  <2>4. Mine(j)' = Mine(j)
    BY <2>1, <2>2, <2>3, <1>b DEF Mine
  <2>5. Apart(j)'
    BY <2>1, <2>2, <2>3, <2>4, <1>a DEF Apart
  <2> QED
    BY <1>0, <2>1, <2>4, <2>5, <1>a DEF Moves
<1>6. CASE CrashJudger(j) \/ LoseConnection(j)
  <2>1. /\ taskq' = (P \o C \o B) \o Q
        /\ parked'[j] = <<>> /\ current'[j] = <<>> /\ buffer'[j] = <<>>
    BY <1>6 DEF CrashJudger, LoseConnection, GoDown, Unacked, TypeInv, TypeOK, JudgerTypeOK
  <2>2. P \o C \in Seq(Requests) /\ Range(P \o C) = Range(P) \cup Range(C) /\ Once(P \o C)
    BY <1>a, OneAfterOther
  <2>3. /\ P \o C \o B \in Seq(Requests) /\ Range(P \o C \o B) = Mine(j)
        /\ Once(P \o C \o B)
    <3> DEFINE D == P \o C
    <3>1. D \in Seq(Requests) /\ Once(D) /\ Range(D) \cap Range(B) = {}
      BY <2>2, <1>a
    <3> HIDE DEF D
    <3>2. D \o B \in Seq(Requests) /\ Range(D \o B) = Range(D) \cup Range(B) /\ Once(D \o B)
      BY <3>1, <1>a, OneAfterOther
    <3> QED
      BY <3>2, <2>2, <1>b DEF D
  <2>4. Range((P \o C \o B) \o Q) = Mine(j) \cup Range(Q) /\ Once((P \o C \o B) \o Q)
    <3> DEFINE D == P \o C \o B
    <3>1. D \in Seq(Requests) /\ Once(D) /\ Range(D) = Mine(j)
      BY <2>3
    <3> HIDE DEF D
    <3>2. Range(D \o Q) = Mine(j) \cup Range(Q) /\ Once(D \o Q)
      BY <3>1, <1>a, OneAfterOther
    <3> QED
      BY <3>2 DEF D
  <2>5. /\ Range(parked'[j]) = {} /\ Range(current'[j]) = {} /\ Range(buffer'[j]) = {}
        /\ Once(parked'[j]) /\ Once(current'[j]) /\ Once(buffer'[j])
    BY <2>1, NoneAndOne
  <2>6. Mine(j)' = {}
    BY <2>5 DEF Mine
  <2>7. Apart(j)'
    BY <2>5, <2>6 DEF Apart
  <2>8. Once(taskq') /\ Range(taskq') = Mine(j) \cup Range(taskq)
    BY <2>1, <2>4
  <2> QED
    BY <1>0, <2>1, <2>6, <2>7, <2>8 DEF Moves
<1> QED
  BY <1>1, <1>2, <1>3, <1>4, <1>5, <1>6

LEMMA AckDrops ==
  ASSUME TypeInv, TaskInv, NEW j \in Judgers, Ack(j)
  PROVE  Moves(j, Range(current[j]))
<1>1. /\ current'[j] = <<>> /\ parked'[j] = parked[j] /\ buffer'[j] = buffer[j] /\ taskq' = taskq
      /\ \A i \in Judgers \ {j} : /\ parked'[i] = parked[i] /\ current'[i] = current[i]
                                  /\ buffer'[i] = buffer[i] /\ jstate'[i] = jstate[i]
  BY DEF Ack, brokerVars, TypeInv, TypeOK, JudgerTypeOK
<1>2. Apart(j) /\ Once(taskq)
  BY OfJudger
<1> QED
  BY <1>1, <1>2, NoneAndOne DEF Moves, Apart, Mine

\* Of the API only a publication touches the tasks, with one that is nowhere yet.
LEMMA ApiLeavesTasks ==
  ASSUME TypeInv, ApiNext, \A r \in Requests : ~PublishTask(r)
  PROVE  taskq' = taskq /\ \A q \in Requests : pc[q] \notin Before => pc'[q] \notin Before
<1> USE DEF TypeInv, TypeOK
<1>1. ASSUME NEW r \in Requests,
             \/ Reject(r) \/ LoadUser(r) \/ SaveCharge(r) \/ CreateSubmit(r) \/ Connect(r)
             \/ PriorityOverflow(r)
             \/ Poll(r) \/ DropForeign(r) \/ StoreVerdict(r) \/ LoadOwner(r) \/ SaveReward(r)
             \/ KeepWaiting(r) \/ Close(r) \/ Fail(r) \/ DropConnection(r)
      PROVE  taskq' = taskq /\ \A q \in Requests : pc[q] \notin Before => pc'[q] \notin Before
  <2>1. taskq' = taskq
    BY <1>1 DEF Reject, LoadUser, SaveCharge, CreateSubmit, Connect, PriorityOverflow, Poll,
      DropForeign, StoreVerdict,
      LoadOwner, SaveReward, KeepWaiting, Close, Disconnect, Fail, DropConnection, brokerVars
  <2>2. \A q \in Requests : pc[q] \notin Before => pc'[q] \notin Before
    BY <1>1 DEF Reject, LoadUser, SaveCharge, CreateSubmit, Connect, PriorityOverflow, Poll,
      DropForeign, StoreVerdict,
      LoadOwner, SaveReward, KeepWaiting, Close, Fail, DropConnection, Move, ApiTypeOK, Before
  <2> QED
    BY <2>1, <2>2
<1>2. ASSUME NEW u \in Users, EditLoad(u) \/ EditSave(u)
                              \/ \E p \in Assigned : AssignPriority(u, p)
      PROVE  UNCHANGED <<taskq, pc>>
  BY <1>2 DEF EditLoad, EditSave, AssignPriority, brokerVars
<1>3. CASE ApiCrash
  BY <1>3 DEF ApiCrash, Before, ApiTypeOK
<1> QED
  BY <1>1, <1>2, <1>3 DEF ApiNext, View, Client, Callback

LEMMA PublishAdds ==
  ASSUME TypeInv, TaskInv, NEW r \in Requests, PublishTask(r), UNCHANGED judgerVars
  PROVE  TaskInv' /\ Tasks' = IF declared THEN Tasks \cup {r} ELSE Tasks
<1> USE DEF TypeInv, TypeOK
<1>1. /\ taskq' = IF declared THEN Append(taskq, r) ELSE taskq
      /\ pc[r] = "consuming" /\ pc' = [pc EXCEPT ![r] = "waiting"]
      /\ UNCHANGED <<parked, current, buffer, jstate>>
  BY DEF PublishTask, Enqueue, Move, judgerVars
<1>2. r \notin Tasks
  BY <1>1 DEF TaskInv, Before
<1>3. \A j \in Judgers : Mine(j)' = Mine(j) /\ Mine(j) \subseteq Tasks
  BY <1>1 DEF Mine, Tasks
<1>4. /\ Range(Append(taskq, r)) = Range(taskq) \cup {r}
      /\ Once(taskq) /\ r \notin Range(taskq) => Once(Append(taskq, r))
  BY OneMore DEF BrokerTypeOK
<1>5. Range(taskq') = IF declared THEN Range(taskq) \cup {r} ELSE Range(taskq)
  BY <1>1, <1>4
<1>6. Once(taskq')
  BY <1>1, <1>2, <1>4 DEF TaskInv, Tasks
<1>7. Tasks' = IF declared THEN Tasks \cup {r} ELSE Tasks
  BY <1>3, <1>5 DEF Tasks
<1>8. \A q \in Tasks' : pc'[q] \notin Before
  BY <1>1, <1>7 DEF TaskInv, Before, ApiTypeOK
<1>9. \A j \in Judgers : /\ jstate'[j] \in {"down", "idle"} => current'[j] = <<>>
                         /\ Apart(j)'
  BY <1>1, <1>2, <1>3, <1>5, ZenonT(60) DEF TaskInv, Apart
<1>10. \A i, j \in Judgers : i # j => Mine(i)' \cap Mine(j)' = {}
  BY <1>3 DEF TaskInv
<1> QED
  BY <1>6, <1>7, <1>8, <1>9, <1>10 DEF TaskInv

\* Steps that leave all tasks where they are.
LEMMA TaskFrame ==
  ASSUME TypeInv, TaskInv, UNCHANGED <<taskq, jstate, buffer, current, parked>>,
         \A q \in Requests : pc[q] \notin Before => pc'[q] \notin Before
  PROVE  TaskInv' /\ Tasks' = Tasks
<1>1. UNCHANGED <<parked, current, buffer, jstate>>
  OBVIOUS
<1>2. (\A j \in Judgers : Mine(j)' = Mine(j)) /\ Tasks' = Tasks
  BY <1>1 DEF Mine, Tasks
<1>3. \A j \in Judgers : Apart(j)' <=> Apart(j)
  BY <1>1, <1>2 DEF Apart
<1>4. Tasks \subseteq Requests
  <2>1. ASSUME NEW j \in Judgers PROVE Mine(j) \subseteq Requests
    BY OfJudger, RangeOfSeq DEF Mine
  <2>2. Range(taskq) \subseteq Requests
    BY RangeOfSeq DEF TypeInv, TypeOK, BrokerTypeOK
  <2> QED
    BY <2>1, <2>2 DEF Tasks
<1> QED
  BY <1>1, <1>2, <1>3, <1>4 DEF TaskInv

\* The steps of a judger on the deliveries of its connection, and those on the deliveries
\* of a lost one, which move no task.
OwnStep(j) == JudgerStep(j) \/ Raise(j) \/ CrashJudger(j) \/ LoseConnection(j)
OutdatedStep(j) == DropOutdated(j) \/ \E v \in Outcomes : AnswerOutdated(j, v)

LEMMA OutdatedFrame ==
  ASSUME NEW j \in Judgers, OutdatedStep(j)
  PROVE  UNCHANGED <<taskq, jstate, buffer, current, parked, redelivered>>
BY DEF OutdatedStep, DropOutdated, AnswerOutdated, brokerVars

LEMMA TaskStep ==
  ASSUME TypeInv, TaskInv, [Next]_vars
  PROVE  TaskInv'
<1>1. CASE ApiNext /\ UNCHANGED judgerVars
  BY <1>1, ApiLeavesTasks, PublishAdds, TaskFrame DEF judgerVars
<1>2. ASSUME NEW j \in Judgers, UNCHANGED apiVars, OwnStep(j)
      PROVE  TaskInv'
  <2>1. pc' = pc
    BY <1>2 DEF apiVars
  <2>2. Moves(j, {}) \/ Moves(j, Range(current[j]))
    BY <1>2, JudgerMoves, AckDrops DEF OwnStep, JudgerStep
  <2> QED
    BY <2>1, <2>2, TasksMove
<1>3. CASE Push /\ UNCHANGED <<apiVars, judgerVars>>
  BY <1>3, TaskFrame DEF Push, apiVars, judgerVars
<1>4. CASE UNCHANGED vars
  BY <1>4, TaskFrame DEF vars, brokerVars, apiVars, judgerVars
<1>5. ASSUME NEW j \in Judgers, UNCHANGED apiVars, OutdatedStep(j)
      PROVE  TaskInv'
  BY <1>5, OutdatedFrame, TaskFrame DEF apiVars
<1> QED
  BY <1>1, <1>2, <1>3, <1>4, <1>5 DEF Next, JudgerNext, OwnStep, OutdatedStep

LEMMA TaskHolds == Spec => []TaskInv
<1>1. Init => TaskInv
  BY NoneAndOne DEF Init, BrokerInit, JudgerInit, TaskInv, Apart, Mine, Tasks
<1>2. TypeInv /\ TaskInv /\ [Next]_vars => TaskInv'
  BY TaskStep
<1> QED
  BY <1>1, <1>2, TypeCorrect, PTL DEF Spec

\* What a judger has not acknowledged, as one sequence.
LEMMA UnackedOnce ==
  ASSUME TypeInv, TaskInv, NEW j \in Judgers
  PROVE  /\ Unacked(j) \in Seq(Requests) /\ Range(Unacked(j)) = Mine(j)
         /\ Once(Unacked(j))
<1> DEFINE s == parked[j] \o current[j]
<1>1. /\ parked[j] \in Seq(Requests) /\ current[j] \in Seq(Requests)
      /\ buffer[j] \in Seq(Requests) /\ Apart(j)
  BY OfJudger
<1>2. /\ s \in Seq(Requests) /\ Range(s) = Range(parked[j]) \cup Range(current[j])
      /\ Once(s)
  BY <1>1, OneAfterOther DEF Apart
<1>3. Unacked(j) = s \o buffer[j] /\ Range(s) \cap Range(buffer[j]) = {}
  BY <1>1, <1>2 DEF Apart, Unacked
<1> HIDE DEF s
<1>4. /\ s \o buffer[j] \in Seq(Requests) /\ Once(s \o buffer[j])
      /\ Range(s \o buffer[j]) = Range(s) \cup Range(buffer[j])
  BY <1>1, <1>2, <1>3, OneAfterOther DEF Apart
<1> QED
  BY <1>2, <1>3, <1>4 DEF Mine

\* The stages of a thread that has published its task.
Sent == {"waiting", "dispatching", "stored", "rewarding", "closed"}

\* An answer to r has been published.
Told(r) == \E v \in Verdicts : [req |-> r, verdict |-> v] \in published

\* What was published is still a task, or was dropped for want of a queue, or has been
\* answered; and a judger works on one task at a time, so that it has answered all that
\* it then acknowledges.
GoneInv ==
  /\ \A r \in Requests : pc[r] \in Sent => r \in Tasks \/ <<r, "unroutable">> \in lost \/ Told(r)
  /\ \A j \in Judgers : \A q, r \in Range(current[j]) : q = r
  /\ \A j \in Judgers : jstate[j] = "answered" => \A r \in Range(current[j]) : Told(r)

\* Nothing lost is found, and no answer is taken back.
LEMMA HistoryGrows ==
  ASSUME TypeInv, [Next]_vars
  PROVE  lost \subseteq lost' /\ published \subseteq published'
<1>1. CASE ApiNext
  BY <1>1 DEF ApiNext, View, Client, Callback, Reject, LoadUser, SaveCharge, CreateSubmit,
    Connect, PriorityOverflow, PublishTask, Poll, DropForeign, StoreVerdict, LoadOwner,
    SaveReward, KeepWaiting,
    Close, Disconnect, Fail, DropConnection, EditLoad, EditSave, AssignPriority, ApiCrash,
    Lose, brokerVars
<1>2. CASE JudgerNext /\ UNCHANGED apiVars
  BY <1>2 DEF JudgerNext, JudgerStep, StartJudger, Deliver, Begin, Refuse, Ack, Answer, Respond,
    Raise, CrashJudger, LoseConnection, AnswerOutdated, DropOutdated, brokerVars, apiVars
<1>3. CASE Push /\ UNCHANGED apiVars
  BY <1>3 DEF Push, apiVars
<1>4. CASE UNCHANGED vars
  BY <1>4 DEF vars, brokerVars, apiVars
<1> QED
  BY <1>1, <1>2, <1>3, <1>4 DEF Next

\* Only the publication makes a thread one that has published.
LEMMA SentByPublish ==
  ASSUME TypeInv, ApiNext, NEW r \in Requests, pc'[r] \in Sent
  PROVE  pc[r] \in Sent \/ PublishTask(r)
<1> USE DEF TypeInv, TypeOK, ApiTypeOK, Sent
<1>1. ASSUME NEW q \in Requests, PublishTask(q), q # r
      PROVE  pc'[r] = pc[r]
  BY <1>1 DEF PublishTask, Move
<1>2. ASSUME NEW q \in Requests,
             \/ Reject(q) \/ LoadUser(q) \/ SaveCharge(q) \/ CreateSubmit(q) \/ Connect(q)
             \/ PriorityOverflow(q)
             \/ Poll(q) \/ DropForeign(q) \/ StoreVerdict(q) \/ LoadOwner(q) \/ SaveReward(q)
             \/ KeepWaiting(q) \/ Close(q) \/ Fail(q) \/ DropConnection(q)
      PROVE  pc[r] \in Sent
  BY <1>2 DEF Reject, LoadUser, SaveCharge, CreateSubmit, Connect, PriorityOverflow, Poll,
    DropForeign, StoreVerdict,
    LoadOwner, SaveReward, KeepWaiting, Close, Fail, DropConnection, Move
<1>3. ASSUME NEW u \in Users, EditLoad(u) \/ EditSave(u)
                              \/ \E p \in Assigned : AssignPriority(u, p)
      PROVE  pc[r] \in Sent
  BY <1>3 DEF EditLoad, EditSave, AssignPriority
<1>4. CASE ApiCrash
  BY <1>4 DEF ApiCrash, Final
<1> QED
  BY <1>1, <1>2, <1>3, <1>4 DEF ApiNext, View, Client, Callback

\* What a judger has at hand after a step of its own.
LEMMA AtHand ==
  ASSUME TypeInv, TaskInv, NEW j \in Judgers,
         \/ StartJudger(j) \/ Deliver(j) \/ Begin(j) \/ Refuse(j) \/ Raise(j)
         \/ CrashJudger(j) \/ LoseConnection(j)
         \/ Ack(j) \/ \E v \in Outcomes : Answer(j, v),
         \A q, r \in Range(current[j]) : q = r,
         jstate[j] = "answered" => \A r \in Range(current[j]) : Told(r)
  PROVE  /\ \A q, r \in Range(current'[j]) : q = r
         /\ jstate'[j] = "answered" => \A r \in Range(current'[j]) : Told(r)'
<1> USE DEF TypeInv, TypeOK, JudgerTypeOK
<1>1. CASE StartJudger(j) \/ Deliver(j) \/ Refuse(j)
  <2>1. /\ current'[j] = current[j] /\ published' = published
        /\ jstate'[j] = "answered" => jstate[j] = "answered"
    BY <1>1 DEF StartJudger, Deliver, Refuse, brokerVars
  <2> QED
    BY <2>1 DEF Told
<1>2. CASE Begin(j)
  <2>1. current'[j] = <<Head(buffer[j])>> /\ jstate'[j] = "judging"
    BY <1>2 DEF Begin
  <2>2. Range(current'[j]) = {Head(buffer[j])}
    BY <2>1, NoneAndOne
  <2> QED
    BY <2>1, <2>2
<1>3. CASE Raise(j) \/ CrashJudger(j) \/ LoseConnection(j) \/ Ack(j)
  <2>1. current'[j] = <<>>
    BY <1>3 DEF Raise, CrashJudger, LoseConnection, GoDown, Ack
  <2>2. Range(current'[j]) = {}
    BY <2>1, NoneAndOne
  <2> QED
    BY <2>2
<1>4. ASSUME NEW v \in Outcomes, Answer(j, v)
      PROVE  /\ \A q, r \in Range(current'[j]) : q = r
             /\ \A r \in Range(current'[j]) : Told(r)'
  <2>1. current' = current /\ current[j] \in Seq(Requests) /\ current[j] # <<>>
    BY <1>4 DEF Answer, JudgingHolds
  <2>2. Head(current[j]) \in Range(current[j])
    BY <2>1, FirstAndRest
  <2>3. [req |-> Head(current[j]), verdict |-> v] \in published' /\ v \in Verdicts
    BY <1>4, JudgerAssumption DEF Answer, Respond
  <2>4. \A r \in Range(current[j]) : r = Head(current[j])
    BY <2>2
  <2>5. \A r \in Range(current'[j]) : Told(r)'
    BY <2>1, <2>3, <2>4 DEF Told
  <2> QED
    BY <2>1, <2>5
<1> QED
  BY <1>1, <1>2, <1>3, <1>4

LEMMA GoneStep ==
  ASSUME TypeInv, TaskInv, GoneInv, [Next]_vars
  PROVE  GoneInv'
<1>1. lost \subseteq lost' /\ published \subseteq published'
  BY HistoryGrows
<1>2. \A r \in Requests : Told(r) => Told(r)'
  BY <1>1 DEF Told
<1>3. ASSUME UNCHANGED <<jstate, current>>
      PROVE  /\ \A j \in Judgers : \A q, r \in Range(current'[j]) : q = r
             /\ \A j \in Judgers : jstate'[j] = "answered" =>
                  \A r \in Range(current'[j]) : Told(r)'
  <2>1. current' = current /\ jstate' = jstate
    BY <1>3
  <2>2. \A j \in Judgers : Range(current[j]) \subseteq Requests
    BY OfJudger, RangeOfSeq
  <2> QED
    BY <2>1, <2>2, <1>2 DEF GoneInv
<1>4. ASSUME ApiNext, UNCHANGED judgerVars, \A r \in Requests : ~PublishTask(r)
      PROVE  GoneInv'
  <2>1. taskq' = taskq /\ \A q \in Requests : pc[q] \notin Before => pc'[q] \notin Before
    BY <1>4, ApiLeavesTasks
  <2>2. Tasks' = Tasks
    BY <1>4, <2>1, TaskFrame DEF judgerVars
  <2>3. \A r \in Requests : pc'[r] \in Sent => pc[r] \in Sent
    BY <1>4, SentByPublish
  <2> QED
    BY <1>1, <1>2, <1>3, <1>4, <2>2, <2>3 DEF GoneInv, judgerVars
<1>5. ASSUME NEW q \in Requests, PublishTask(q), UNCHANGED judgerVars
      PROVE  GoneInv'
  <2>1. Tasks' = IF declared THEN Tasks \cup {q} ELSE Tasks
    BY <1>5, PublishAdds
  <2>2. ~declared => <<q, "unroutable">> \in lost'
    BY <1>5 DEF PublishTask, Lose
  <2>3. \A r \in Requests \ {q} : pc'[r] = pc[r]
    BY <1>5 DEF PublishTask, Move, TypeInv, TypeOK, ApiTypeOK
  <2> QED
    BY <1>1, <1>2, <1>3, <1>5, <2>1, <2>2, <2>3 DEF GoneInv, judgerVars
<1>6. ASSUME NEW j \in Judgers, UNCHANGED apiVars, OwnStep(j)
      PROVE  GoneInv'
  <2>1. pc' = pc
    BY <1>6 DEF apiVars
  <2>2. Tasks' = Tasks \/ (Ack(j) /\ Tasks \subseteq Tasks' \cup Range(current[j]))
    BY <1>6, <2>1, JudgerMoves, AckDrops, TasksMove DEF OwnStep, JudgerStep
  <2>3. Ack(j) => \A r \in Range(current[j]) : Told(r)
    BY DEF Ack, GoneInv
  <2>4. \A r \in Requests : r \in Tasks => r \in Tasks' \/ Told(r)
    BY <2>2, <2>3
  <2>5. Moves(j, {}) \/ Moves(j, Range(current[j]))
    BY <1>6, JudgerMoves, AckDrops DEF OwnStep, JudgerStep
  <2>6. \A i \in Judgers \ {j} : current'[i] = current[i] /\ jstate'[i] = jstate[i]
    BY <2>5 DEF Moves
  <2>7. /\ \A q, r \in Range(current'[j]) : q = r
        /\ jstate'[j] = "answered" => \A r \in Range(current'[j]) : Told(r)'
    BY <1>6, AtHand DEF OwnStep, JudgerStep, GoneInv
  <2>8. \A i \in Judgers : Range(current[i]) \subseteq Requests
    BY OfJudger, RangeOfSeq
  <2>9. \A r \in Requests : pc'[r] \in Sent =>
                              r \in Tasks' \/ <<r, "unroutable">> \in lost' \/ Told(r)'
    BY <1>1, <1>2, <2>1, <2>4 DEF GoneInv
  <2>10. ASSUME NEW i \in Judgers
         PROVE  /\ \A q, r \in Range(current'[i]) : q = r
                /\ jstate'[i] = "answered" => \A r \in Range(current'[i]) : Told(r)'
    BY <1>2, <2>6, <2>7, <2>8 DEF GoneInv
  <2> QED
    BY <2>9, <2>10 DEF GoneInv
<1>7. ASSUME UNCHANGED <<taskq, apiVars, jstate, buffer, current, parked>>
      PROVE  GoneInv'
  <2>1. Tasks' = Tasks
    BY <1>7, TaskFrame DEF apiVars
  <2>2. pc' = pc
    BY <1>7 DEF apiVars
  <2> QED
    BY <1>1, <1>2, <1>3, <1>7, <2>1, <2>2 DEF GoneInv
<1>8. ASSUME NEW j \in Judgers, UNCHANGED apiVars, OutdatedStep(j)
      PROVE  GoneInv'
  BY <1>7, <1>8, OutdatedFrame
<1> QED
  BY <1>4, <1>5, <1>6, <1>7, <1>8
     DEF Next, JudgerNext, OwnStep, OutdatedStep, Push, vars, brokerVars, judgerVars

LEMMA GoneHolds == Spec => []GoneInv
<1>1. Init => GoneInv
  BY NoneAndOne DEF Init, ApiInit, JudgerInit, GoneInv, Sent
<1>2. TypeInv /\ TaskInv /\ GoneInv /\ [Next]_vars => GoneInv'
  BY GoneStep
<1> QED
  BY <1>1, <1>2, TypeCorrect, TaskHolds, PTL DEF Spec

\* A task that reached the queue is with the broker or a judger until an answer to it has
\* been published (judger.rb:198-201).
THEOREM AnsweredBeforeGoneHolds == Spec => []AnsweredBeforeGone
<1>1. TypeInv /\ TaskInv /\ GoneInv => AnsweredBeforeGone
  <2> SUFFICES ASSUME TypeInv, TaskInv, GoneInv PROVE AnsweredBeforeGone
    OBVIOUS
  <2>1. Tasks = Range(taskq) \cup Held
    BY UnackedOnce DEF Tasks, Held
  <2> QED
    BY <2>1 DEF GoneInv, AnsweredBeforeGone, Sent, Told
<1> QED
  BY <1>1, TypeCorrect, TaskHolds, GoneHolds, PTL

\* The responses between a judger and a callback, and those a step may take from there.
OnWay == Range(respq) \cup UNION {Range(inbox[q]) \cup Range(batch[q]) : q \in Requests}
Lost(r) == \E c \in Causes : <<r, c>> \in lost
Safe(r) == result[r] # "Q" \/ (\E m \in OnWay : m.req = r) \/ pc[r] = "failed" \/ Lost(r)

\* Whatever step is taken, an opened row is safe in this sense, or its thread has still to
\* publish, or its task is with the broker or a judger.  A judger that acknowledges leaves
\* a safe row behind; and a thread that does not dispatch has nothing to dispatch.
Dispatching == {"dispatching", "stored", "rewarding"}
Drained == \A r \in Requests : pc[r] \notin Dispatching => batch[r] = <<>>
SafeInv ==
  /\ Drained
  /\ \A r \in Requests : Safe(r) \/ pc[r] \in {"created", "consuming"} \/ r \in Tasks
  /\ \A j \in Judgers : jstate[j] = "answered" => \A r \in Range(current[j]) : Safe(r)

LEMMA AnsweredRange ==
  ASSUME NEW s
  PROVE  Answered(s) = {m.req : m \in Range(s)}
BY DEF Answered, Range

LEMMA OnWayIsReturning ==
  ASSUME TypeInv, NEW r \in Requests, NEW m \in OnWay, m.req = r
  PROVE  r \in Returning
<1>1. CASE m \in Range(respq)
  BY <1>1, AnsweredRange DEF Returning
<1>2. ASSUME NEW q \in Requests, m \in Range(inbox[q]) \cup Range(batch[q])
      PROVE  r \in Returning
  <2>1. Range(inbox[q] \o batch[q]) = Range(inbox[q]) \cup Range(batch[q])
    BY OneAfterOther DEF TypeInv, TypeOK, BrokerTypeOK, ApiTypeOK
  <2>2. r \in Answered(inbox[q] \o batch[q])
    BY <1>2, <2>1, AnsweredRange
  <2> QED
    BY <2>2 DEF Returning
<1> QED
  BY <1>1, <1>2 DEF OnWay

LEMMA DrainedStep ==
  ASSUME TypeInv, Drained, [Next]_vars
  PROVE  Drained'
<1> USE DEF TypeInv, TypeOK, ApiTypeOK, Drained, Dispatching
<1>1. CASE UNCHANGED <<pc, batch>>
  BY <1>1
<1>2. ASSUME NEW r \in Requests,
             \/ Reject(r) \/ LoadUser(r) \/ SaveCharge(r) \/ CreateSubmit(r) \/ Connect(r)
             \/ PriorityOverflow(r)
             \/ PublishTask(r) \/ Poll(r) \/ LoadOwner(r) \/ SaveReward(r)
      PROVE  Drained'
  BY <1>2 DEF Reject, LoadUser, SaveCharge, CreateSubmit, Connect, PriorityOverflow,
    PublishTask, Poll, LoadOwner,
    SaveReward, Move
<1>3. ASSUME NEW r \in Requests,
             \/ DropForeign(r) \/ StoreVerdict(r) \/ KeepWaiting(r) \/ Close(r) \/ Fail(r)
             \/ DropConnection(r)
      PROVE  Drained'
  BY <1>3 DEF DropForeign, StoreVerdict, KeepWaiting, Close, Fail, DropConnection, Move
<1>4. CASE ApiCrash
  BY <1>4 DEF ApiCrash
<1>5. ASSUME NEW u \in Users, EditLoad(u) \/ EditSave(u)
                              \/ \E p \in Assigned : AssignPriority(u, p)
      PROVE  Drained'
  BY <1>1, <1>5 DEF EditLoad, EditSave, AssignPriority
<1> QED
  BY <1>1, <1>2, <1>3, <1>4, <1>5 DEF Next, ApiNext, View, Client, Callback, apiVars, vars

LEMMA FailedStays ==
  ASSUME TypeInv, [Next]_vars, NEW r \in Requests, pc[r] = "failed"
  PROVE  pc'[r] = "failed"
<1> USE DEF TypeInv, TypeOK, ApiTypeOK
<1>1. ASSUME NEW q \in Requests,
             \/ Reject(q) \/ LoadUser(q) \/ SaveCharge(q) \/ CreateSubmit(q) \/ Connect(q)
             \/ PriorityOverflow(q)
             \/ PublishTask(q) \/ Poll(q) \/ DropForeign(q) \/ StoreVerdict(q) \/ LoadOwner(q)
             \/ SaveReward(q) \/ KeepWaiting(q) \/ Close(q) \/ Fail(q) \/ DropConnection(q)
      PROVE  pc'[r] = "failed"
  BY <1>1 DEF Reject, LoadUser, SaveCharge, CreateSubmit, Connect, PriorityOverflow,
    PublishTask, Poll, DropForeign,
    StoreVerdict, LoadOwner, SaveReward, KeepWaiting, Close, Fail, DropConnection, Move
<1>2. CASE ApiCrash
  BY <1>2 DEF ApiCrash, Final
<1>3. ASSUME NEW u \in Users, EditLoad(u) \/ EditSave(u)
                              \/ \E p \in Assigned : AssignPriority(u, p)
      PROVE  pc' = pc
  BY <1>3 DEF EditLoad, EditSave, AssignPriority
<1> QED
  BY <1>1, <1>2, <1>3 DEF Next, ApiNext, View, Client, Callback, apiVars, vars

\* What a judger publishes is a response.
LEMMA AnswerType ==
  ASSUME TypeInv, NEW j \in Judgers, NEW v \in Outcomes
  PROVE  /\ Answer(j, v) => [req |-> Head(current[j]), verdict |-> v] \in Response
         /\ AnswerOutdated(j, v) => [req |-> Head(outdated[j]), verdict |-> v] \in Response
<1> USE DEF TypeInv, TypeOK, JudgerTypeOK
<1>1. Answer(j, v) => current[j] # <<>>
  BY DEF Answer, JudgingHolds
<1>2. AnswerOutdated(j, v) => outdated[j] # <<>>
  BY DEF AnswerOutdated
<1>3. v \in Verdicts
  BY JudgerAssumption
<1>4. current[j] \in Seq(Requests) /\ outdated[j] \in Seq(Requests)
  OBVIOUS
<1> QED
  BY <1>1, <1>2, <1>3, <1>4, FirstAndRest DEF Response

\* A response stays on its way, or its submission is known to have lost it, or has
\* a verdict.
Kept(m) == m \in OnWay' \/ Lost(m.req)' \/ result'[m.req] # "Q"

LEMMA ResponseKept ==
  ASSUME TypeInv, Drained, [Next]_vars, NEW m \in OnWay
  PROVE  Kept(m)
<1> USE DEF TypeInv, TypeOK, ApiTypeOK, BrokerTypeOK
<1>a. \/ m \in Range(respq)
      \/ \E q \in Requests : m \in Range(inbox[q]) \/ m \in Range(batch[q])
  BY DEF OnWay
<1>b. ASSUME \/ m \in Range(respq')
             \/ \E q \in Requests : m \in Range(inbox'[q]) \/ m \in Range(batch'[q])
      PROVE  Kept(m)
  BY <1>b DEF OnWay, Kept
<1>0. CASE UNCHANGED <<respq, inbox, batch>>
  BY <1>0 DEF OnWay, Kept
<1>1. ASSUME NEW r \in Requests, Poll(r)
      PROVE  Kept(m)
  <2>1. batch[r] = <<>>
    BY <1>1 DEF Poll, Move, Drained, Dispatching
  <2>2. /\ respq' = respq /\ batch'[r] = inbox[r]
        /\ \A q \in Requests \ {r} : inbox'[q] = inbox[q] /\ batch'[q] = batch[q]
    BY <1>1 DEF Poll
  <2>3. Range(batch[r]) = {}
    BY <2>1, NoneAndOne
  <2> QED
    BY <1>a, <1>b, <2>2, <2>3
<1>2. ASSUME NEW r \in Requests, DropForeign(r) \/ StoreVerdict(r)
      PROVE  Kept(m)
  <2>1. /\ respq' = respq /\ inbox' = inbox /\ batch'[r] = Tail(batch[r]) /\ batch[r] # <<>>
        /\ \A q \in Requests \ {r} : batch'[q] = batch[q]
    BY <1>2 DEF DropForeign, StoreVerdict, brokerVars
  <2>2. Range(batch[r]) = {Head(batch[r])} \cup Range(Tail(batch[r]))
    BY <2>1, FirstAndRest
  <2>3. CASE m # Head(batch[r])
    BY <1>a, <1>b, <2>1, <2>2, <2>3
  <2>4. CASE m = Head(batch[r]) /\ DropForeign(r)
    <3>1. <<m.req, "misrouted">> \in lost'
      BY <2>4 DEF DropForeign, Lose
    <3> QED
      BY <3>1 DEF Kept, Lost, Causes
  <2>5. CASE m = Head(batch[r]) /\ StoreVerdict(r)
    <3>1. m.req = r /\ result'[r] = m.verdict /\ m.verdict \in Verdicts
      BY <2>5, HeadType DEF StoreVerdict
    <3> QED
      BY <3>1 DEF Kept, Verdicts
  <2> QED
    BY <1>2, <2>3, <2>4, <2>5
<1>3. ASSUME NEW r \in Requests, Close(r) \/ DropConnection(r)
      PROVE  Kept(m)
  <2>1. /\ respq' = respq /\ batch' = batch
        /\ \A q \in Requests \ {r} : inbox'[q] = inbox[q]
        /\ lost' = lost \cup (Answered(inbox[r]) \X {"discarded"})
    BY <1>3 DEF Close, DropConnection, Disconnect, Lose
  <2>2. CASE m \in Range(inbox[r])
    <3>1. <<m.req, "discarded">> \in lost'
      BY <2>1, <2>2, AnsweredRange
    <3> QED
      BY <3>1 DEF Kept, Lost, Causes
  <2>3. CASE m \notin Range(inbox[r])
    BY <1>a, <1>b, <2>1, <2>3
  <2> QED
    BY <2>2, <2>3
<1>4. ASSUME NEW r \in Requests, Fail(r)
      PROVE  Kept(m)
  <2>1. /\ respq' = respq /\ inbox' = inbox
        /\ \A q \in Requests \ {r} : batch'[q] = batch[q]
        /\ lost' = lost \cup (Answered(batch[r]) \X {"discarded"})
    BY <1>4 DEF Fail, Lose
  <2>2. CASE m \in Range(batch[r])
    <3>1. <<m.req, "discarded">> \in lost'
      BY <2>1, <2>2, AnsweredRange
    <3> QED
      BY <3>1 DEF Kept, Lost, Causes
  <2>3. CASE m \notin Range(batch[r])
    BY <1>a, <1>b, <2>1, <2>3
  <2> QED
    BY <2>2, <2>3
<1>5. CASE ApiCrash
  <2>1. respq' = respq
    BY <1>5 DEF ApiCrash
  <2>2. CASE m \in Range(respq)
    BY <2>1, <2>2 DEF OnWay, Kept
  <2>3. ASSUME NEW q \in Requests, m \in Range(inbox[q]) \cup Range(batch[q])
        PROVE  Kept(m)
    <3>1. Range(inbox[q] \o batch[q]) = Range(inbox[q]) \cup Range(batch[q])
      BY OneAfterOther
    <3>2. m.req \in Answered(inbox[q] \o batch[q])
      BY <2>3, <3>1, AnsweredRange
    <3>3. <<m.req, "discarded">> \in lost'
      BY <1>5, <3>2 DEF ApiCrash, Lose
    <3> QED
      BY <3>3 DEF Kept, Lost, Causes
  <2> QED
    BY <2>2, <2>3 DEF OnWay
<1>6. CASE Push /\ UNCHANGED apiVars
  <2> DEFINE c == Head(consumers)
  <2>1. /\ respq # <<>> /\ consumers # <<>> /\ respq' = Tail(respq)
        /\ inbox' = [inbox EXCEPT ![c] = Append(@, Head(respq))]
    BY <1>6 DEF Push
  <2>2. c \in Requests
    BY <2>1, FirstAndRest
  <2>3. Head(respq) \in Response /\ Range(respq) = {Head(respq)} \cup Range(respq')
    BY <2>1, FirstAndRest
  <2>4. Range(Append(inbox[c], Head(respq))) = Range(inbox[c]) \cup {Head(respq)}
    BY <2>2, <2>3, OneMore
  <2>5. \A q \in Requests \ {c} : inbox'[q] = inbox[q]
    BY <2>1
  <2>6. inbox'[c] = Append(inbox[c], Head(respq))
    BY <2>1, <2>2
  <2>7. CASE m \in Range(respq) \/ m \in Range(inbox[c])
    <3>1. m \in Range(respq') \/ m \in Range(inbox'[c])
      BY <2>3, <2>4, <2>6, <2>7
    <3> QED
      BY <3>1, <2>2 DEF OnWay, Kept
  <2>8. ASSUME NEW q \in Requests, q # c, m \in Range(inbox[q])
        PROVE  Kept(m)
    BY <1>b, <2>5, <2>8
  <2>9. ASSUME NEW q \in Requests, m \in Range(batch[q])
        PROVE  Kept(m)
    BY <1>6, <2>9 DEF apiVars, OnWay, Kept
  <2> QED
    BY <2>7, <2>8, <2>9 DEF OnWay
<1>7. ASSUME NEW e \in Response, Respond(e), UNCHANGED <<inbox, batch>>
      PROVE  Kept(m)
  <2>1. Range(respq) \subseteq Range(respq')
    BY <1>7, OneMore DEF Respond
  <2> QED
    BY <1>7, <2>1 DEF OnWay, Kept
<1>8. ASSUME NEW r \in Requests,
             \/ Reject(r) \/ LoadUser(r) \/ SaveCharge(r) \/ CreateSubmit(r) \/ Connect(r)
             \/ PriorityOverflow(r)
             \/ PublishTask(r) \/ LoadOwner(r) \/ SaveReward(r) \/ KeepWaiting(r)
      PROVE  Kept(m)
  BY <1>0, <1>8 DEF Reject, LoadUser, SaveCharge, CreateSubmit, Connect, PriorityOverflow,
    PublishTask, LoadOwner,
    SaveReward, KeepWaiting, brokerVars
<1>9. ASSUME NEW u \in Users, EditLoad(u) \/ EditSave(u)
                              \/ \E p \in Assigned : AssignPriority(u, p)
      PROVE  Kept(m)
  BY <1>0, <1>9 DEF EditLoad, EditSave, AssignPriority, brokerVars
<1>10. ASSUME NEW j \in Judgers, UNCHANGED apiVars,
              \/ StartJudger(j) \/ Deliver(j) \/ Begin(j) \/ Refuse(j) \/ Ack(j) \/ Raise(j)
              \/ CrashJudger(j) \/ LoseConnection(j) \/ DropOutdated(j)
       PROVE  Kept(m)
  BY <1>0, <1>10 DEF StartJudger, Deliver, Begin, Refuse, Ack, Raise, CrashJudger,
    LoseConnection,
    DropOutdated, brokerVars, apiVars
<1>11. CASE UNCHANGED vars
  BY <1>0, <1>11 DEF vars, brokerVars, apiVars
<1>12. ASSUME NEW j \in Judgers, NEW v \in Outcomes, Answer(j, v) \/ AnswerOutdated(j, v),
              UNCHANGED apiVars
       PROVE  Kept(m)
  BY <1>7, <1>12, AnswerType DEF Answer, AnswerOutdated, apiVars
<1> QED
  BY <1>1, <1>2, <1>3, <1>4, <1>5, <1>6, <1>8, <1>9, <1>10, <1>11, <1>12
     DEF Next, ApiNext, View, Client, Callback, JudgerNext, JudgerStep

\* A row is 'Q' from its creation on, and only then can it become unsafe.
LEMMA SafeKept ==
  ASSUME TypeInv, Drained, [Next]_vars, NEW r \in Requests, Safe(r)
  PROVE  Safe(r)' \/ (pc[r] = "charged" /\ pc'[r] = "created")
<1>1. CASE result[r] # "Q"
  <2>1. result'[r] # "Q" \/ CreateSubmit(r)
    <3> USE DEF TypeInv, TypeOK, ApiTypeOK
    <3>1. ASSUME NEW q \in Requests, StoreVerdict(q)
          PROVE  result'[r] # "Q"
      <4>1. Head(batch[q]).verdict # "Q"
        BY <3>1, HeadType DEF StoreVerdict, Verdicts
      <4> QED
        BY <1>1, <3>1, <4>1 DEF StoreVerdict
    <3>2. ASSUME NEW q \in Requests, CreateSubmit(q)
          PROVE  result'[r] # "Q" \/ CreateSubmit(r)
      BY <1>1, <3>2 DEF CreateSubmit
    <3>3. ASSUME \A q \in Requests : ~CreateSubmit(q) /\ ~StoreVerdict(q)
          PROVE  result' = result
      BY <3>3 DEF Next, ApiNext, View, Client, Callback, Reject, LoadUser, SaveCharge, Connect,
        PriorityOverflow,
        PublishTask, Poll, DropForeign, LoadOwner, SaveReward, KeepWaiting, Close, Fail,
        DropConnection, EditLoad, EditSave, AssignPriority, ApiCrash, apiVars, vars
    <3> QED
      BY <1>1, <3>1, <3>2, <3>3
  <2>2. CreateSubmit(r) => pc[r] = "charged" /\ pc'[r] = "created"
    BY DEF CreateSubmit, Move, TypeInv, TypeOK, ApiTypeOK
  <2> QED
    BY <2>1, <2>2 DEF Safe
<1>2. ASSUME NEW m \in OnWay, m.req = r
      PROVE  Safe(r)'
  BY <1>2, ResponseKept DEF Kept, Safe
<1>3. CASE pc[r] = "failed"
  BY <1>3, FailedStays DEF Safe
<1>4. CASE Lost(r)
  BY <1>4, HistoryGrows DEF Lost, Safe
<1> QED
  BY <1>1, <1>2, <1>3, <1>4 DEF Safe

\* What becomes of a thread that has a row and has not published its task.
LEMMA StillToPublish ==
  ASSUME TypeInv, TaskInv, [Next]_vars, NEW r \in Requests, pc[r] \in {"created", "consuming"}
  PROVE  Safe(r)' \/ pc'[r] \in {"created", "consuming"} \/ r \in Tasks'
<1> USE DEF TypeInv, TypeOK, ApiTypeOK
<1>1. CASE PublishTask(r) /\ UNCHANGED judgerVars
  <2>1. declared => r \in Tasks'
    BY <1>1, PublishAdds
  <2>2. ~declared => <<r, "unroutable">> \in lost'
    BY <1>1 DEF PublishTask, Lose
  <2> QED
    BY <2>1, <2>2 DEF Safe, Lost, Causes
<1>2. ASSUME NEW q \in Requests, q # r,
             \/ Reject(q) \/ LoadUser(q) \/ SaveCharge(q) \/ CreateSubmit(q) \/ Connect(q)
             \/ PriorityOverflow(q)
             \/ PublishTask(q) \/ Poll(q) \/ DropForeign(q) \/ StoreVerdict(q) \/ LoadOwner(q)
             \/ SaveReward(q) \/ KeepWaiting(q) \/ Close(q) \/ Fail(q) \/ DropConnection(q)
      PROVE  pc'[r] = pc[r]
  BY <1>2 DEF Reject, LoadUser, SaveCharge, CreateSubmit, Connect, PriorityOverflow,
    PublishTask, Poll, DropForeign,
    StoreVerdict, LoadOwner, SaveReward, KeepWaiting, Close, Fail, DropConnection, Move
<1>3. ASSUME \/ Reject(r) \/ LoadUser(r) \/ SaveCharge(r) \/ CreateSubmit(r) \/ Connect(r)
             \/ PriorityOverflow(r)
             \/ Poll(r) \/ DropForeign(r) \/ StoreVerdict(r) \/ LoadOwner(r) \/ SaveReward(r)
             \/ KeepWaiting(r) \/ Close(r) \/ Fail(r) \/ DropConnection(r)
      PROVE  pc'[r] \in {"consuming", "failed"}
  BY <1>3 DEF Reject, LoadUser, SaveCharge, CreateSubmit, Connect, PriorityOverflow, Poll,
    DropForeign,
    StoreVerdict, LoadOwner, SaveReward, KeepWaiting, Close, Fail, DropConnection, Move
<1>4. CASE ApiCrash
  BY <1>4 DEF ApiCrash, Final, Safe
<1>5. ASSUME NEW u \in Users, EditLoad(u) \/ EditSave(u)
                              \/ \E p \in Assigned : AssignPriority(u, p)
      PROVE  pc' = pc
  BY <1>5 DEF EditLoad, EditSave, AssignPriority
<1> QED
  BY <1>1, <1>2, <1>3, <1>4, <1>5
     DEF Safe, Next, ApiNext, View, Client, Callback, apiVars, vars

\* A task goes away by an acknowledgement only.
LEMMA TaskStays ==
  ASSUME TypeInv, TaskInv, [Next]_vars, NEW r \in Tasks, r \notin Tasks'
  PROVE  \E j \in Judgers : jstate[j] = "answered" /\ r \in Range(current[j])
<1>1. CASE ApiNext /\ UNCHANGED judgerVars
  <2>1. ASSUME NEW q \in Requests, PublishTask(q)
        PROVE  FALSE
    BY <1>1, <2>1, PublishAdds
  <2>2. taskq' = taskq /\ \A q \in Requests : pc[q] \notin Before => pc'[q] \notin Before
    BY <1>1, <2>1, ApiLeavesTasks
  <2> QED
    BY <1>1, <2>2, TaskFrame DEF judgerVars
<1>2. ASSUME NEW j \in Judgers, UNCHANGED apiVars, OwnStep(j)
      PROVE  jstate[j] = "answered" /\ r \in Range(current[j])
  <2>1. pc' = pc
    BY <1>2 DEF apiVars
  <2>2. Tasks' = Tasks \/ (Ack(j) /\ Tasks \subseteq Tasks' \cup Range(current[j]))
    BY <1>2, <2>1, JudgerMoves, AckDrops, TasksMove DEF OwnStep, JudgerStep
  <2> QED
    BY <2>2 DEF Ack
<1>3. CASE UNCHANGED <<taskq, apiVars, judgerVars>>
  BY <1>3, TaskFrame DEF apiVars, judgerVars
<1>4. ASSUME NEW j \in Judgers, UNCHANGED apiVars, OutdatedStep(j)
      PROVE  FALSE
  BY <1>4, OutdatedFrame, TaskFrame DEF apiVars
<1> QED
  BY <1>1, <1>2, <1>3, <1>4 DEF Next, JudgerNext, OwnStep, OutdatedStep, Push, vars, brokerVars

\* A judger that has answered had the task at hand before, and answered it with the very
\* step that made it safe.
LEMMA AnsweredIsSafe ==
  ASSUME TypeInv, TaskInv, GoneInv, SafeInv, [Next]_vars,
         NEW j \in Judgers, jstate'[j] = "answered", NEW r \in Range(current'[j])
  PROVE  Safe(r)'
<1>1. \A i \in Judgers : Range(current[i]) \subseteq Requests /\ Range(current[i]) \subseteq Tasks
  BY OfJudger, RangeOfSeq DEF Mine, Tasks
<1>2. CASE jstate[j] = "answered" /\ current'[j] = current[j]
  <2>1. r \in Requests /\ r \in Tasks /\ Safe(r)
    BY <1>1, <1>2 DEF SafeInv
  <2>2. pc[r] # "charged"
    BY <2>1 DEF TaskInv, Before
  <2> QED
    BY <2>1, <2>2, SafeKept DEF SafeInv
<1>3. ASSUME NEW v \in Outcomes, Answer(j, v), UNCHANGED apiVars
      PROVE  Safe(r)'
  <2> DEFINE m == [req |-> Head(current[j]), verdict |-> v]
  <2>1. current[j] \in Seq(Requests) /\ current[j] # <<>> /\ current' = current
    BY <1>3 DEF Answer, TypeInv, JudgingHolds, TypeOK, JudgerTypeOK
  <2>2. r = Head(current[j]) /\ r \in Requests
    BY <2>1, <1>1, FirstAndRest DEF GoneInv
  <2>3. m \in Response
    BY <2>2, JudgerAssumption DEF Response
  <2>4. respq' = Append(respq, m) /\ respq \in Seq(Response)
    BY <1>3 DEF Answer, Respond, TypeInv, TypeOK, BrokerTypeOK
  <2>5. m \in Range(respq')
    BY <2>3, <2>4, OneMore
  <2>6. m \in OnWay' /\ m.req = r
    BY <2>2, <2>5 DEF OnWay
  <2> QED
    BY <2>6 DEF Safe
<1>4. CASE UNCHANGED judgerVars
  BY <1>2, <1>4 DEF judgerVars
<1>5. ASSUME NEW i \in Judgers, UNCHANGED apiVars, OwnStep(i)
      PROVE  Safe(r)'
  <2>1. CASE i # j
    <3>1. Moves(i, {}) \/ Moves(i, Range(current[i]))
      BY <1>5, JudgerMoves, AckDrops DEF OwnStep, JudgerStep
    <3>2. jstate'[j] = jstate[j] /\ current'[j] = current[j]
      BY <2>1, <3>1 DEF Moves
    <3> QED
      BY <1>2, <3>2
  <2>2. CASE i = j /\ \E v \in Outcomes : Answer(j, v)
    BY <1>3, <1>5, <2>2
  <2>3. CASE i = j /\ (StartJudger(j) \/ Deliver(j) \/ Begin(j) \/ Refuse(j) \/ Ack(j)
                       \/ Raise(j) \/ CrashJudger(j) \/ LoseConnection(j))
    <3>1. jstate[j] = "answered" /\ current'[j] = current[j]
      BY <2>3 DEF StartJudger, Deliver, Begin, Refuse, Ack, Raise, CrashJudger, LoseConnection,
        GoDown, TypeInv, TypeOK, JudgerTypeOK
    <3> QED
      BY <1>2, <3>1
  <2> QED
    BY <1>5, <2>1, <2>2, <2>3 DEF OwnStep, JudgerStep
<1>6. ASSUME NEW i \in Judgers, OutdatedStep(i)
      PROVE  Safe(r)'
  BY <1>2, <1>6, OutdatedFrame
<1> QED
  BY <1>4, <1>5, <1>6 DEF Next, JudgerNext, OwnStep, OutdatedStep, vars

LEMMA SafeStep ==
  ASSUME TypeInv, TaskInv, GoneInv, SafeInv, [Next]_vars
  PROVE  SafeInv'
<1>1. Drained'
  BY DrainedStep DEF SafeInv
<1>2. ASSUME NEW r \in Requests
      PROVE  Safe(r)' \/ pc'[r] \in {"created", "consuming"} \/ r \in Tasks'
  <2>1. CASE Safe(r)
    BY <2>1, SafeKept DEF SafeInv
  <2>2. CASE pc[r] \in {"created", "consuming"}
    BY <2>2, StillToPublish
  <2>3. CASE r \in Tasks /\ r \notin Tasks'
    <3>1. Safe(r)
      BY <2>3, TaskStays DEF SafeInv
    <3> QED
      BY <2>1, <3>1
  <2> QED
    BY <2>1, <2>2, <2>3 DEF SafeInv
<1> QED
  BY <1>1, <1>2, AnsweredIsSafe DEF SafeInv

LEMMA SafeHolds == Spec => []SafeInv
<1>1. Init => SafeInv
  BY DEF Init, ApiInit, JudgerInit, SafeInv, Safe, Drained, Dispatching
<1>2. TypeInv /\ TaskInv /\ GoneInv /\ SafeInv /\ [Next]_vars => SafeInv'
  BY SafeStep
<1> QED
  BY <1>1, <1>2, TypeCorrect, TaskHolds, GoneHolds, PTL DEF Spec

\* No submission stays 'Q' with nothing under way for it, unless its view or thread failed or
\* one of the known leaks took its task or its answer (judger.rb:109, 198-201, mq.py:23-68).
THEOREM NoSilentLossHolds == Spec => []NoSilentLoss
<1>1. TypeInv /\ TaskInv /\ SafeInv => NoSilentLoss
  <2> SUFFICES ASSUME TypeInv, TaskInv, SafeInv, NEW r \in Requests, result[r] = "Q"
               PROVE  InPipeline(r) \/ pc[r] = "failed" \/ \E c \in Causes : <<r, c>> \in lost
    BY DEF NoSilentLoss
  <2>1. Tasks = Range(taskq) \cup Held
    BY UnackedOnce DEF Tasks, Held
  <2>2. (\E m \in OnWay : m.req = r) => r \in Returning
    BY OnWayIsReturning
  <2> QED
    BY <2>1, <2>2 DEF SafeInv, Safe, Lost, InPipeline
<1> QED
  BY <1>1, TypeCorrect, TaskHolds, SafeHolds, PTL

\* The submissions that have a row.
Opened == {r \in Requests : result[r] # "none"}

RowInv ==
  /\ taskq \in Seq(Opened)
  /\ buffer \in [Judgers -> Seq(Opened)]
  /\ current \in [Judgers -> Seq(Opened)]
  /\ parked \in [Judgers -> Seq(Opened)]
  /\ outdated \in [Judgers -> Seq(Opened)]
  /\ \A r \in Requests : pc[r] \in {"created"} \cup Connected => r \in Opened
  /\ \A r \in Requests : pc[r] \in {"idle", "loaded", "charged"} => r \notin Opened

\* Tasks stay tasks of opened rows while no row goes away.
LEMMA TasksFrame ==
  ASSUME RowInv, UNCHANGED <<taskq, buffer, current, parked, outdated>>,
  Opened \subseteq Opened'
  PROVE  /\ taskq' \in Seq(Opened')
         /\ buffer' \in [Judgers -> Seq(Opened')]
         /\ current' \in [Judgers -> Seq(Opened')]
         /\ parked' \in [Judgers -> Seq(Opened')]
         /\ outdated' \in [Judgers -> Seq(Opened')]
<1>1. \A s \in Seq(Opened) : s \in Seq(Opened')
  BY SeqMonotonic
<1> QED
  BY <1>1 DEF RowInv

LEMMA RowApiStep ==
  ASSUME TypeInv, RowInv, ApiNext, UNCHANGED judgerVars
  PROVE  RowInv'
<1> USE DEF TypeInv, TypeOK
<1>1. ASSUME NEW r \in Requests, CreateSubmit(r)
      PROVE  RowInv'
  <2>1. Opened' = Opened \cup {r}
    BY <1>1 DEF CreateSubmit, Opened, ApiTypeOK
  <2>2. /\ taskq' \in Seq(Opened')
        /\ buffer' \in [Judgers -> Seq(Opened')]
        /\ current' \in [Judgers -> Seq(Opened')]
        /\ parked' \in [Judgers -> Seq(Opened')]
        /\ outdated' \in [Judgers -> Seq(Opened')]
    BY <1>1, <2>1, TasksFrame DEF CreateSubmit, brokerVars, judgerVars
  <2>3. pc' = [pc EXCEPT ![r] = "created"]
    BY <1>1 DEF CreateSubmit, Move
  <2> QED
    BY <2>1, <2>2, <2>3 DEF RowInv, Connected, ApiTypeOK
<1>2. ASSUME NEW r \in Requests, PublishTask(r)
      PROVE  RowInv'
  <2>1. Opened' = Opened /\ r \in Opened
    BY <1>2 DEF PublishTask, Move, Opened, RowInv, Connected
  <2>2. taskq' \in Seq(Opened')
    BY <1>2, <2>1, AppendProperties DEF PublishTask, Enqueue, RowInv
  <2>3. pc' = [pc EXCEPT ![r] = "waiting"]
    BY <1>2 DEF PublishTask, Move
  <2> QED
    BY <2>1, <2>2, <2>3 DEF RowInv, Connected, ApiTypeOK, judgerVars
<1>3. ASSUME taskq' = taskq, Opened' = Opened,
             \A r \in Requests :
               \/ pc'[r] = pc[r] \/ pc'[r] \in Final
               \/ pc[r] = "idle" /\ pc'[r] = "loaded"
               \/ pc[r] = "loaded" /\ pc'[r] = "charged"
               \/ pc[r] \in {"created"} \cup Connected /\ pc'[r] \in Connected
      PROVE  RowInv'
  BY <1>3 DEF RowInv, Connected, Final, judgerVars
<1>4. ASSUME NEW r \in Requests,
             \/ Reject(r) \/ LoadUser(r) \/ SaveCharge(r) \/ Connect(r)
             \/ PriorityOverflow(r) \/ Poll(r)
             \/ DropForeign(r) \/ LoadOwner(r) \/ SaveReward(r) \/ KeepWaiting(r) \/ Close(r)
             \/ Fail(r) \/ DropConnection(r)
      PROVE  RowInv'
  <2>1. taskq' = taskq /\ result' = result
    BY <1>4 DEF Reject, LoadUser, SaveCharge, Connect, PriorityOverflow, Poll, DropForeign,
      LoadOwner, SaveReward,
      KeepWaiting, Close, Disconnect, Fail, DropConnection, brokerVars
  <2>2. \A q \in Requests : q # r => pc'[q] = pc[q]
    BY <1>4 DEF Reject, LoadUser, SaveCharge, Connect, PriorityOverflow, Poll, DropForeign,
      LoadOwner, SaveReward,
      KeepWaiting, Close, Fail, DropConnection, Move, ApiTypeOK
  <2>3. \/ pc'[r] = pc[r] \/ pc'[r] \in Final
        \/ pc[r] = "idle" /\ pc'[r] = "loaded"
        \/ pc[r] = "loaded" /\ pc'[r] = "charged"
        \/ pc[r] \in {"created"} \cup Connected /\ pc'[r] \in Connected
    BY <1>4 DEF Reject, LoadUser, SaveCharge, Connect, PriorityOverflow, Poll, DropForeign,
      LoadOwner, SaveReward,
      KeepWaiting, Close, Fail, DropConnection, Move, ApiTypeOK, Final, Connected
  <2> QED
    BY <1>3, <2>1, <2>2, <2>3 DEF Opened
<1>5. ASSUME NEW r \in Requests, StoreVerdict(r)
      PROVE  RowInv'
  <2>1. result' = [result EXCEPT ![r] = Head(batch[r]).verdict]
    BY <1>5 DEF StoreVerdict
  <2>2. Head(batch[r]).verdict # "none"
    BY <1>5, HeadType DEF StoreVerdict, Verdicts
  <2>3. pc[r] = "dispatching" /\ pc' = [pc EXCEPT ![r] = "stored"]
    BY <1>5 DEF StoreVerdict, Move
  <2>4. r \in Opened
    BY <2>3 DEF RowInv, Connected
  <2>5. Opened' = Opened
    BY <2>1, <2>2, <2>4 DEF Opened, ApiTypeOK
  <2>6. taskq' = taskq
    BY <1>5 DEF StoreVerdict, brokerVars
  <2> QED
    BY <1>3, <2>3, <2>5, <2>6 DEF ApiTypeOK, Connected
<1>6. ASSUME NEW u \in Users, EditLoad(u) \/ EditSave(u)
                              \/ \E p \in Assigned : AssignPriority(u, p)
      PROVE  RowInv'
  BY <1>3, <1>6 DEF EditLoad, EditSave, AssignPriority, brokerVars, Opened
<1>7. CASE ApiCrash
  BY <1>3, <1>7 DEF ApiCrash, Opened, Final
<1> QED
  BY <1>1, <1>2, <1>4, <1>5, <1>6, <1>7 DEF ApiNext, View, Client, Callback

LEMMA RowJudgerStep ==
  ASSUME TypeInv, RowInv, JudgerNext, UNCHANGED apiVars
  PROVE  RowInv'
<1>1. Opened' = Opened
  BY DEF apiVars, Opened
<1>2. ASSUME NEW j \in Judgers, StartJudger(j) \/ Ack(j)
      PROVE  RowInv'
  <2>1. UNCHANGED <<taskq, buffer, parked, outdated>>
    BY <1>2 DEF StartJudger, Ack, brokerVars
  <2>2. current' \in [Judgers -> Seq(Opened)]
    BY <1>2, EmptySeq, ZenonT(60) DEF StartJudger, Ack, RowInv
  <2> QED
    BY <1>1, <2>1, <2>2 DEF RowInv, apiVars
<1>3. ASSUME NEW j \in Judgers, Deliver(j)
      PROVE  RowInv'
  BY <1>1, <1>3, HeadTailProperties, AppendProperties DEF Deliver, RowInv, apiVars
<1>4. ASSUME NEW j \in Judgers, Begin(j)
      PROVE  RowInv'
  BY <1>1, <1>4, HeadTailProperties DEF Begin, brokerVars, RowInv, apiVars
<1>5. ASSUME NEW j \in Judgers, Refuse(j)
      PROVE  RowInv'
  BY <1>1, <1>5, HeadTailProperties, AppendProperties DEF Refuse, brokerVars, RowInv, apiVars
<1>6. ASSUME NEW j \in Judgers, NEW v \in Outcomes, Answer(j, v)
      PROVE  RowInv'
  BY <1>1, <1>6 DEF Answer, RowInv, apiVars
<1>7. ASSUME NEW j \in Judgers, Raise(j)
      PROVE  RowInv'
  BY <1>1, <1>7, ConcatProperties, EmptySeq DEF Raise, RowInv, apiVars
<1>8. ASSUME NEW j \in Judgers, CrashJudger(j)
      PROVE  RowInv'
  <2>1. Unacked(j) \in Seq(Opened)
    BY ConcatProperties DEF Unacked, RowInv
  <2>2. taskq' \in Seq(Opened)
    BY <1>8, <2>1, ConcatProperties DEF CrashJudger, RowInv
  <2> QED
    BY <1>1, <1>8, <2>2, EmptySeq DEF CrashJudger, GoDown, RowInv, apiVars
<1>9. ASSUME NEW j \in Judgers, LoseConnection(j)
      PROVE  RowInv'
  <2> DEFINE at == IF jstate[j] = "judging" THEN current[j] ELSE <<>>
  <2>1. /\ Unacked(j) \in Seq(Opened) /\ at \in Seq(Opened)
        /\ outdated[j] \in Seq(Opened) /\ buffer[j] \in Seq(Opened)
    BY ConcatProperties, EmptySeq DEF Unacked, RowInv
  <2>2. taskq' \in Seq(Opened)
    BY <1>9, <2>1, ConcatProperties DEF LoseConnection, RowInv
  <2>3. outdated' = [outdated EXCEPT ![j] = @ \o at \o buffer[j]]
    BY <1>9 DEF LoseConnection
  <2> HIDE DEF at
  <2>4. outdated' \in [Judgers -> Seq(Opened)]
    BY <2>1, <2>3, ConcatProperties DEF RowInv
  <2> QED
    BY <1>1, <1>9, <2>2, <2>4, EmptySeq DEF LoseConnection, RowInv, apiVars
<1>10. ASSUME NEW j \in Judgers, OutdatedStep(j)
       PROVE  RowInv'
  <2>1. UNCHANGED <<taskq, buffer, current, parked>>
    BY <1>10, OutdatedFrame
  <2>2. outdated' = [outdated EXCEPT ![j] = Tail(@)] /\ outdated[j] # <<>>
    BY <1>10 DEF OutdatedStep, AnswerOutdated, DropOutdated
  <2>3. outdated' \in [Judgers -> Seq(Opened)]
    BY <2>2, HeadTailProperties DEF RowInv
  <2> QED
    BY <1>1, <2>1, <2>3 DEF RowInv, apiVars
<1> QED
  BY <1>2, <1>3, <1>4, <1>5, <1>6, <1>7, <1>8, <1>9, <1>10 DEF JudgerNext, JudgerStep,
    OutdatedStep

LEMMA RowHolds == Spec => []RowInv
<1>1. Init => RowInv
  BY EmptySeq DEF Init, BrokerInit, ApiInit, JudgerInit, RowInv, Opened, Connected
<1>2. TypeInv /\ RowInv /\ [Next]_vars => RowInv'
  <2> SUFFICES ASSUME TypeInv, RowInv, [Next]_vars PROVE RowInv'
    OBVIOUS
  <2>1. CASE UNCHANGED <<taskq, apiVars, judgerVars>>
    BY <2>1 DEF RowInv, Opened, apiVars, judgerVars
  <2> QED
    BY <2>1, RowApiStep, RowJudgerStep DEF Next, Push, vars, brokerVars
<1> QED
  BY <1>1, <1>2, TypeCorrect, PTL DEF Spec

\* The answers of SubmitService are the responses of Koj.
LEMMA AnswerIsResponse == Service!Answer = Response
BY DEF Service!Answer, Response, Service!Verdicts, Verdicts

\* A step of the API opens a row, records a published answer, or is not seen.
LEMMA ApiSimulates ==
  ASSUME TypeInv, ProvInv, RowInv, ApiNext, UNCHANGED judgerVars
  PROVE  [Service!Next]_Service!serviceVars
<1> USE DEF TypeInv, TypeOK
<1>1. ASSUME NEW r \in Requests, CreateSubmit(r)
      PROVE  Service!Open(r)
  <2>1. result[r] = "none"
    BY <1>1 DEF CreateSubmit, Move, RowInv, Opened
  <2> QED
    BY <1>1, <2>1 DEF CreateSubmit, brokerVars, Service!Open
<1>2. ASSUME NEW r \in Requests, StoreVerdict(r)
      PROVE  \E a \in Service!Answer : Service!Record(a)
  <2>1. Head(batch[r]) \in published
    BY <1>2, HeadTailProperties DEF StoreVerdict, ProvInv
  <2>2. Head(batch[r]) \in Service!Answer
    BY <2>1, AnswerIsResponse DEF BrokerTypeOK
  <2>3. Head(batch[r]).req = r /\ published' = published
    BY <1>2 DEF StoreVerdict, brokerVars
  <2>4. Service!Record(Head(batch[r]))
    BY <1>2, <2>1, <2>3 DEF StoreVerdict, Service!Record
  <2> QED
    BY <2>2, <2>4
<1>3. ASSUME \A r \in Requests : ~CreateSubmit(r) /\ ~StoreVerdict(r)
      PROVE  UNCHANGED <<result, published>>
  BY <1>3 DEF ApiNext, View, Client, Callback, Reject, LoadUser, SaveCharge, Connect,
    PriorityOverflow,
    PublishTask, Poll, DropForeign, LoadOwner, SaveReward, KeepWaiting, Close, Disconnect,
    Fail, DropConnection, EditLoad, EditSave, AssignPriority, ApiCrash, brokerVars
<1> QED
  BY <1>1, <1>2, <1>3 DEF Service!Next, Service!serviceVars

\* A step of a judger gives an answer for an opened row, or is not seen.
LEMMA JudgerSimulates ==
  ASSUME TypeInv, RowInv, JudgerNext, UNCHANGED apiVars
  PROVE  [Service!Next]_Service!serviceVars
<1>1. result' = result
  BY DEF apiVars
<1>2. ASSUME NEW j \in Judgers, NEW v \in Outcomes, Answer(j, v)
      PROVE  \E a \in Service!Answer : Service!Judge(a)
  <2> DEFINE a == [req |-> Head(current[j]), verdict |-> v]
  <2>1. current[j] \in Seq(Opened) /\ current[j] # <<>>
    BY <1>2 DEF Answer, RowInv, TypeInv, JudgingHolds
  <2>2. Head(current[j]) \in Opened
    BY <2>1, HeadTailProperties
  <2>3. a \in Service!Answer
    BY <2>2, JudgerAssumption, AnswerIsResponse DEF Opened, Response
  <2>4. Service!Judge(a)
    BY <1>1, <1>2, <2>2 DEF Answer, Respond, Opened, Service!Judge
  <2> QED
    BY <2>3, <2>4
<1>3. ASSUME NEW j \in Judgers, NEW v \in Outcomes, AnswerOutdated(j, v)
      PROVE  \E a \in Service!Answer : Service!Judge(a)
  <2> DEFINE a == [req |-> Head(outdated[j]), verdict |-> v]
  <2>1. Head(outdated[j]) \in Opened
    BY <1>3, HeadTailProperties DEF AnswerOutdated, RowInv
  <2>2. a \in Service!Answer
    BY <2>1, JudgerAssumption, AnswerIsResponse DEF Opened, Response
  <2>3. Service!Judge(a)
    BY <1>1, <1>3, <2>1 DEF AnswerOutdated, Respond, Opened, Service!Judge
  <2> QED
    BY <2>2, <2>3
<1>4. ASSUME \A j \in Judgers, v \in Outcomes : ~Answer(j, v) /\ ~AnswerOutdated(j, v)
      PROVE  published' = published
  BY <1>4 DEF JudgerNext, JudgerStep, StartJudger, Deliver, Begin, Refuse, Ack, Raise,
    CrashJudger, LoseConnection, DropOutdated, brokerVars
<1> QED
  BY <1>1, <1>2, <1>3, <1>4 DEF Service!Next, Service!serviceVars

\* Koj implements SubmitService: whatever is interleaved, lost, repeated or crashes,
\* a row is opened once, never closed, and takes only answers that were given for it
\* while it was open (views.py:77, mq.py:26-38, judger.rb:198-200).
THEOREM Implements == Spec => ImplementsService
<1>1. Init => Service!Init
  BY DEF Init, ApiInit, BrokerInit, Service!Init
<1>2. TypeInv /\ ProvInv /\ RowInv /\ [Next]_vars => [Service!Next]_Service!serviceVars
  <2>1. UNCHANGED vars \/ Push => UNCHANGED <<published>>
    BY DEF vars, brokerVars, Push
  <2>2. UNCHANGED vars => UNCHANGED <<result>>
    BY DEF vars, apiVars
  <2>3. UNCHANGED apiVars => UNCHANGED <<result>>
    BY DEF apiVars
  <2> QED
    BY <2>1, <2>2, <2>3, ApiSimulates, JudgerSimulates DEF Next, Service!serviceVars
<1> QED
  BY <1>1, <1>2, TypeCorrect, ProvHolds, RowHolds, PTL DEF Spec, Service!Spec, ImplementsService
------------------------ (* applied once *) --------------------------------
\* The responses to r in a sequence: at most one.
OnceFor(s, r) == \A i, k \in 1..Len(s) : s[i].req = r /\ s[k].req = r => i = k

\* At most one response to r is between a judger and a callback; none is.
Alone(r) ==
  /\ OnceFor(respq, r)
  /\ \A q \in Requests : OnceFor(inbox[q], r) /\ OnceFor(batch[q], r)
  /\ r \in Answered(respq) =>
       \A q \in Requests : r \notin Answered(inbox[q]) /\ r \notin Answered(batch[q])
  /\ \A p, q \in Requests : ~(r \in Answered(inbox[p]) /\ r \in Answered(batch[q]))
  /\ \A p, q \in Requests : r \in Answered(inbox[p]) /\ r \in Answered(inbox[q]) => p = q
  /\ \A p, q \in Requests : r \in Answered(batch[p]) /\ r \in Answered(batch[q]) => p = q

Nowhere(r) ==
  /\ r \notin Answered(respq)
  /\ \A q \in Requests : r \notin Answered(inbox[q]) /\ r \notin Answered(batch[q])

\* A judger has answered r and not acknowledged it.
ToAck(r) == \E j \in Judgers : jstate[j] = "answered" /\ r \in Range(current[j])

\* A submission whose task was never queued again when an answer was or might still be
\* given to it: it has one answer at most, which is nowhere before it is given and after it
\* is stored.
OnceInv ==
  \A r \in Requests \ redelivered :
    /\ Alone(r)
    /\ ~Told(r) => Nowhere(r)
    /\ result[r] \in Verdicts => Nowhere(r)
    /\ pc[r] \in Before => ~Told(r)
    /\ r \in Tasks /\ Told(r) => ToAck(r)

\* The judger gives an answer to r.
Answering(r) ==
  \E j \in Judgers, v \in Outcomes : Answer(j, v) /\ UNCHANGED apiVars /\ Head(current[j]) = r

\* What a judger answers for a lost connection was queued again when that went.
OutdatedInv == \A j \in Judgers : Range(outdated[j]) \subseteq redelivered

LEMMA RedeliveredGrows ==
  ASSUME [Next]_vars
  PROVE  redelivered \subseteq redelivered'
BY DEF Next, JudgerNext, JudgerStep, StartJudger, Deliver, Begin, Refuse, Answer, Ack, Raise,
  CrashJudger, GoDown, LoseConnection, AnswerOutdated, DropOutdated, judgerVars, vars

LEMMA OutdatedHolds == Spec => []OutdatedInv
<1>1. Init => OutdatedInv
  BY NoneAndOne DEF Init, JudgerInit, OutdatedInv
<1>2. ASSUME TypeInv, OutdatedInv, [Next]_vars
      PROVE  OutdatedInv'
  <2> USE DEF TypeInv, TypeOK, JudgerTypeOK
  <2>a. redelivered \subseteq redelivered'
    BY <1>2, RedeliveredGrows
  <2>1. CASE outdated' = outdated
    BY <1>2, <2>a, <2>1 DEF OutdatedInv
  <2>2. ASSUME NEW j \in Judgers, CrashJudger(j)
        PROVE  OutdatedInv'
    BY <1>2, <2>a, <2>2, NoneAndOne DEF CrashJudger, GoDown, OutdatedInv
  <2>3. ASSUME NEW j \in Judgers, LoseConnection(j)
        PROVE  OutdatedInv'
    <3> DEFINE at == IF jstate[j] = "judging" THEN current[j] ELSE <<>>
    <3>1. /\ at \in Seq(Requests) /\ Range(at) \subseteq Range(current[j])
          /\ outdated[j] \in Seq(Requests) /\ buffer[j] \in Seq(Requests)
      BY <1>2, EmptySeq, NoneAndOne
    <3>2. /\ outdated' = [outdated EXCEPT ![j] = @ \o at \o buffer[j]]
          /\ redelivered' = redelivered \cup Range(current[j]) \cup Range(buffer[j])
      BY <2>3 DEF LoseConnection
    <3> HIDE DEF at
    <3>3. /\ outdated[j] \o at \in Seq(Requests)
          /\ Range(outdated[j] \o at) = Range(outdated[j]) \cup Range(at)
      BY <3>1, OneAfterOther
    <3>4. Range(outdated[j] \o at \o buffer[j])
            = Range(outdated[j]) \cup Range(at) \cup Range(buffer[j])
      <4> DEFINE s == outdated[j] \o at
      <4>1. s \in Seq(Requests)
        BY <3>3
      <4> HIDE DEF s
      <4>2. Range(s \o buffer[j]) = Range(s) \cup Range(buffer[j])
        BY <3>1, <4>1, OneAfterOther
      <4> QED
        BY <3>3, <4>2 DEF s
    <3>5. Range(outdated'[j]) \subseteq redelivered'
      <4>1. outdated'[j] = outdated[j] \o at \o buffer[j]
        BY <1>2, <3>2
      <4> QED
        BY <1>2, <3>1, <3>2, <3>4, <4>1 DEF OutdatedInv
    <3>6. \A i \in Judgers \ {j} : outdated'[i] = outdated[i]
      BY <3>2
    <3> QED
      BY <1>2, <2>a, <3>5, <3>6 DEF OutdatedInv
  <2>4. ASSUME NEW j \in Judgers, OutdatedStep(j)
        PROVE  OutdatedInv'
    <3>1. outdated' = [outdated EXCEPT ![j] = Tail(@)] /\ outdated[j] # <<>>
      BY <2>4 DEF OutdatedStep, AnswerOutdated, DropOutdated
    <3>2. Range(outdated'[j]) \subseteq Range(outdated[j])
      BY <1>2, <3>1, FirstAndRest
    <3>3. \A i \in Judgers \ {j} : outdated'[i] = outdated[i]
      BY <3>1
    <3> QED
      BY <1>2, <2>a, <3>2, <3>3 DEF OutdatedInv
  <2> QED
    BY <1>2, <2>1, <2>2, <2>3, <2>4
       DEF Next, JudgerNext, JudgerStep, StartJudger, Deliver, Begin, Refuse, Answer, Ack,
       Raise,
         OutdatedStep, judgerVars, vars
<1> QED
  BY <1>1, <1>2, TypeCorrect, PTL DEF Spec

\* Such an answer is to a task that has been queued again.
LEMMA OutdatedIsOld ==
  ASSUME TypeInv, OutdatedInv, NEW j \in Judgers, NEW v \in Outcomes, AnswerOutdated(j, v)
  PROVE  Head(outdated[j]) \in redelivered
<1>1. outdated[j] \in Seq(Requests) /\ outdated[j] # <<>>
  BY DEF AnswerOutdated, TypeInv, TypeOK, JudgerTypeOK
<1>2. Head(outdated[j]) \in Range(outdated[j])
  BY <1>1, FirstAndRest
<1> QED
  BY <1>2 DEF OutdatedInv

LEMMA NoneFor == Answered(<<>>) = {} /\ \A r : OnceFor(<<>>, r)
BY DEF Answered, OnceFor

LEMMA FirstFor ==
  ASSUME NEW s \in Seq(Response), s # <<>>, NEW r, OnceFor(s, r)
  PROVE  /\ OnceFor(Tail(s), r)
         /\ Head(s).req = r => r \notin Answered(Tail(s))
         /\ Answered(Tail(s)) \subseteq Answered(s) /\ Head(s).req \in Answered(s)
<1>1. /\ Tail(s) \in Seq(Response) /\ Len(Tail(s)) = Len(s) - 1
      /\ \A i \in 1..Len(Tail(s)) : Tail(s)[i] = s[i + 1]
  BY HeadTailProperties
<1>2. Len(s) \in Nat \ {0} /\ Head(s) = s[1]
  BY EmptySeq
<1> DEFINE t == Tail(s)
<1>3. Answered(s) = {s[i].req : i \in 1..Len(s)} /\ Answered(t) = {t[i].req : i \in 1..Len(t)}
  BY <1>1, LenProperties DEF Answered
<1> HIDE DEF t
<1>4. ASSUME NEW i \in 1..Len(t)
      PROVE  i + 1 \in 1..Len(s) /\ t[i] = s[i + 1] /\ i + 1 # 1
  BY <1>1, <1>2 DEF t
<1>5. 1 \in 1..Len(s)
  BY <1>2
<1>6. OnceFor(t, r)
  <2>1. ASSUME NEW i \in 1..Len(t), NEW k \in 1..Len(t), t[i].req = r, t[k].req = r
        PROVE  i = k
    <3>1. i + 1 = k + 1
      BY <1>4, <2>1 DEF OnceFor
    <3> QED
      BY <3>1
  <2> QED
    BY <2>1 DEF OnceFor
<1>7. s[1].req = r => r \notin Answered(t)
  BY <1>3, <1>4, <1>5 DEF OnceFor
<1>8. Answered(t) \subseteq Answered(s) /\ s[1].req \in Answered(s)
  BY <1>3, <1>4, <1>5
<1> QED
  BY <1>2, <1>6, <1>7, <1>8 DEF t

LEMMA OneMoreFor ==
  ASSUME NEW s \in Seq(Response), NEW m \in Response, NEW r, OnceFor(s, r),
         m.req = r => r \notin Answered(s)
  PROVE  /\ OnceFor(Append(s, m), r)
         /\ Answered(Append(s, m)) = Answered(s) \cup {m.req}
<1> DEFINE t == Append(s, m)
<1>1. /\ t \in Seq(Response) /\ Len(t) = Len(s) + 1 /\ t[Len(s) + 1] = m
      /\ \A i \in 1..Len(s) : t[i] = s[i]
  BY AppendProperties
<1>2. Len(s) \in Nat
  BY LenProperties
<1> HIDE DEF t
<1>3. Answered(s) = {s[i].req : i \in 1..Len(s)} /\ Answered(t) = {t[i].req : i \in 1..Len(t)}
  BY <1>1, LenProperties DEF Answered
<1>4. \A i \in 1..Len(t) : i = Len(s) + 1 \/ i \in 1..Len(s)
  BY <1>1, <1>2
<1>5. Len(s) + 1 \in 1..Len(t) /\ 1..Len(s) \subseteq 1..Len(t)
  BY <1>1, <1>2
<1>6. Answered(t) = Answered(s) \cup {m.req}
  BY <1>1, <1>3, <1>4, <1>5
<1>7. OnceFor(t, r)
  BY <1>1, <1>3, <1>4 DEF OnceFor
<1> QED
  BY <1>6, <1>7 DEF t

\* Responses that only go away leave what is alone alone.
LEMMA AloneShrinks ==
  ASSUME NEW r, Alone(r), OnceFor(respq', r),
         r \in Answered(respq') => r \in Answered(respq),
         \A q \in Requests : /\ OnceFor(inbox'[q], r) /\ OnceFor(batch'[q], r)
                             /\ r \in Answered(inbox'[q]) => r \in Answered(inbox[q])
                             /\ r \in Answered(batch'[q]) => r \in Answered(batch[q])
  PROVE  Alone(r)' /\ (Nowhere(r) => Nowhere(r)')
<1>1. Alone(r)'
  BY DEF Alone
<1>2. Nowhere(r) => Nowhere(r)'
  BY DEF Nowhere
<1> QED
  BY <1>1, <1>2

LEMMA AloneStep ==
  ASSUME TypeInv, Drained, OutdatedInv, [Next]_vars,
         NEW r \in Requests, r \notin redelivered, Alone(r),
         Answering(r) => Nowhere(r)
  PROVE  Alone(r)' /\ (Nowhere(r) /\ ~Answering(r) => Nowhere(r)')
<1> USE DEF TypeInv, TypeOK, ApiTypeOK, BrokerTypeOK
<1> DEFINE Goal == Alone(r)' /\ (Nowhere(r) /\ ~Answering(r) => Nowhere(r)')
<1>a. /\ OnceFor(respq, r)
      /\ \A q \in Requests : OnceFor(inbox[q], r) /\ OnceFor(batch[q], r)
  BY DEF Alone
<1>0. CASE UNCHANGED <<respq, inbox, batch>>
  BY <1>0, <1>a, AloneShrinks
<1>1. ASSUME NEW p \in Requests, Poll(p)
      PROVE  Goal
  <2>1. batch[p] = <<>>
    BY <1>1 DEF Poll, Move, Drained, Dispatching
  <2>2. /\ respq' = respq /\ batch'[p] = inbox[p] /\ inbox'[p] = <<>>
        /\ \A q \in Requests \ {p} : inbox'[q] = inbox[q] /\ batch'[q] = batch[q]
    BY <1>1 DEF Poll
  <2>3. Answered(inbox'[p]) = {} /\ OnceFor(inbox'[p], r)
    BY <2>2, NoneFor
  <2>4. /\ \A q \in Requests : OnceFor(inbox'[q], r) /\ OnceFor(batch'[q], r)
        /\ \A q \in Requests \ {p} : /\ Answered(inbox'[q]) = Answered(inbox[q])
                                     /\ Answered(batch'[q]) = Answered(batch[q])
        /\ Answered(batch'[p]) = Answered(inbox[p]) /\ Answered(respq') = Answered(respq)
    BY <1>a, <2>2, <2>3
  <2>5. OnceFor(respq', r)
    BY <1>a, <2>2
  <2>6. Alone(r)'
    BY <2>3, <2>4, <2>5 DEF Alone
  <2>7. Nowhere(r) => Nowhere(r)'
    BY <2>3, <2>4 DEF Nowhere
  <2> QED
    BY <2>6, <2>7
<1>2. ASSUME NEW p \in Requests, DropForeign(p) \/ StoreVerdict(p)
      PROVE  Goal
  <2>1. /\ respq' = respq /\ inbox' = inbox /\ batch'[p] = Tail(batch[p]) /\ batch[p] # <<>>
        /\ \A q \in Requests \ {p} : batch'[q] = batch[q]
    BY <1>2 DEF DropForeign, StoreVerdict, brokerVars
  <2>2. OnceFor(batch'[p], r) /\ Answered(batch'[p]) \subseteq Answered(batch[p])
    BY <1>a, <2>1, FirstFor
  <2> QED
    BY <1>a, <2>1, <2>2, AloneShrinks
<1>3. ASSUME NEW p \in Requests, Close(p) \/ DropConnection(p)
      PROVE  Goal
  <2>1. /\ respq' = respq /\ batch' = batch /\ inbox'[p] = <<>>
        /\ \A q \in Requests \ {p} : inbox'[q] = inbox[q]
    BY <1>3 DEF Close, DropConnection, Disconnect
  <2>2. OnceFor(inbox'[p], r) /\ Answered(inbox'[p]) = {}
    BY <2>1, NoneFor
  <2> QED
    BY <1>a, <2>1, <2>2, AloneShrinks
<1>4. ASSUME NEW p \in Requests, Fail(p)
      PROVE  Goal
  <2>1. /\ respq' = respq /\ inbox' = inbox /\ batch'[p] = <<>>
        /\ \A q \in Requests \ {p} : batch'[q] = batch[q]
    BY <1>4 DEF Fail
  <2>2. OnceFor(batch'[p], r) /\ Answered(batch'[p]) = {}
    BY <2>1, NoneFor
  <2> QED
    BY <1>a, <2>1, <2>2, AloneShrinks
<1>5. CASE ApiCrash
  <2>1. respq' = respq /\ \A q \in Requests : inbox'[q] = <<>> /\ batch'[q] = <<>>
    BY <1>5 DEF ApiCrash
  <2>2. \A q \in Requests : /\ OnceFor(inbox'[q], r) /\ OnceFor(batch'[q], r)
                            /\ Answered(inbox'[q]) = {} /\ Answered(batch'[q]) = {}
    BY <2>1, NoneFor
  <2> QED
    BY <1>a, <2>1, <2>2, AloneShrinks
<1>6. CASE Push /\ UNCHANGED apiVars
  <2> DEFINE c == Head(consumers)  m == Head(respq)
  <2>1. /\ respq # <<>> /\ consumers # <<>> /\ respq' = Tail(respq) /\ batch' = batch
        /\ inbox' = [inbox EXCEPT ![c] = Append(@, m)]
    BY <1>6 DEF Push, apiVars
  <2>2. c \in Requests /\ m \in Response
    BY <2>1, FirstAndRest
  <2>3. /\ OnceFor(respq', r)
        /\ m.req = r => r \notin Answered(respq')
        /\ Answered(respq') \subseteq Answered(respq) /\ m.req \in Answered(respq)
    BY <1>a, <2>1, FirstFor
  <2>4. m.req = r => r \notin Answered(inbox[c])
    BY <2>2, <2>3 DEF Alone
  <2>5. inbox'[c] = Append(inbox[c], m) /\ inbox[c] \in Seq(Response)
    BY <2>1, <2>2
  <2>6. /\ OnceFor(inbox'[c], r) /\ Answered(inbox'[c]) = Answered(inbox[c]) \cup {m.req}
    <3> DEFINE s == inbox[c]
    <3>1. s \in Seq(Response) /\ OnceFor(s, r) /\ (m.req = r => r \notin Answered(s))
      BY <1>a, <2>2, <2>4, <2>5
    <3> HIDE DEF s, c, m
    <3>2. OnceFor(Append(s, m), r) /\ Answered(Append(s, m)) = Answered(s) \cup {m.req}
      BY <2>2, <3>1, OneMoreFor
    <3> QED
      BY <2>5, <3>2 DEF s
  <2> HIDE DEF c, m
  <2>7. \A q \in Requests \ {c} : inbox'[q] = inbox[q]
    BY <2>1
  <2>8. CASE m.req # r
    <3>1. ASSUME NEW q \in Requests
          PROVE  /\ OnceFor(inbox'[q], r) /\ OnceFor(batch'[q], r)
                 /\ r \in Answered(inbox'[q]) <=> r \in Answered(inbox[q])
                 /\ Answered(batch'[q]) = Answered(batch[q])
      <4>1. /\ OnceFor(inbox'[c], r)
            /\ r \in Answered(inbox'[c]) <=> r \in Answered(inbox[c])
        BY <2>6, <2>8
      <4>2. OnceFor(batch'[q], r) /\ Answered(batch'[q]) = Answered(batch[q])
        BY <1>a, <2>1
      <4>3. q # c => OnceFor(inbox'[q], r) /\ Answered(inbox'[q]) = Answered(inbox[q])
        BY <1>a, <2>7
      <4>4. CASE q = c
        BY <4>1, <4>2, <4>4
      <4>5. CASE q # c
        BY <4>2, <4>3, <4>5
      <4> QED
        BY <4>4, <4>5
    <3>2. r \in Answered(respq') => r \in Answered(respq)
      BY <2>3
    <3> QED
      BY <2>3, <3>1, <3>2, AloneShrinks
  <2>9. CASE m.req = r
    <3>1. \A q \in Requests : r \notin Answered(inbox[q]) /\ r \notin Answered(batch[q])
      BY <2>3, <2>9 DEF Alone
    <3>2. ASSUME NEW q \in Requests
          PROVE  /\ OnceFor(inbox'[q], r) /\ OnceFor(batch'[q], r)
                 /\ r \in Answered(inbox'[q]) => q = c
                 /\ r \notin Answered(batch'[q])
      <4>1. OnceFor(batch'[q], r) /\ r \notin Answered(batch'[q])
        BY <1>a, <2>1, <3>1
      <4>2. q # c => OnceFor(inbox'[q], r) /\ r \notin Answered(inbox'[q])
        BY <1>a, <2>7, <3>1
      <4>3. CASE q = c
        BY <2>6, <4>1, <4>3
      <4> QED
        BY <4>1, <4>2, <4>3
    <3>3. Alone(r)'
      <4>1. \A q \in Requests : OnceFor(inbox'[q], r) /\ OnceFor(batch'[q], r)
        BY <3>2
      <4>2. \A q \in Requests : r \in Answered(inbox'[q]) => q = c
        BY <3>2
      <4>3. \A q \in Requests : r \notin Answered(batch'[q])
        BY <3>2
      <4>4. r \notin Answered(respq')
        BY <2>3, <2>9
      <4> QED
        BY <2>3, <4>1, <4>2, <4>3, <4>4 DEF Alone
    <3>4. ~Nowhere(r)
      BY <2>3, <2>9 DEF Nowhere
    <3> QED
      BY <3>3, <3>4
  <2> QED
    BY <2>8, <2>9
<1>7. ASSUME NEW m \in Response, Respond(m), UNCHANGED <<inbox, batch>>,
             m.req = r => Answering(r)
      PROVE  Goal
  <2>1. inbox' = inbox /\ batch' = batch /\ respq' = Append(respq, m)
    BY <1>7 DEF Respond
  <2>2. m.req = r => r \notin Answered(respq)
    BY <1>7 DEF Nowhere
  <2>3. OnceFor(respq', r) /\ Answered(respq') = Answered(respq) \cup {m.req}
    BY <1>a, <2>1, <2>2, OneMoreFor
  <2>4. Alone(r)'
    BY <1>7, <2>1, <2>3 DEF Alone, Nowhere
  <2>5. Nowhere(r) /\ ~Answering(r) => Nowhere(r)'
    BY <1>7, <2>1, <2>3 DEF Nowhere
  <2> QED
    BY <2>4, <2>5
<1>8. ASSUME NEW p \in Requests,
             \/ Reject(p) \/ LoadUser(p) \/ SaveCharge(p) \/ CreateSubmit(p) \/ Connect(p)
             \/ PriorityOverflow(p)
             \/ PublishTask(p) \/ LoadOwner(p) \/ SaveReward(p) \/ KeepWaiting(p)
      PROVE  Goal
  BY <1>0, <1>8 DEF Reject, LoadUser, SaveCharge, CreateSubmit, Connect, PriorityOverflow,
    PublishTask, LoadOwner,
    SaveReward, KeepWaiting, brokerVars
<1>9. ASSUME NEW u \in Users, EditLoad(u) \/ EditSave(u)
                              \/ \E p \in Assigned : AssignPriority(u, p)
      PROVE  Goal
  BY <1>0, <1>9 DEF EditLoad, EditSave, AssignPriority, brokerVars
<1>10. ASSUME NEW j \in Judgers, UNCHANGED apiVars,
              \/ StartJudger(j) \/ Deliver(j) \/ Begin(j) \/ Refuse(j) \/ Ack(j) \/ Raise(j)
              \/ CrashJudger(j) \/ LoseConnection(j) \/ DropOutdated(j)
       PROVE  Goal
  BY <1>0, <1>10 DEF StartJudger, Deliver, Begin, Refuse, Ack, Raise, CrashJudger,
    LoseConnection,
    DropOutdated, brokerVars, apiVars
<1>11. CASE UNCHANGED vars
  BY <1>0, <1>11 DEF vars, brokerVars, apiVars
<1>12. ASSUME NEW j \in Judgers, NEW v \in Outcomes, Answer(j, v), UNCHANGED apiVars
       PROVE  Goal
  <2> DEFINE m == [req |-> Head(current[j]), verdict |-> v]
  <2>1. m \in Response /\ Respond(m) /\ UNCHANGED <<inbox, batch>>
    BY <1>12, AnswerType DEF Answer, apiVars
  <2>2. m.req = r => Answering(r)
    BY <1>12 DEF Answering
  <2> QED
    BY <1>7, <2>1, <2>2
<1>13. ASSUME NEW j \in Judgers, NEW v \in Outcomes, AnswerOutdated(j, v), UNCHANGED apiVars
       PROVE  Goal
  <2> DEFINE m == [req |-> Head(outdated[j]), verdict |-> v]
  <2>1. m \in Response /\ Respond(m) /\ UNCHANGED <<inbox, batch>>
    BY <1>13, AnswerType DEF AnswerOutdated, apiVars
  <2>2. m.req # r
    BY <1>13, OutdatedIsOld
  <2> QED
    BY <1>7, <2>1, <2>2
<1> QED
  BY <1>1, <1>2, <1>3, <1>4, <1>5, <1>6, <1>8, <1>9, <1>10, <1>11, <1>12, <1>13
     DEF Next, ApiNext, View, Client, Callback, JudgerNext, JudgerStep

\* With the response it stores goes the last one for the submission.
LEMMA StoredIsLast ==
  ASSUME TypeInv, NEW r \in Requests, StoreVerdict(r), Alone(r)
  PROVE  Nowhere(r)'
<1> USE DEF TypeInv, TypeOK, ApiTypeOK
<1>1. /\ respq' = respq /\ inbox' = inbox /\ batch'[r] = Tail(batch[r]) /\ batch[r] # <<>>
      /\ \A q \in Requests \ {r} : batch'[q] = batch[q]
      /\ Head(batch[r]).req = r
  BY DEF StoreVerdict, brokerVars
<1>2. OnceFor(batch[r], r) /\ batch[r] \in Seq(Response)
  BY DEF Alone
<1>3. r \notin Answered(batch'[r]) /\ r \in Answered(batch[r])
  BY <1>1, <1>2, FirstFor
<1>4. r \notin Answered(respq') /\ \A q \in Requests : r \notin Answered(inbox'[q])
  BY <1>1, <1>3 DEF Alone
<1>5. \A q \in Requests \ {r} : r \notin Answered(batch'[q])
  BY <1>1, <1>3 DEF Alone
<1> QED
  BY <1>3, <1>4, <1>5 DEF Nowhere

\* Only the judgers give answers.
LEMMA ToldByAnswer ==
  ASSUME TypeInv, OutdatedInv, [Next]_vars, NEW r \in Requests \ redelivered, Told(r)', ~Told(r)
  PROVE  Answering(r)
<1>1. published' # published
  BY DEF Told
<1>a. ASSUME NEW j \in Judgers, NEW v \in Outcomes, AnswerOutdated(j, v)
      PROVE  FALSE
  <2>1. published' = published \cup {[req |-> Head(outdated[j]), verdict |-> v]}
    BY <1>a DEF AnswerOutdated, Respond
  <2>2. Head(outdated[j]) = r
    BY <2>1 DEF Told
  <2> QED
    BY <1>a, <2>2, OutdatedIsOld
<1>2. PICK j \in Judgers, v \in Outcomes : Answer(j, v) /\ UNCHANGED apiVars
  <2>1. CASE ApiNext
    BY <1>1, <2>1 DEF ApiNext, View, Client, Callback, Reject, LoadUser, SaveCharge,
      CreateSubmit,
      Connect, PriorityOverflow, PublishTask, Poll, DropForeign, StoreVerdict, LoadOwner,
      SaveReward, KeepWaiting,
      Close, Disconnect, Fail, DropConnection, EditLoad, EditSave, AssignPriority, ApiCrash,
      brokerVars
  <2>2. CASE JudgerNext /\ UNCHANGED apiVars
    BY <1>1, <1>a, <2>2 DEF JudgerNext, JudgerStep, StartJudger, Deliver, Begin, Refuse, Ack,
      Raise,
      CrashJudger, LoseConnection, DropOutdated, brokerVars
  <2> QED
    BY <1>1, <2>1, <2>2 DEF Next, Push, vars, brokerVars
<1>3. published' = published \cup {[req |-> Head(current[j]), verdict |-> v]}
  BY <1>2 DEF Answer, Respond
<1>4. Head(current[j]) = r
  BY <1>3 DEF Told
<1> QED
  BY <1>2, <1>4 DEF Answering

\* The one answered is a task with no answer so far, and the judger has still to acknowledge it.
LEMMA AnsweringFirst ==
  ASSUME TypeInv, TaskInv, OnceInv, NEW r \in Requests \ redelivered, Answering(r)
  PROVE  ~Told(r) /\ ToAck(r)' /\ pc'[r] \notin Before
<1> USE DEF TypeInv, TypeOK, JudgerTypeOK
<1>1. PICK j \in Judgers, v \in Outcomes :
        Answer(j, v) /\ UNCHANGED apiVars /\ Head(current[j]) = r
  BY DEF Answering
<1>2. current[j] \in Seq(Requests) /\ current[j] # <<>> /\ jstate[j] = "judging"
  BY <1>1 DEF Answer, JudgingHolds
<1>3. r \in Range(current[j])
  BY <1>1, <1>2, FirstAndRest
<1>4. r \in Mine(j) /\ r \in Tasks
  BY <1>3 DEF Mine, Tasks
<1>5. ASSUME Told(r)
      PROVE  FALSE
  <2>1. PICK i \in Judgers : jstate[i] = "answered" /\ r \in Range(current[i])
    BY <1>4, <1>5 DEF OnceInv, ToAck
  <2>2. i # j /\ r \in Mine(i)
    BY <1>2, <2>1 DEF Mine
  <2> QED
    BY <1>4, <2>2 DEF TaskInv
<1>6. jstate'[j] = "answered" /\ current'[j] = current[j]
  BY <1>1 DEF Answer
<1>7. ToAck(r)'
  BY <1>3, <1>6 DEF ToAck
<1>8. pc' = pc
  BY <1>1 DEF apiVars
<1> QED
  BY <1>4, <1>5, <1>7, <1>8 DEF TaskInv

\* A row takes a verdict from the response it stores.
LEMMA VerdictFromStore ==
  ASSUME TypeInv, [Next]_vars, NEW r \in Requests, result'[r] \in Verdicts
  PROVE  result[r] \in Verdicts \/ StoreVerdict(r)
<1> USE DEF TypeInv, TypeOK, ApiTypeOK
<1>1. ASSUME NEW q \in Requests, StoreVerdict(q)
      PROVE  result[r] \in Verdicts \/ StoreVerdict(r)
  BY <1>1 DEF StoreVerdict
<1>2. ASSUME NEW q \in Requests, CreateSubmit(q)
      PROVE  result[r] \in Verdicts
  BY <1>2 DEF CreateSubmit, Verdicts
<1>3. ASSUME \A q \in Requests : ~CreateSubmit(q) /\ ~StoreVerdict(q)
      PROVE  result' = result
  BY <1>3 DEF Next, ApiNext, View, Client, Callback, Reject, LoadUser, SaveCharge, Connect,
    PriorityOverflow,
    PublishTask, Poll, DropForeign, LoadOwner, SaveReward, KeepWaiting, Close, Fail,
    DropConnection, EditLoad, EditSave, AssignPriority, ApiCrash, apiVars, vars
<1> QED
  BY <1>1, <1>2, <1>3

\* A thread that has published does not go back before that.
LEMMA StaysPublished ==
  ASSUME TypeInv, [Next]_vars, NEW r \in Requests, pc'[r] \in Before
  PROVE  pc[r] \in Before
<1>1. CASE ApiNext /\ \A q \in Requests : ~PublishTask(q)
  BY <1>1, ApiLeavesTasks
<1>2. ASSUME NEW q \in Requests, PublishTask(q)
      PROVE  pc[r] \in Before
  BY <1>2 DEF PublishTask, Move, Before, TypeInv, TypeOK, ApiTypeOK
<1>3. CASE pc' = pc
  BY <1>3
<1> QED
  BY <1>1, <1>2, <1>3 DEF Next, apiVars, vars

\* Where an answered task has still to be acknowledged it stays so, or the task goes, or it
\* is queued again.
LEMMA ToAckStays ==
  ASSUME TypeInv, TaskInv, [Next]_vars, NEW r \in Requests, ToAck(r), r \in Tasks'
  PROVE  ToAck(r)' \/ r \in redelivered'
<1> USE DEF TypeInv, TypeOK, JudgerTypeOK
<1>1. PICK i \in Judgers : jstate[i] = "answered" /\ r \in Range(current[i])
  BY DEF ToAck
<1>2. CASE jstate'[i] = jstate[i] /\ current'[i] = current[i]
  BY <1>1, <1>2 DEF ToAck
<1>3. ASSUME NEW j \in Judgers, UNCHANGED apiVars, OwnStep(j)
      PROVE  ToAck(r)' \/ r \in redelivered'
  <2>1. Moves(j, {}) \/ Moves(j, Range(current[j]))
    BY <1>3, JudgerMoves, AckDrops DEF OwnStep, JudgerStep
  <2>2. CASE i # j
    BY <1>2, <2>1, <2>2 DEF Moves
  <2>3. CASE i = j /\ (CrashJudger(j) \/ LoseConnection(j))
    BY <1>1, <2>3 DEF CrashJudger, GoDown, LoseConnection
  <2>4. CASE i = j /\ Ack(j)
    <3>1. pc' = pc
      BY <1>3 DEF apiVars
    <3>2. Tasks' = Tasks \ (Range(current[j]) \cap (Mine(j) \cup Range(taskq)))
      BY <2>4, <3>1, AckDrops, TasksMove
    <3>3. r \in Mine(j)
      BY <1>1, <2>4 DEF Mine
    <3> QED
      BY <1>1, <2>4, <3>2, <3>3
  <2>5. CASE i = j /\ ~Ack(j) /\ ~CrashJudger(j) /\ ~LoseConnection(j)
    <3>1. jstate'[i] = jstate[i] /\ current'[i] = current[i]
      BY <1>1, <1>3, <2>5 DEF OwnStep, JudgerStep, StartJudger, Deliver, Begin, Refuse, Answer,
        Raise
    <3> QED
      BY <1>2, <3>1
  <2> QED
    BY <2>2, <2>3, <2>4, <2>5
<1>4. CASE UNCHANGED judgerVars
  BY <1>2, <1>4 DEF judgerVars
<1>5. ASSUME NEW j \in Judgers, OutdatedStep(j)
      PROVE  ToAck(r)' \/ r \in redelivered'
  BY <1>2, <1>5, OutdatedFrame
<1> QED
  BY <1>3, <1>4, <1>5 DEF Next, JudgerNext, OwnStep, OutdatedStep, vars

\* A new task has no answer.
LEMMA NewTask ==
  ASSUME TypeInv, TaskInv, [Next]_vars, NEW r \in Requests, r \in Tasks', r \notin Tasks
  PROVE  pc[r] \in Before
<1>1. ASSUME NEW q \in Requests, PublishTask(q), UNCHANGED judgerVars
      PROVE  pc[r] \in Before
  <2>1. r = q
    BY <1>1, PublishAdds
  <2> QED
    BY <1>1, <2>1 DEF PublishTask, Move, Before
<1>2. CASE ApiNext /\ UNCHANGED judgerVars /\ \A q \in Requests : ~PublishTask(q)
  BY <1>2, ApiLeavesTasks, TaskFrame DEF judgerVars
<1>3. ASSUME NEW j \in Judgers, UNCHANGED apiVars, OwnStep(j)
      PROVE  FALSE
  <2>1. pc' = pc
    BY <1>3 DEF apiVars
  <2> QED
    BY <1>3, <2>1, JudgerMoves, AckDrops, TasksMove DEF OwnStep, JudgerStep
<1>4. CASE UNCHANGED <<taskq, apiVars, judgerVars>>
  BY <1>4, TaskFrame DEF apiVars, judgerVars
<1>5. ASSUME NEW j \in Judgers, UNCHANGED apiVars, OutdatedStep(j)
      PROVE  FALSE
  BY <1>5, OutdatedFrame, TaskFrame DEF apiVars
<1> QED
  BY <1>1, <1>2, <1>3, <1>4, <1>5
     DEF Next, JudgerNext, OwnStep, OutdatedStep, Push, vars, brokerVars

LEMMA OnceStep ==
  ASSUME TypeInv, TaskInv, Drained, OutdatedInv, OnceInv, VerdictProvenance, [Next]_vars
  PROVE  OnceInv'
<1> SUFFICES ASSUME NEW r \in Requests, r \notin redelivered'
             PROVE  /\ Alone(r)'
                    /\ ~Told(r)' => Nowhere(r)'
                    /\ result'[r] \in Verdicts => Nowhere(r)'
                    /\ pc'[r] \in Before => ~Told(r)'
                    /\ r \in Tasks' /\ Told(r)' => ToAck(r)'
  BY DEF OnceInv
<1>1. r \notin redelivered
  BY RedeliveredGrows
<1>2. /\ Alone(r)
      /\ ~Told(r) => Nowhere(r)
      /\ result[r] \in Verdicts => Nowhere(r)
      /\ pc[r] \in Before => ~Told(r)
      /\ r \in Tasks /\ Told(r) => ToAck(r)
  BY <1>1 DEF OnceInv
<1>3. result[r] \in Verdicts => Told(r)
  BY DEF VerdictProvenance, Told
<1>4. Told(r) => Told(r)'
  BY HistoryGrows DEF Told
<1>5. CASE Answering(r)
  <2>1. ~Told(r) /\ ToAck(r)' /\ pc'[r] \notin Before
    BY <1>1, <1>5, AnsweringFirst
  <2>2. Nowhere(r)
    BY <1>2, <2>1
  <2>3. Alone(r)'
    BY <1>1, <1>2, <2>2, AloneStep
  <2>4. Told(r)'
    <3>1. PICK j \in Judgers, v \in Outcomes : Answer(j, v) /\ Head(current[j]) = r
      BY <1>5 DEF Answering
    <3>2. [req |-> r, verdict |-> v] \in published' /\ v \in Verdicts
      BY <3>1, JudgerAssumption DEF Answer, Respond
    <3> QED
      BY <3>2 DEF Told
  <2>5. result'[r] = result[r]
    BY <1>5 DEF Answering, apiVars
  <2> QED
    BY <1>3, <2>1, <2>3, <2>4, <2>5
<1>6. CASE ~Answering(r)
  <2>1. Alone(r)' /\ (Nowhere(r) => Nowhere(r)')
    BY <1>1, <1>2, <1>6, AloneStep
  <2>2. Told(r)' <=> Told(r)
    BY <1>1, <1>4, <1>6, ToldByAnswer
  <2>3. result'[r] \in Verdicts => Nowhere(r)'
    BY <1>2, <2>1, VerdictFromStore, StoredIsLast
  <2>4. pc'[r] \in Before => ~Told(r)'
    BY <1>2, <2>2, StaysPublished
  <2>5. r \in Tasks' /\ Told(r)' => ToAck(r)'
    <3>1. r \in Tasks' /\ Told(r) => r \in Tasks
      BY <1>2, NewTask
    <3> QED
      BY <1>2, <2>2, <3>1, ToAckStays
  <2> QED
    BY <1>2, <2>1, <2>2, <2>3, <2>4, <2>5
<1> QED
  BY <1>5, <1>6

\* A verdict is stored for a submission that is at 'Q', and for another one only when its
\* task was queued again after it had been answered: at most one verdict and one reward as
\* long as no judger dies between its answer and its acknowledgement or loses its connection
\* with the task in hand, for any number of clients, judgers and faults (mq.py:22-51,
\* judger.rb:198-201).
THEOREM AppliedOnceHolds == Spec => AppliedOnce
<1>1. Init => OnceInv
  BY NoneFor, NoneAndOne
     DEF Init, ApiInit, BrokerInit, JudgerInit, OnceInv, Alone, Nowhere, Told, Tasks, Mine,
     Verdicts
<1>2. TypeInv /\ TaskInv /\ SafeInv /\ OutdatedInv /\ OnceInv /\ VerdictProvenance /\ [Next]_vars
        => OnceInv'
  BY OnceStep DEF SafeInv
<1>3. TypeInv /\ RowInv /\ OnceInv =>
        \A r \in Requests : StoreVerdict(r) => result[r] = "Q" \/ r \in redelivered
  <2> SUFFICES ASSUME TypeInv, RowInv, OnceInv, NEW r \in Requests, StoreVerdict(r),
                      r \notin redelivered
               PROVE  result[r] = "Q"
    OBVIOUS
  <2>1. r \in Answered(batch[r])
    <3>1. batch[r] \in Seq(Response) /\ batch[r] # <<>> /\ Head(batch[r]).req = r
      BY DEF StoreVerdict, TypeInv, TypeOK, ApiTypeOK
    <3> QED
      BY <3>1, FirstAndRest, AnsweredRange
  <2>2. result[r] \notin Verdicts
    BY <2>1 DEF OnceInv, Nowhere
  <2>3. result[r] # "none"
    BY DEF StoreVerdict, Move, RowInv, Connected, Opened
  <2> QED
    BY <2>2, <2>3 DEF TypeInv, TypeOK, ApiTypeOK
<1> QED
  BY <1>1, <1>2, <1>3, TypeCorrect, TaskHolds, SafeHolds, RowHolds, OutdatedHolds,
     VerdictProvenanceHolds, PTL
     DEF Spec, AppliedOnce
=============================================================================
