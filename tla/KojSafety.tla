------------------------------ MODULE KojSafety ------------------------------
(***************************************************************************)
(* Safety of Koj for all values of its constants: its types, with the one  *)
(* fact about the judgers they rest on (a judger that judges has a task),  *)
(* the bounds on the points of users, what a user is left with who has one *)
(* window open at a time (PriorityLedger), and where a stored verdict      *)
(* comes from.                                                             *)
(***************************************************************************)
EXTENDS PriorityLedger, SequenceTheorems, TLAPS

------------------------------- (* the types *) ------------------------------
JudgingHolds == \A j \in Judgers : jstate[j] = "judging" => current[j] # <<>>

TypeInv == TypeOK /\ JudgingHolds

\* Removing an element leaves a sequence over the same set (consumers, when a
\* connection goes).
LEMMA RemoveAtType ==
  ASSUME NEW S, NEW s \in Seq(S), NEW i \in DOMAIN s
  PROVE  RemoveAt(s, i) \in Seq(S)
BY DEF RemoveAt

\* What is unacknowledged is a sequence of submissions.
LEMMA UnackedType ==
  ASSUME JudgerTypeOK, NEW j \in Judgers
  PROVE  Unacked(j) \in Seq(Requests)
BY DEF JudgerTypeOK, Unacked

\* The submissions answered by responses are submissions.
LEMMA AnsweredType ==
  ASSUME NEW s \in Seq(Response)
  PROVE  Answered(s) \subseteq Requests
<1>1. ASSUME NEW i \in DOMAIN s
      PROVE  s[i].req \in Requests
  <2>1. s[i] \in Response
    BY <1>1, LenProperties, ElementOfSeq
  <2> QED
    BY <2>1 DEF Response
<1> QED
  BY <1>1 DEF Answered

\* The next response to dispatch is a response.
LEMMA HeadType ==
  ASSUME ApiTypeOK, NEW r \in Requests, batch[r] # <<>>
  PROVE  /\ Head(batch[r]).req \in Requests
         /\ Head(batch[r]).verdict \in Verdicts
         /\ Tail(batch[r]) \in Seq(Response)
<1>1. batch[r] \in Seq(Response)
  BY DEF ApiTypeOK
<1>2. Head(batch[r]) \in Response /\ Tail(batch[r]) \in Seq(Response)
  BY <1>1, HeadTailProperties
<1> QED
  BY <1>2 DEF Response

\* The history of losses stays a set of pairs.
LEMMA LoseType ==
  ASSUME ApiTypeOK, NEW R \in SUBSET Requests, NEW c \in Causes, Lose(R, c)
  PROVE  lost' \in SUBSET (Requests \X Causes)
BY DEF ApiTypeOK, Lose

LEMMA InitType == Init => TypeInv
<1> SUFFICES ASSUME Init PROVE TypeInv
  OBVIOUS
<1> USE DEF Init
<1>1. BrokerTypeOK
  <2> USE FaultsAssumption DEF BrokerInit
  <2>1. declared \in BOOLEAN OBVIOUS
  <2>2. taskq \in Seq(Requests) OBVIOUS
  <2>3. respq \in Seq(Response) OBVIOUS
  <2>4. published \subseteq Response OBVIOUS
  <2>5. consumers \in Seq(Requests) OBVIOUS
  <2>6. inbox \in [Requests -> Seq(Response)] OBVIOUS
  <2>7. faults \in 0..MaxFaults OBVIOUS
  <2> QED
    BY <2>1, <2>2, <2>3, <2>4, <2>5, <2>6, <2>7 DEF BrokerTypeOK
<1>2. ApiTypeOK
  BY ApiAssumption DEF ApiInit, ApiTypeOK, Stages, NoEdit, MaxPriority
<1>3. JudgerTypeOK /\ JudgingHolds
  BY DEF JudgerInit, JudgerTypeOK, JudgingHolds
<1> QED
  BY <1>1, <1>2, <1>3 DEF TypeInv, TypeOK

LEMMA ApiKeepsTypes ==
  ASSUME TypeInv, ApiNext, UNCHANGED judgerVars
  PROVE  TypeInv'
<1> USE DEF TypeInv, TypeOK
<1>1. JudgerTypeOK' /\ JudgingHolds'
  BY DEF JudgerTypeOK, JudgingHolds, judgerVars, Unacked
<1>2. ASSUME NEW r \in Requests, Reject(r)
       PROVE  BrokerTypeOK' /\ ApiTypeOK'
  <2>1. pc' \in [Requests -> Stages]
    BY <1>2 DEF Reject, ApiTypeOK, Move, Stages
  <2>2. BrokerTypeOK'
    BY <1>2 DEF Reject, brokerVars, BrokerTypeOK
  <2>3. ApiTypeOK'
    BY <1>2, <2>1 DEF Reject, ApiTypeOK
  <2> QED
    BY <2>2, <2>3
<1>3. ASSUME NEW r \in Requests, LoadUser(r)
       PROVE  BrokerTypeOK' /\ ApiTypeOK'
  <2>1. pc' \in [Requests -> Stages]
    BY <1>3 DEF LoadUser, ApiTypeOK, Move, Stages
  <2>2. snap' \in [Requests -> Nat]
    BY ApiAssumption, <1>3 DEF LoadUser, ApiTypeOK
  <2>3. BrokerTypeOK'
    BY <1>3 DEF LoadUser, brokerVars, BrokerTypeOK
  <2>4. ApiTypeOK'
    BY <1>3, <2>1, <2>2 DEF LoadUser, ApiTypeOK
  <2> QED
    BY <2>3, <2>4
<1>4. ASSUME NEW r \in Requests, SaveCharge(r)
       PROVE  BrokerTypeOK' /\ ApiTypeOK'
  <2>1. pc' \in [Requests -> Stages]
    BY <1>4 DEF SaveCharge, ApiTypeOK, Move, Stages
  <2>2. priority' \in [Users -> Nat]
    BY ApiAssumption, <1>4 DEF SaveCharge, ApiTypeOK, Charge, Floor, SubmitCost
  <2>3. BrokerTypeOK'
    BY <1>4 DEF SaveCharge, brokerVars, BrokerTypeOK
  <2>4. ApiTypeOK'
    BY <1>4, <2>1, <2>2 DEF SaveCharge, ApiTypeOK
  <2> QED
    BY <2>3, <2>4
<1>5. ASSUME NEW r \in Requests, CreateSubmit(r)
       PROVE  BrokerTypeOK' /\ ApiTypeOK'
  <2>1. pc' \in [Requests -> Stages]
    BY <1>5 DEF CreateSubmit, ApiTypeOK, Move, Stages
  <2>2. result' \in [Requests -> Verdicts \cup {"none", "Q"}]
    BY <1>5 DEF CreateSubmit, ApiTypeOK
  <2>3. BrokerTypeOK'
    BY <1>5 DEF CreateSubmit, brokerVars, BrokerTypeOK
  <2>4. ApiTypeOK'
    BY <1>5, <2>1, <2>2 DEF CreateSubmit, ApiTypeOK
  <2> QED
    BY <2>3, <2>4
<1>6. ASSUME NEW r \in Requests, Connect(r)
       PROVE  BrokerTypeOK' /\ ApiTypeOK'
  <2>1. pc' \in [Requests -> Stages]
    BY <1>6 DEF Connect, ApiTypeOK, Move, Stages
  <2>2. consumers' \in Seq(Requests)
    BY <1>6 DEF Connect, ApiTypeOK, BrokerTypeOK
  <2>3. BrokerTypeOK'
    BY <1>6, <2>2 DEF Connect, BrokerTypeOK
  <2>4. ApiTypeOK'
    BY <1>6, <2>1 DEF Connect, ApiTypeOK
  <2> QED
    BY <2>3, <2>4
<1>7. ASSUME NEW r \in Requests, PublishTask(r)
       PROVE  BrokerTypeOK' /\ ApiTypeOK'
  <2>1. pc' \in [Requests -> Stages]
    BY <1>7 DEF PublishTask, ApiTypeOK, Move, Stages
  <2>2. taskq' \in Seq(Requests)
    BY <1>7 DEF PublishTask, ApiTypeOK, BrokerTypeOK, Enqueue
  <2>3. weight' \in [Requests -> Nat]
    BY <1>7 DEF PublishTask, ApiTypeOK, PublishPriority, ContestBonus
  <2>4. lost' \in SUBSET (Requests \X Causes)
    BY LoseType, <1>7 DEF PublishTask, ApiTypeOK, Causes
  <2>5. BrokerTypeOK'
    BY <1>7, <2>2 DEF PublishTask, BrokerTypeOK
  <2>6. ApiTypeOK'
    BY <1>7, <2>1, <2>3, <2>4 DEF PublishTask, ApiTypeOK
  <2> QED
    BY <2>5, <2>6
<1>8. ASSUME NEW r \in Requests, Poll(r)
       PROVE  BrokerTypeOK' /\ ApiTypeOK'
  <2>1. pc' \in [Requests -> Stages]
    BY <1>8 DEF Poll, ApiTypeOK, Move, Stages
  <2>2. batch' \in [Requests -> Seq(Response)]
    BY <1>8 DEF Poll, ApiTypeOK, BrokerTypeOK
  <2>3. inbox' \in [Requests -> Seq(Response)]
    BY <1>8 DEF Poll, ApiTypeOK, BrokerTypeOK
  <2>4. BrokerTypeOK'
    BY <1>8, <2>3 DEF Poll, BrokerTypeOK
  <2>5. ApiTypeOK'
    BY <1>8, <2>1, <2>2 DEF Poll, ApiTypeOK
  <2> QED
    BY <2>4, <2>5
<1>9. ASSUME NEW r \in Requests, DropForeign(r)
       PROVE  BrokerTypeOK' /\ ApiTypeOK'
  <2>1. batch' \in [Requests -> Seq(Response)]
    BY HeadType, <1>9 DEF DropForeign, ApiTypeOK
  <2>2. lost' \in SUBSET (Requests \X Causes)
    BY HeadType, LoseType, <1>9, ZenonT(60) DEF DropForeign, ApiTypeOK, Causes
  <2>3. BrokerTypeOK'
    BY <1>9 DEF DropForeign, brokerVars, BrokerTypeOK
  <2>4. ApiTypeOK'
    BY <1>9, <2>1, <2>2 DEF DropForeign, ApiTypeOK
  <2> QED
    BY <2>3, <2>4
<1>10. ASSUME NEW r \in Requests, StoreVerdict(r)
       PROVE  BrokerTypeOK' /\ ApiTypeOK'
  <2>1. pc' \in [Requests -> Stages]
    BY <1>10 DEF StoreVerdict, ApiTypeOK, Move, Stages
  <2>2. response' \in [Requests -> BOOLEAN]
    BY <1>10 DEF StoreVerdict, ApiTypeOK
  <2>3. result' \in [Requests -> Verdicts \cup {"none", "Q"}]
    BY HeadType, <1>10 DEF StoreVerdict, ApiTypeOK
  <2>4. batch' \in [Requests -> Seq(Response)]
    BY HeadType, <1>10 DEF StoreVerdict, ApiTypeOK
  <2>5. BrokerTypeOK'
    BY <1>10 DEF StoreVerdict, brokerVars, BrokerTypeOK
  <2>6. ApiTypeOK'
    BY <1>10, <2>1, <2>2, <2>3, <2>4 DEF StoreVerdict, ApiTypeOK
  <2> QED
    BY <2>5, <2>6
<1>11. ASSUME NEW r \in Requests, LoadOwner(r)
       PROVE  BrokerTypeOK' /\ ApiTypeOK'
  <2>1. pc' \in [Requests -> Stages]
    BY <1>11 DEF LoadOwner, ApiTypeOK, Move, Stages
  <2>2. snap' \in [Requests -> Nat]
    BY ApiAssumption, <1>11 DEF LoadOwner, ApiTypeOK
  <2>3. BrokerTypeOK'
    BY <1>11 DEF LoadOwner, brokerVars, BrokerTypeOK
  <2>4. ApiTypeOK'
    BY <1>11, <2>1, <2>2 DEF LoadOwner, ApiTypeOK
  <2> QED
    BY <2>3, <2>4
<1>12. ASSUME NEW r \in Requests, SaveReward(r)
       PROVE  BrokerTypeOK' /\ ApiTypeOK'
  <2>1. pc' \in [Requests -> Stages]
    BY <1>12 DEF SaveReward, ApiTypeOK, Move, Stages
  <2>2. priority' \in [Users -> Nat]
    BY ApiAssumption, <1>12 DEF SaveReward, ApiTypeOK, Reward, Cap, Points, MaxPriority
  <2>3. BrokerTypeOK'
    BY <1>12 DEF SaveReward, brokerVars, BrokerTypeOK
  <2>4. ApiTypeOK'
    BY <1>12, <2>1, <2>2 DEF SaveReward, ApiTypeOK
  <2> QED
    BY <2>3, <2>4
<1>13. ASSUME NEW r \in Requests, KeepWaiting(r)
       PROVE  BrokerTypeOK' /\ ApiTypeOK'
  <2>1. pc' \in [Requests -> Stages]
    BY <1>13 DEF KeepWaiting, ApiTypeOK, Move, Stages
  <2>2. BrokerTypeOK'
    BY <1>13 DEF KeepWaiting, brokerVars, BrokerTypeOK
  <2>3. ApiTypeOK'
    BY <1>13, <2>1 DEF KeepWaiting, ApiTypeOK
  <2> QED
    BY <2>2, <2>3
<1>14. ASSUME NEW r \in Requests, Close(r)
       PROVE  BrokerTypeOK' /\ ApiTypeOK'
  <2>1. pc' \in [Requests -> Stages]
    BY <1>14 DEF Close, ApiTypeOK, Move, Stages
  <2>2. consumers' \in Seq(Requests)
    BY RemoveAtType, <1>14 DEF Close, ApiTypeOK, Disconnect, BrokerTypeOK
  <2>3. inbox' \in [Requests -> Seq(Response)]
    BY <1>14 DEF Close, ApiTypeOK, Disconnect, BrokerTypeOK
  <2>4. lost' \in SUBSET (Requests \X Causes)
    BY AnsweredType, LoseType, <1>14 DEF Close, ApiTypeOK, Causes, BrokerTypeOK
  <2>5. BrokerTypeOK'
    BY <1>14, <2>2, <2>3 DEF Close, BrokerTypeOK, Disconnect
  <2>6. ApiTypeOK'
    BY <1>14, <2>1, <2>4 DEF Close, ApiTypeOK
  <2> QED
    BY <2>5, <2>6
<1>15. ASSUME NEW r \in Requests, Fail(r)
       PROVE  BrokerTypeOK' /\ ApiTypeOK'
  <2>1. pc' \in [Requests -> Stages]
    BY <1>15 DEF Fail, ApiTypeOK, Stages
  <2>2. batch' \in [Requests -> Seq(Response)]
    BY <1>15 DEF Fail, ApiTypeOK
  <2>3. lost' \in SUBSET (Requests \X Causes)
    BY AnsweredType, LoseType, <1>15 DEF Fail, ApiTypeOK, Causes, BrokerTypeOK
  <2>4. faults' \in 0..MaxFaults
    BY FaultsAssumption, <1>15 DEF Fail, ApiTypeOK, Fault, BrokerTypeOK
  <2>5. BrokerTypeOK'
    BY <1>15, <2>4 DEF Fail, BrokerTypeOK
  <2>6. ApiTypeOK'
    BY <1>15, <2>1, <2>2, <2>3 DEF Fail, ApiTypeOK
  <2> QED
    BY <2>5, <2>6
<1>16. ASSUME NEW r \in Requests, DropConnection(r)
       PROVE  BrokerTypeOK' /\ ApiTypeOK'
  <2>1. consumers' \in Seq(Requests)
    BY RemoveAtType, <1>16 DEF DropConnection, ApiTypeOK, Disconnect, BrokerTypeOK
  <2>2. inbox' \in [Requests -> Seq(Response)]
    BY <1>16 DEF DropConnection, ApiTypeOK, Disconnect, BrokerTypeOK
  <2>3. lost' \in SUBSET (Requests \X Causes)
    BY AnsweredType, LoseType, <1>16 DEF DropConnection, ApiTypeOK, Causes, BrokerTypeOK
  <2>4. BrokerTypeOK'
    BY <1>16, <2>1, <2>2 DEF DropConnection, BrokerTypeOK, Disconnect
  <2>5. ApiTypeOK'
    BY <1>16, <2>3 DEF DropConnection, ApiTypeOK
  <2> QED
    BY <2>4, <2>5
<1>17. ASSUME NEW u \in Users, EditLoad(u)
       PROVE  BrokerTypeOK' /\ ApiTypeOK'
  <2>1. editing' \in [Users -> Nat \cup {NoEdit}]
    BY <1>17 DEF EditLoad, ApiTypeOK
  <2>2. BrokerTypeOK'
    BY <1>17 DEF EditLoad, brokerVars, BrokerTypeOK
  <2>3. ApiTypeOK'
    BY <1>17, <2>1 DEF EditLoad, ApiTypeOK
  <2> QED
    BY <2>2, <2>3
<1>18. ASSUME NEW u \in Users, EditSave(u)
       PROVE  BrokerTypeOK' /\ ApiTypeOK'
  <2>1. priority' \in [Users -> Nat]
    BY <1>18 DEF EditSave, ApiTypeOK, NoEdit
  <2>2. editing' \in [Users -> Nat \cup {NoEdit}]
    BY <1>18 DEF EditSave, ApiTypeOK
  <2>3. BrokerTypeOK'
    BY <1>18 DEF EditSave, brokerVars, BrokerTypeOK
  <2>4. ApiTypeOK'
    BY <1>18, <2>1, <2>2 DEF EditSave, ApiTypeOK
  <2> QED
    BY <2>3, <2>4
<1>19. ASSUME ApiCrash
       PROVE  BrokerTypeOK' /\ ApiTypeOK'
  <2>1. pc' \in [Requests -> Stages]
    BY <1>19 DEF ApiCrash, ApiTypeOK, Stages
  <2>2. batch' \in [Requests -> Seq(Response)]
    BY <1>19 DEF ApiCrash, ApiTypeOK
  <2>3. consumers' \in Seq(Requests)
    BY <1>19 DEF ApiCrash, ApiTypeOK
  <2>4. inbox' \in [Requests -> Seq(Response)]
    BY <1>19 DEF ApiCrash, ApiTypeOK
  <2>5. lost' \in SUBSET (Requests \X Causes)
    <3> DEFINE R == UNION {Answered(inbox[r] \o batch[r]) : r \in Requests}
    <3>1. ASSUME NEW r \in Requests
          PROVE  Answered(inbox[r] \o batch[r]) \subseteq Requests
      <4>1. inbox[r] \o batch[r] \in Seq(Response)
        BY ConcatProperties DEF ApiTypeOK, BrokerTypeOK
      <4> QED
        BY <4>1, AnsweredType
    <3>2. R \in SUBSET Requests
      BY <3>1
    <3>3. Lose(R, "discarded")
      BY <1>19 DEF ApiCrash
    <3> HIDE DEF R
    <3> QED
      BY <3>2, <3>3, LoseType DEF Causes
  <2>6. editing' \in [Users -> Nat \cup {NoEdit}]
    BY <1>19 DEF ApiCrash, ApiTypeOK
  <2>7. faults' \in 0..MaxFaults
    BY FaultsAssumption, <1>19 DEF ApiCrash, ApiTypeOK, Fault, BrokerTypeOK
  <2>8. BrokerTypeOK'
    BY <1>19, <2>3, <2>4, <2>7 DEF ApiCrash, BrokerTypeOK
  <2>9. ApiTypeOK'
    BY <1>19, <2>1, <2>2, <2>5, <2>6 DEF ApiCrash, ApiTypeOK
  <2> QED
    BY <2>8, <2>9
<1>20. ASSUME NEW u \in Users, NEW p \in Assigned, AssignPriority(u, p)
       PROVE  BrokerTypeOK' /\ ApiTypeOK'
  <2>1. priority' \in [Users -> Nat]
    BY ApiAssumption, <1>20 DEF AssignPriority, ApiTypeOK
  <2>2. editing' \in [Users -> Nat \cup {NoEdit}]
    BY <1>20 DEF AssignPriority, ApiTypeOK
  <2>3. raised' \in SUBSET Users
    BY <1>20 DEF AssignPriority, ApiTypeOK
  <2>4. BrokerTypeOK'
    BY <1>20 DEF AssignPriority, brokerVars, BrokerTypeOK
  <2>5. ApiTypeOK'
    BY <1>20, <2>1, <2>2, <2>3 DEF AssignPriority, ApiTypeOK
  <2> QED
    BY <2>4, <2>5
<1>21. ASSUME NEW r \in Requests, PriorityOverflow(r)
       PROVE  BrokerTypeOK' /\ ApiTypeOK'
  <2>1. pc' \in [Requests -> Stages]
    BY <1>21 DEF PriorityOverflow, ApiTypeOK, Move, Stages
  <2>2. BrokerTypeOK'
    BY <1>21 DEF PriorityOverflow, brokerVars, BrokerTypeOK
  <2>3. ApiTypeOK'
    BY <1>21, <2>1 DEF PriorityOverflow, ApiTypeOK
  <2> QED
    BY <2>2, <2>3
<1> QED
  BY <1>1, <1>2, <1>3, <1>4, <1>5, <1>6, <1>7, <1>8, <1>9, <1>10, <1>11, <1>12, <1>13,
     <1>14, <1>15, <1>16, <1>17, <1>18, <1>19, <1>20, <1>21
     DEF ApiNext, View, Client, Callback

LEMMA JudgerKeepsTypes ==
  ASSUME TypeInv, JudgerNext, UNCHANGED apiVars
  PROVE  TypeInv'
<1> USE DEF TypeInv, TypeOK
<1>1. ApiTypeOK'
  BY DEF ApiTypeOK, apiVars
<1>2. ASSUME NEW j \in Judgers, StartJudger(j)
       PROVE  BrokerTypeOK' /\ JudgerTypeOK' /\ JudgingHolds'
  <2>1. jstate' \in [Judgers -> {"down", "idle", "judging", "answered"}]
    BY <1>2 DEF StartJudger, JudgerTypeOK
  <2>2. BrokerTypeOK'
    BY <1>2 DEF StartJudger, brokerVars, BrokerTypeOK
  <2>3. JudgerTypeOK'
    BY <1>2, <2>1 DEF StartJudger, JudgerTypeOK
  <2>4. JudgingHolds'
    BY <1>2 DEF StartJudger, JudgerTypeOK, JudgingHolds
  <2> QED
    BY <2>2, <2>3, <2>4
<1>3. ASSUME NEW j \in Judgers, Deliver(j)
       PROVE  BrokerTypeOK' /\ JudgerTypeOK' /\ JudgingHolds'
  <2>1. buffer' \in [Judgers -> Seq(Requests)]
    BY HeadTailProperties, <1>3 DEF Deliver, JudgerTypeOK, BrokerTypeOK
  <2>2. taskq' \in Seq(Requests)
    BY HeadTailProperties, <1>3 DEF Deliver, JudgerTypeOK, BrokerTypeOK
  <2>3. BrokerTypeOK'
    BY <1>3, <2>2 DEF Deliver, BrokerTypeOK
  <2>4. JudgerTypeOK'
    BY <1>3, <2>1 DEF Deliver, JudgerTypeOK
  <2>5. JudgingHolds'
    BY <1>3 DEF Deliver, JudgerTypeOK, JudgingHolds
  <2> QED
    BY <2>3, <2>4, <2>5
<1>4. ASSUME NEW j \in Judgers, Begin(j)
       PROVE  BrokerTypeOK' /\ JudgerTypeOK' /\ JudgingHolds'
  <2>1. current' \in [Judgers -> Seq(Requests)]
    BY HeadTailProperties, <1>4 DEF Begin, JudgerTypeOK
  <2>2. buffer' \in [Judgers -> Seq(Requests)]
    BY HeadTailProperties, <1>4 DEF Begin, JudgerTypeOK
  <2>3. jstate' \in [Judgers -> {"down", "idle", "judging", "answered"}]
    BY <1>4 DEF Begin, JudgerTypeOK
  <2>4. BrokerTypeOK'
    BY <1>4 DEF Begin, brokerVars, BrokerTypeOK
  <2>5. JudgerTypeOK'
    BY <1>4, <2>1, <2>2, <2>3 DEF Begin, JudgerTypeOK
  <2>6. JudgingHolds'
    BY <1>4 DEF Begin, JudgerTypeOK, JudgingHolds
  <2> QED
    BY <2>4, <2>5, <2>6
<1>5. ASSUME NEW j \in Judgers, Refuse(j)
       PROVE  BrokerTypeOK' /\ JudgerTypeOK' /\ JudgingHolds'
  <2>1. parked' \in [Judgers -> Seq(Requests)]
    BY HeadTailProperties, <1>5 DEF Refuse, JudgerTypeOK
  <2>2. buffer' \in [Judgers -> Seq(Requests)]
    BY HeadTailProperties, <1>5 DEF Refuse, JudgerTypeOK
  <2>3. BrokerTypeOK'
    BY <1>5 DEF Refuse, brokerVars, BrokerTypeOK
  <2>4. JudgerTypeOK'
    BY <1>5, <2>1, <2>2 DEF Refuse, JudgerTypeOK
  <2>5. JudgingHolds'
    BY <1>5 DEF Refuse, JudgerTypeOK, JudgingHolds
  <2> QED
    BY <2>3, <2>4, <2>5
<1>6. ASSUME NEW j \in Judgers, Ack(j)
       PROVE  BrokerTypeOK' /\ JudgerTypeOK' /\ JudgingHolds'
  <2>1. jstate' \in [Judgers -> {"down", "idle", "judging", "answered"}]
    BY <1>6 DEF Ack, JudgerTypeOK
  <2>2. current' \in [Judgers -> Seq(Requests)]
    BY <1>6 DEF Ack, JudgerTypeOK
  <2>3. BrokerTypeOK'
    BY <1>6 DEF Ack, brokerVars, BrokerTypeOK
  <2>4. JudgerTypeOK'
    BY <1>6, <2>1, <2>2 DEF Ack, JudgerTypeOK
  <2>5. JudgingHolds'
    BY <1>6 DEF Ack, JudgerTypeOK, JudgingHolds
  <2> QED
    BY <2>3, <2>4, <2>5
<1>7. ASSUME NEW j \in Judgers, Raise(j)
       PROVE  BrokerTypeOK' /\ JudgerTypeOK' /\ JudgingHolds'
  <2>1. parked' \in [Judgers -> Seq(Requests)]
    BY ConcatProperties, <1>7 DEF Raise, JudgerTypeOK
  <2>2. current' \in [Judgers -> Seq(Requests)]
    BY <1>7 DEF Raise, JudgerTypeOK
  <2>3. jstate' \in [Judgers -> {"down", "idle", "judging", "answered"}]
    BY <1>7 DEF Raise, JudgerTypeOK
  <2>4. faults' \in 0..MaxFaults
    BY FaultsAssumption, <1>7 DEF Raise, JudgerTypeOK, Fault, BrokerTypeOK
  <2>5. BrokerTypeOK'
    BY <1>7, <2>4 DEF Raise, BrokerTypeOK
  <2>6. JudgerTypeOK'
    BY <1>7, <2>1, <2>2, <2>3 DEF Raise, JudgerTypeOK
  <2>7. JudgingHolds'
    BY <1>7 DEF Raise, JudgerTypeOK, JudgingHolds
  <2> QED
    BY <2>5, <2>6, <2>7
<1>8. ASSUME NEW j \in Judgers, CrashJudger(j)
       PROVE  BrokerTypeOK' /\ JudgerTypeOK' /\ JudgingHolds'
  <2>1. jstate' \in [Judgers -> {"down", "idle", "judging", "answered"}]
    BY <1>8 DEF CrashJudger, JudgerTypeOK, GoDown
  <2>2. buffer' \in [Judgers -> Seq(Requests)]
    BY <1>8 DEF CrashJudger, JudgerTypeOK, GoDown
  <2>3. current' \in [Judgers -> Seq(Requests)]
    BY <1>8 DEF CrashJudger, JudgerTypeOK, GoDown
  <2>4. parked' \in [Judgers -> Seq(Requests)]
    BY <1>8 DEF CrashJudger, JudgerTypeOK, GoDown
  <2>5. redelivered' \in SUBSET Requests /\ outdated' \in [Judgers -> Seq(Requests)]
    BY RangeOfSeq, <1>8 DEF CrashJudger, JudgerTypeOK, GoDown
  <2>6. taskq' \in Seq(Requests)
    BY UnackedType, ConcatProperties, <1>8 DEF CrashJudger, JudgerTypeOK, BrokerTypeOK
  <2>7. faults' \in 0..MaxFaults
    BY FaultsAssumption, <1>8 DEF CrashJudger, JudgerTypeOK, Fault, BrokerTypeOK
  <2>8. BrokerTypeOK'
    BY <1>8, <2>6, <2>7 DEF CrashJudger, BrokerTypeOK
  <2>9. JudgerTypeOK'
    BY <1>8, <2>1, <2>2, <2>3, <2>4, <2>5 DEF CrashJudger, JudgerTypeOK, GoDown
  <2>10. JudgingHolds'
    BY <1>8 DEF CrashJudger, JudgerTypeOK, JudgingHolds, GoDown
  <2> QED
    BY <2>8, <2>9, <2>10
<1>9. ASSUME NEW j \in Judgers, NEW v \in Outcomes, Answer(j, v)
       PROVE  BrokerTypeOK' /\ JudgerTypeOK' /\ JudgingHolds'
  <2>1. [req |-> Head(current[j]), verdict |-> v] \in Response
    BY <1>9, JudgerAssumption, HeadTailProperties DEF Answer, JudgerTypeOK, JudgingHolds, Response
  <2>2. respq' \in Seq(Response)
    BY AppendProperties, <1>9, <2>1 DEF Answer, JudgerTypeOK, Respond, BrokerTypeOK
  <2>3. published' \subseteq Response
    BY <1>9, <2>1 DEF Answer, JudgerTypeOK, Respond, BrokerTypeOK
  <2>4. jstate' \in [Judgers -> {"down", "idle", "judging", "answered"}]
    BY <1>9 DEF Answer, JudgerTypeOK
  <2>5. BrokerTypeOK'
    BY <1>9, <2>2, <2>3 DEF Answer, BrokerTypeOK, Respond
  <2>6. JudgerTypeOK'
    BY <1>9, <2>4 DEF Answer, JudgerTypeOK
  <2>7. JudgingHolds'
    BY <1>9 DEF Answer, JudgerTypeOK, JudgingHolds
  <2> QED
    BY <2>5, <2>6, <2>7
<1>10. ASSUME NEW j \in Judgers, LoseConnection(j)
       PROVE  BrokerTypeOK' /\ JudgerTypeOK' /\ JudgingHolds'
  <2>1. jstate' \in [Judgers -> {"down", "idle", "judging", "answered"}]
    BY <1>10 DEF LoseConnection, JudgerTypeOK
  <2>2. /\ buffer' \in [Judgers -> Seq(Requests)]
        /\ current' \in [Judgers -> Seq(Requests)]
        /\ parked' \in [Judgers -> Seq(Requests)]
    BY <1>10 DEF LoseConnection, JudgerTypeOK
  <2>3. outdated' \in [Judgers -> Seq(Requests)]
    <3>1. (IF jstate[j] = "judging" THEN current[j] ELSE <<>>) \in Seq(Requests)
      BY DEF JudgerTypeOK
    <3>2. outdated[j] \o (IF jstate[j] = "judging" THEN current[j] ELSE <<>>) \o buffer[j]
            \in Seq(Requests)
      BY <3>1, ConcatProperties DEF JudgerTypeOK
    <3> QED
      BY <1>10, <3>2 DEF LoseConnection, JudgerTypeOK
  <2>4. redelivered' \in SUBSET Requests
    BY RangeOfSeq, <1>10 DEF LoseConnection, JudgerTypeOK
  <2>5. taskq' \in Seq(Requests)
    BY UnackedType, ConcatProperties, <1>10 DEF LoseConnection, BrokerTypeOK
  <2>6. faults' \in 0..MaxFaults
    BY FaultsAssumption, <1>10 DEF LoseConnection, Fault, BrokerTypeOK
  <2>7. BrokerTypeOK'
    BY <1>10, <2>5, <2>6 DEF LoseConnection, BrokerTypeOK
  <2>8. JudgerTypeOK'
    BY <2>1, <2>2, <2>3, <2>4 DEF JudgerTypeOK
  <2>9. JudgingHolds'
    BY <1>10 DEF LoseConnection, JudgerTypeOK, JudgingHolds
  <2> QED
    BY <2>7, <2>8, <2>9
<1>11. ASSUME NEW j \in Judgers, NEW v \in Outcomes, AnswerOutdated(j, v)
       PROVE  BrokerTypeOK' /\ JudgerTypeOK' /\ JudgingHolds'
  <2>1. Head(outdated[j]) \in Requests /\ Tail(outdated[j]) \in Seq(Requests)
    BY <1>11, HeadTailProperties DEF AnswerOutdated, JudgerTypeOK
  <2>2. [req |-> Head(outdated[j]), verdict |-> v] \in Response
    BY <2>1, JudgerAssumption DEF Response
  <2>3. respq' \in Seq(Response)
    BY AppendProperties, <1>11, <2>2 DEF AnswerOutdated, Respond, BrokerTypeOK
  <2>4. published' \subseteq Response
    BY <1>11, <2>2 DEF AnswerOutdated, Respond, BrokerTypeOK
  <2>5. outdated' \in [Judgers -> Seq(Requests)]
    BY <1>11, <2>1 DEF AnswerOutdated, JudgerTypeOK
  <2>6. BrokerTypeOK'
    BY <1>11, <2>3, <2>4 DEF AnswerOutdated, BrokerTypeOK
  <2>7. JudgerTypeOK' /\ JudgingHolds'
    BY <1>11, <2>5 DEF AnswerOutdated, JudgerTypeOK, JudgingHolds
  <2> QED
    BY <2>6, <2>7
<1>12. ASSUME NEW j \in Judgers, DropOutdated(j)
       PROVE  BrokerTypeOK' /\ JudgerTypeOK' /\ JudgingHolds'
  <2>1. outdated' \in [Judgers -> Seq(Requests)]
    BY <1>12, HeadTailProperties DEF DropOutdated, JudgerTypeOK
  <2>2. BrokerTypeOK'
    BY <1>12 DEF DropOutdated, brokerVars, BrokerTypeOK
  <2>3. JudgerTypeOK' /\ JudgingHolds'
    BY <1>12, <2>1 DEF DropOutdated, JudgerTypeOK, JudgingHolds
  <2> QED
    BY <2>2, <2>3
<1> QED
  BY <1>1, <1>2, <1>3, <1>4, <1>5, <1>6, <1>7, <1>8, <1>9, <1>10, <1>11, <1>12
     DEF JudgerNext, JudgerStep

LEMMA PushKeepsTypes ==
  ASSUME TypeInv, Push, UNCHANGED <<apiVars, judgerVars>>
  PROVE  TypeInv'
<1> USE DEF TypeInv, TypeOK
<1>1. ApiTypeOK' /\ JudgerTypeOK' /\ JudgingHolds'
  BY DEF ApiTypeOK, apiVars, JudgerTypeOK, JudgingHolds, judgerVars
<1>2. Head(consumers) \in Requests /\ Tail(consumers) \in Seq(Requests)
  BY HeadTailProperties DEF Push, BrokerTypeOK
<1>3. Head(respq) \in Response /\ Tail(respq) \in Seq(Response)
  BY HeadTailProperties DEF Push, BrokerTypeOK
<1>4. inbox' \in [Requests -> Seq(Response)]
  BY <1>2, <1>3, AppendProperties DEF Push, BrokerTypeOK
<1>5. consumers' \in Seq(Requests)
  BY <1>2, AppendProperties DEF Push
<1> QED
  BY <1>1, <1>3, <1>4, <1>5 DEF Push, BrokerTypeOK

\* Every variable of Koj keeps its type, and a judger that judges has a task, for
\* any number of requests, users and judgers, any prefetch and any number of
\* faults (all of mq.py, views.py:56-104 and judger.rb:92-213).
THEOREM TypeCorrect == Spec => []TypeInv
<1>1. Init => TypeInv
  BY InitType
<1>2. TypeInv /\ [Next]_vars => TypeInv'
  <2> SUFFICES ASSUME TypeInv, [Next]_vars PROVE TypeInv'
    OBVIOUS
  <2>1. CASE ApiNext /\ UNCHANGED judgerVars
    BY <2>1, ApiKeepsTypes
  <2>2. CASE JudgerNext /\ UNCHANGED apiVars
    BY <2>2, JudgerKeepsTypes
  <2>3. CASE Push /\ UNCHANGED <<apiVars, judgerVars>>
    BY <2>3, PushKeepsTypes
  <2>4. CASE UNCHANGED vars
    BY <2>4 DEF vars, brokerVars, apiVars, judgerVars, TypeInv, TypeOK, BrokerTypeOK,
      ApiTypeOK, JudgerTypeOK, JudgingHolds
  <2> QED
    BY <2>1, <2>2, <2>3, <2>4 DEF Next
<1> QED
  BY <1>1, <1>2, PTL DEF Spec

\* The part of it that the runs check.
COROLLARY TypeOKHolds == Spec => []TypeOK
BY TypeCorrect, PTL DEF TypeInv

----------------------------- (* the points *) -----------------------------
\* A charge keeps points within the cap, and so does a reward; the priority of a
\* message exceeds them by no more than the bonus.
LEMMA ChargeBounded ==
  ASSUME NEW p \in Nat, p <= MaxPriority, NEW c \in BOOLEAN
  PROVE  Charge(p, c) <= MaxPriority
BY DEF Charge, Floor, SubmitCost, MaxPriority

LEMMA RewardBounded ==
  ASSUME NEW p \in Nat, NEW v
  PROVE  Reward(p, v) <= MaxPriority
<1>1. Points(v) \in Nat
  BY DEF Points
<1> QED
  BY <1>1 DEF Reward, Cap, MaxPriority

LEMMA WeightBounded ==
  ASSUME NEW p \in Nat, p <= MaxPriority, NEW c \in BOOLEAN
  PROVE  PublishPriority(p, c) <= MaxPriority + ContestBonus
BY DEF PublishPriority, ContestBonus, MaxPriority

\* Only the database calls and the publication touch the points or a copy of them.
LEMMA PointsFrame ==
  ASSUME TypeInv, Next,
         \A r \in Requests : /\ ~LoadUser(r) /\ ~SaveCharge(r) /\ ~PublishTask(r)
                             /\ ~LoadOwner(r) /\ ~SaveReward(r),
         \A u \in Users : /\ ~EditLoad(u) /\ ~EditSave(u)
                          /\ \A p \in Assigned : ~AssignPriority(u, p),
         ~ApiCrash
  PROVE  UNCHANGED <<priority, snap, weight, editing, raised>>
<1>1. CASE ApiNext
  BY <1>1 DEF ApiNext, View, Client, Callback, Reject, CreateSubmit, Connect, PriorityOverflow,
    Poll, DropForeign, StoreVerdict, KeepWaiting, Close, Fail, DropConnection
<1>2. CASE UNCHANGED apiVars
  BY <1>2 DEF apiVars
<1> QED
  BY <1>1, <1>2 DEF Next

LEMMA PriorityBoundedStep ==
  ASSUME TypeInv, PriorityBounded, [Next]_vars
  PROVE  PriorityBounded'
<1> USE DEF TypeInv, TypeOK
<1>1. ASSUME NEW r \in Requests, LoadUser(r) \/ LoadOwner(r)
      PROVE  PriorityBounded'
  BY <1>1, ApiAssumption DEF LoadUser, LoadOwner, PriorityBounded, ApiTypeOK
<1>2. ASSUME NEW r \in Requests, SaveCharge(r)
      PROVE  PriorityBounded'
  <2>1. snap[r] \in Nat /\ (r \in Contest) \in BOOLEAN
    BY DEF ApiTypeOK
  <2>2. Owner[r] \notin raised => Charge(snap[r], r \in Contest) <= MaxPriority
    BY <2>1, ChargeBounded DEF PriorityBounded
  <2> QED
    BY <1>2, <2>2, ApiAssumption DEF SaveCharge, PriorityBounded, ApiTypeOK
<1>3. ASSUME NEW r \in Requests, SaveReward(r)
      PROVE  PriorityBounded'
  BY <1>3, RewardBounded, ApiAssumption DEF SaveReward, PriorityBounded, ApiTypeOK
<1>4. ASSUME NEW r \in Requests, PublishTask(r)
      PROVE  PriorityBounded'
  <2>1. snap[r] \in Nat /\ (r \in Contest) \in BOOLEAN
    BY DEF ApiTypeOK
  <2>2. Owner[r] \notin raised
          => PublishPriority(snap[r], r \in Contest) <= MaxPriority + ContestBonus
    BY <2>1, WeightBounded DEF PriorityBounded
  <2> QED
    BY <1>4, <2>2 DEF PublishTask, PriorityBounded, ApiTypeOK
<1>5. ASSUME NEW u \in Users, EditLoad(u)
      PROVE  PriorityBounded'
  BY <1>5 DEF EditLoad, PriorityBounded, ApiTypeOK
<1>6. ASSUME NEW u \in Users, EditSave(u)
      PROVE  PriorityBounded'
  BY <1>6 DEF EditSave, PriorityBounded, ApiTypeOK, NoEdit, MaxPriority
<1>7. CASE ApiCrash
  BY <1>7 DEF ApiCrash, PriorityBounded, ApiTypeOK, NoEdit, MaxPriority
<1>8. CASE UNCHANGED <<priority, snap, weight, editing, raised>>
  BY <1>8 DEF PriorityBounded
<1>9. CASE UNCHANGED vars
  BY <1>8, <1>9 DEF vars, apiVars
<1>10. ASSUME NEW u \in Users, NEW p \in Assigned, AssignPriority(u, p)
       PROVE  PriorityBounded'
  <2>1. UNCHANGED <<snap, weight>> /\ raised \subseteq raised'
    BY <1>10 DEF AssignPriority
  <2>2. ASSUME NEW w \in Users \ raised'
        PROVE  priority'[w] <= MaxPriority /\ editing'[w] <= MaxPriority
    <3>1. priority[w] <= MaxPriority /\ editing[w] <= MaxPriority
      BY <2>1, <2>2 DEF PriorityBounded
    <3>2. w = u => p <= MaxPriority
      BY <1>10, <2>2, ApiAssumption DEF AssignPriority, MaxPriority
    <3> QED
      BY <1>10, <3>1, <3>2 DEF AssignPriority, ApiTypeOK, NoEdit, MaxPriority
  <2> QED
    BY <2>1, <2>2 DEF PriorityBounded
<1> QED
  BY <1>1, <1>2, <1>3, <1>4, <1>5, <1>6, <1>7, <1>8, <1>9, <1>10, PointsFrame

\* No interleaving of charges, rewards and updates of a user, and no fault, takes the
\* points of a user or the priority of a message out of bounds, as long as no client
\* has written a priority above the cap into that row itself (views.py:69-76,
\* mq.py:39-51).
THEOREM PriorityBoundedHolds == Spec => []PriorityBounded
<1>1. Init => PriorityBounded
  BY ApiAssumption DEF Init, ApiInit, PriorityBounded, NoEdit, MaxPriority, ContestBonus
<1>2. TypeInv /\ PriorityBounded /\ [Next]_vars => PriorityBounded'
  BY PriorityBoundedStep
<1> QED
  BY <1>1, <1>2, TypeCorrect, PTL DEF Spec

---------------------------- (* the ledger *) ------------------------------
\* Whoever has no more than one window open on its row at any time: the row is what the
\* ledger says, and so is every copy that will be written back.
Exact(u) ==
  /\ priority[u] = ledger[u]
  /\ editing[u] # NoEdit => editing[u] = priority[u]
  /\ \A r \in Holding(u) : snap[r] = priority[u]
  /\ ~Overlap(u)

LedgerInv == LedgerTypeOK /\ \A u \in Users \ raced : Exact(u)

LEMMA ChargeType ==
  ASSUME NEW p \in Nat, NEW c \in BOOLEAN
  PROVE  Charge(p, c) \in Nat
BY DEF Charge, Floor, SubmitCost

LEMMA RewardType ==
  ASSUME NEW p \in Nat, NEW v
  PROVE  Reward(p, v) \in 0..MaxPriority
<1>1. Points(v) \in Nat
  BY DEF Points
<1> QED
  BY <1>1 DEF Reward, Cap, MaxPriority

\* Only the two saves and an assignment are booked.
LEMMA NotBooked ==
  ASSUME Book, \A r \in Requests : ~Charged(r) /\ ~Rewarded(r), \A u \in Users : ~Reassigned(u)
  PROVE  ledger' = ledger
BY DEF Book, Reassigned

\* An assignment ends an update of the row, and nothing else does it with the broker
\* left alone.
LEMMA NotReassigned ==
  ASSUME TypeInv, NEW u \in Users,
         editing'[u] = editing[u] \/ editing'[u] # NoEdit \/ ApiCrash
  PROVE  ~Reassigned(u)
<1> SUFFICES ASSUME NEW p \in Assigned, AssignPriority(u, p) PROVE FALSE
  BY DEF Reassigned
<1>1. editing[u] # NoEdit /\ editing'[u] = NoEdit /\ faults' = faults
  BY DEF AssignPriority, brokerVars, TypeInv, TypeOK, ApiTypeOK
<1>2. ApiCrash => faults' # faults
  BY FaultsAssumption DEF ApiCrash, Fault, TypeInv, TypeOK, BrokerTypeOK
<1> QED
  BY <1>1, <1>2

\* A step that opens no window and touches neither the rows nor their copies.
LEMMA LedgerFrame ==
  ASSUME TypeInv, LedgerInv, LedgerNext, UNCHANGED <<priority, snap, raised>>,
         UNCHANGED editing \/ (ApiCrash /\ \A u \in Users : editing'[u] = NoEdit),
         \A r \in Requests : pc'[r] \in Window => pc[r] \in Window,
         \A r \in Requests : ~Charged(r) /\ ~Rewarded(r)
  PROVE  LedgerInv'
<1>1. ledger' = ledger
  BY NotBooked, NotReassigned DEF LedgerNext
<1>2. LedgerTypeOK'
  BY <1>1 DEF LedgerInv, LedgerTypeOK, LedgerNext
<1>3. ASSUME NEW u \in Users \ raced' PROVE Exact(u)'
  <2>1. u \notin raced /\ ~Overlap(u)'
    BY <1>3 DEF LedgerNext
  <2>2. Exact(u)
    BY <2>1 DEF LedgerInv
  <2>3. Holding(u)' \subseteq Holding(u)
    BY DEF Holding
  <2> QED
    BY <1>1, <2>1, <2>2, <2>3 DEF Exact
<1> QED
  BY <1>2, <1>3 DEF LedgerInv

\* A row is read: the copy is the row.
LEMMA LedgerLoad ==
  ASSUME TypeInv, LedgerInv, LedgerNext, NEW r \in Requests, LoadUser(r) \/ LoadOwner(r)
  PROVE  LedgerInv'
<1> USE DEF TypeInv, TypeOK
<1>1. /\ UNCHANGED <<priority, editing, raised>>
      /\ snap' = [snap EXCEPT ![r] = priority[Owner[r]]]
      /\ \A q \in Requests \ {r} : pc'[q] = pc[q]
      /\ pc[r] \in {"idle", "stored"}
  BY DEF LoadUser, LoadOwner, Move, ApiTypeOK
<1>2. \A q \in Requests : ~Charged(q) /\ ~Rewarded(q)
  BY <1>1 DEF Charged, Rewarded
<1>3. ledger' = ledger
  BY <1>1, <1>2, NotBooked, NotReassigned DEF LedgerNext
<1>4. LedgerTypeOK'
  BY <1>1, <1>3 DEF LedgerInv, LedgerTypeOK, LedgerNext
<1>5. ASSUME NEW u \in Users \ raced' PROVE Exact(u)'
  <2>1. u \notin raced /\ ~Overlap(u)'
    BY <1>5 DEF LedgerNext
  <2>2. Exact(u)
    BY <2>1 DEF LedgerInv
  <2>3. ASSUME NEW q \in Holding(u)' PROVE snap'[q] = priority'[u]
    <3>1. CASE q = r
      BY <1>1, <2>3, <3>1 DEF Holding, ApiTypeOK
    <3>2. CASE q # r
      BY <1>1, <2>2, <2>3, <3>2 DEF Holding, Exact, ApiTypeOK
    <3> QED
      BY <3>1, <3>2
  <2> QED
    BY <1>1, <1>3, <2>1, <2>2, <2>3 DEF Exact
<1> QED
  BY <1>4, <1>5 DEF LedgerInv

\* A copy is written back with its charge or reward: it was the row, and no other is open.
LEMMA LedgerSave ==
  ASSUME TypeInv, LedgerInv, LedgerNext, NEW r \in Requests, NEW p, NEW l,
         UNCHANGED <<snap, editing, raised>>,
         priority' = [priority EXCEPT ![Owner[r]] = p],
         Enter(Owner[r], l),
         l \in Nat, Owner[r] \notin raised => l <= MaxPriority,
         snap[r] = ledger[Owner[r]] => p = l,
         pc[r] \in Window, pc'[r] \notin Window, \A q \in Requests \ {r} : pc'[q] = pc[q]
  PROVE  LedgerInv'
<1> USE DEF TypeInv, TypeOK
<1>1. Owner[r] \in Users
  BY ApiAssumption
<1>2. LedgerTypeOK'
  BY <1>1 DEF LedgerInv, LedgerTypeOK, LedgerNext, Enter, MaxPriority
<1>3. ASSUME NEW u \in Users \ raced' PROVE Exact(u)'
  <2>1. u \notin raced /\ ~Overlap(u)'
    BY <1>3 DEF LedgerNext
  <2>2. Exact(u)
    BY <2>1 DEF LedgerInv
  <2>3. Holding(u)' = Holding(u) \ {r}
    BY DEF Holding
  <2>4. CASE u # Owner[r]
    BY <2>1, <2>2, <2>3, <2>4 DEF Exact, ApiTypeOK, LedgerInv, LedgerTypeOK, Enter
  <2>5. CASE u = Owner[r]
    <3>1. r \in Holding(u)
      BY <2>5 DEF Holding
    <3>2. editing[u] = NoEdit /\ Holding(u) = {r}
      BY <2>2, <3>1 DEF Exact, Overlap
    <3>3. p = l
      BY <2>2, <2>5, <3>1 DEF Exact
    <3> QED
      BY <2>1, <2>3, <2>5, <3>2, <3>3, <1>1 DEF Exact, ApiTypeOK, LedgerInv, LedgerTypeOK, Enter
  <2> QED
    BY <2>4, <2>5
<1> QED
  BY <1>2, <1>3 DEF LedgerInv

LEMMA LedgerCharge ==
  ASSUME TypeInv, LedgerInv, LedgerNext, NEW r \in Requests, SaveCharge(r)
  PROVE  LedgerInv'
<1> USE DEF TypeInv, TypeOK
<1> DEFINE paid(x) == Charge(x, r \in Contest)
<1>1. /\ UNCHANGED <<snap, editing, raised>>
      /\ priority' = [priority EXCEPT ![Owner[r]] = paid(snap[r])]
      /\ pc[r] = "loaded" /\ pc'[r] = "charged"
      /\ \A q \in Requests \ {r} : pc'[q] = pc[q]
  BY DEF SaveCharge, Move, ApiTypeOK
<1>2. Enter(Owner[r], paid(ledger[Owner[r]]))
  BY <1>1, NotReassigned DEF LedgerNext, Book, Charged, Rewarded, Reassigned
<1>3. /\ paid(ledger[Owner[r]]) \in Nat
      /\ Owner[r] \notin raised => paid(ledger[Owner[r]]) <= MaxPriority
  <2>1. /\ ledger[Owner[r]] \in Nat /\ (r \in Contest) \in BOOLEAN
        /\ Owner[r] \notin raised => ledger[Owner[r]] <= MaxPriority
    BY ApiAssumption DEF LedgerInv, LedgerTypeOK
  <2> QED
    BY <2>1, ChargeType, ChargeBounded
<1>4. snap[r] = ledger[Owner[r]] => paid(snap[r]) = paid(ledger[Owner[r]])
  OBVIOUS
<1> HIDE DEF paid
<1> QED
  BY <1>1, <1>2, <1>3, <1>4, LedgerSave DEF Window

LEMMA LedgerReward ==
  ASSUME TypeInv, LedgerInv, LedgerNext, NEW r \in Requests, SaveReward(r)
  PROVE  LedgerInv'
<1> USE DEF TypeInv, TypeOK
<1> DEFINE paid(x) == Reward(x, result[r])
<1>1. /\ UNCHANGED <<snap, editing, raised>>
      /\ priority' = [priority EXCEPT ![Owner[r]] = paid(snap[r])]
      /\ pc[r] = "rewarding" /\ pc'[r] = "dispatching"
      /\ \A q \in Requests \ {r} : pc'[q] = pc[q]
  BY DEF SaveReward, Move, ApiTypeOK
<1>2. Enter(Owner[r], paid(ledger[Owner[r]]))
  BY <1>1, NotReassigned DEF LedgerNext, Book, Charged, Rewarded, Reassigned
<1>3. paid(ledger[Owner[r]]) \in Nat /\ paid(ledger[Owner[r]]) <= MaxPriority
  <2>1. ledger[Owner[r]] \in Nat
    BY ApiAssumption DEF LedgerInv, LedgerTypeOK
  <2> QED
    BY <2>1, RewardType DEF MaxPriority
<1>4. snap[r] = ledger[Owner[r]] => paid(snap[r]) = paid(ledger[Owner[r]])
  OBVIOUS
<1> HIDE DEF paid
<1> QED
  BY <1>1, <1>2, <1>3, <1>4, LedgerSave DEF Window

\* An update that leaves the priority as it is reads the row, and writes back what it
\* read.
LEMMA LedgerEdit ==
  ASSUME TypeInv, LedgerInv, LedgerNext, NEW u \in Users, EditLoad(u) \/ EditSave(u),
         \A w \in Users : ~Reassigned(w)
  PROVE  LedgerInv'
<1> USE DEF TypeInv, TypeOK
<1>1. UNCHANGED <<pc, snap, raised>>
  BY DEF EditLoad, EditSave
<1>2. ledger' = ledger
  BY <1>1, NotBooked DEF Charged, Rewarded, LedgerNext
<1>3. LedgerTypeOK'
  BY <1>1, <1>2 DEF LedgerInv, LedgerTypeOK, LedgerNext
<1>4. ASSUME NEW w \in Users \ raced' PROVE Exact(w)'
  <2>1. w \notin raced /\ ~Overlap(w)'
    BY <1>4 DEF LedgerNext
  <2>2. Exact(w)
    BY <2>1 DEF LedgerInv
  <2>3. Holding(w)' = Holding(w)
    BY <1>1 DEF Holding
  <2>4. priority'[w] = priority[w]
    BY <2>2 DEF EditLoad, EditSave, Exact, ApiTypeOK
  <2>5. editing'[w] # NoEdit => editing'[w] = priority[w]
    BY <2>2 DEF EditLoad, EditSave, Exact, ApiTypeOK
  <2> QED
    BY <1>1, <1>2, <2>1, <2>2, <2>3, <2>4, <2>5 DEF Exact
<1> QED
  BY <1>3, <1>4 DEF LedgerInv

\* A priority that a client writes is booked as it is written.
LEMMA LedgerAssign ==
  ASSUME TypeInv, LedgerInv, LedgerNext, NEW u \in Users, NEW p \in Assigned, AssignPriority(u, p)
  PROVE  LedgerInv'
<1> USE DEF TypeInv, TypeOK
<1>1. /\ UNCHANGED <<pc, snap>> /\ p \in Nat
      /\ editing[u] # NoEdit /\ editing' = [editing EXCEPT ![u] = NoEdit]
      /\ priority' = [priority EXCEPT ![u] = p]
      /\ raised \subseteq raised' /\ (u \notin raised' => p <= MaxPriority)
  BY ApiAssumption DEF AssignPriority, MaxPriority
<1>2. ASSUME NEW w \in Users, NEW q \in Assigned, AssignPriority(w, q)
      PROVE  w = u /\ q = p
  BY <1>1, <1>2 DEF AssignPriority, ApiTypeOK
<1>3. Enter(u, p)
  BY <1>1, <1>2 DEF LedgerNext, Book, Charged, Rewarded, Reassigned
<1>4. LedgerTypeOK'
  BY <1>1, <1>3 DEF LedgerInv, LedgerTypeOK, LedgerNext, Enter, MaxPriority
<1>5. ASSUME NEW w \in Users \ raced' PROVE Exact(w)'
  <2>1. w \notin raced /\ ~Overlap(w)'
    BY <1>5 DEF LedgerNext
  <2>2. Exact(w)
    BY <2>1 DEF LedgerInv
  <2>3. Holding(w)' = Holding(w)
    BY <1>1 DEF Holding
  <2>4. CASE w # u
    BY <1>1, <1>3, <2>1, <2>2, <2>3, <2>4 DEF Exact, Enter, ApiTypeOK, LedgerInv, LedgerTypeOK
  <2>5. CASE w = u
    <3>1. Holding(w) = {}
      BY <1>1, <2>2, <2>5 DEF Exact, Overlap
    <3> QED
      BY <1>1, <1>3, <2>1, <2>3, <2>5, <3>1 DEF Exact, Enter, ApiTypeOK, LedgerInv, LedgerTypeOK
  <2> QED
    BY <2>4, <2>5
<1> QED
  BY <1>4, <1>5 DEF LedgerInv

LEMMA LedgerStep ==
  ASSUME TypeInv, LedgerInv, [LedgerNext]_ledgerVars
  PROVE  LedgerInv'
<1> USE DEF TypeInv, TypeOK
<1>1. CASE UNCHANGED ledgerVars
  BY <1>1 DEF ledgerVars, vars, apiVars, LedgerInv, LedgerTypeOK, Exact, Holding, Overlap
<1>2. CASE LedgerNext /\ UNCHANGED apiVars
  BY <1>2, LedgerFrame DEF apiVars, Charged, Rewarded
<1>3. ASSUME LedgerNext, NEW r \in Requests,
             \/ Reject(r) \/ CreateSubmit(r) \/ Connect(r) \/ PublishTask(r)
             \/ PriorityOverflow(r) \/ Poll(r) \/ DropForeign(r) \/ StoreVerdict(r) \/ KeepWaiting(r) \/ Close(r)
             \/ Fail(r) \/ DropConnection(r)
      PROVE  LedgerInv'
  <2>1. UNCHANGED <<priority, snap, editing, raised>>
    BY <1>3 DEF Reject, CreateSubmit, Connect, PublishTask, PriorityOverflow, Poll, DropForeign, StoreVerdict,
      KeepWaiting, Close, Fail, DropConnection
  <2>2. \A q \in Requests : q # r => pc'[q] = pc[q]
    BY <1>3 DEF Reject, CreateSubmit, Connect, PublishTask, PriorityOverflow, Poll, DropForeign, StoreVerdict,
      KeepWaiting, Close, Fail, DropConnection, Move, ApiTypeOK
  <2>3. pc'[r] = pc[r] \/ pc'[r] = "failed" \/ (pc[r] \notin Window /\ pc'[r] \notin Window)
    BY <1>3 DEF Reject, CreateSubmit, Connect, PublishTask, PriorityOverflow, Poll, DropForeign, StoreVerdict,
      KeepWaiting, Close, Fail, DropConnection, Move, ApiTypeOK, Window
  <2>4. \A q \in Requests : pc'[q] \in Window => pc[q] \in Window
    BY <2>2, <2>3 DEF Window
  <2>5. \A q \in Requests : ~Charged(q) /\ ~Rewarded(q)
    BY <2>2, <2>3 DEF Charged, Rewarded, Window
  <2> QED
    BY <1>3, <2>1, <2>4, <2>5, LedgerFrame
<1>4. CASE LedgerNext /\ ApiCrash
  BY <1>4, LedgerFrame DEF ApiCrash, ApiTypeOK, Window, Final, Charged, Rewarded
<1> QED
  BY <1>1, <1>2, <1>3, <1>4, LedgerLoad, LedgerCharge, LedgerReward, LedgerEdit, LedgerAssign
     DEF LedgerNext, Next, ApiNext, View, Client, Callback, Reassigned

LEMMA LedgerHolds == LedgerSpec => []LedgerInv
<1>1. LedgerInit => LedgerInv
  <2> SUFFICES ASSUME LedgerInit PROVE LedgerInv
    OBVIOUS
  <2>1. LedgerTypeOK
    BY ApiAssumption DEF LedgerInit, Init, ApiInit, LedgerTypeOK, MaxPriority
  <2>2. \A u \in Users : Exact(u)
    BY DEF LedgerInit, Init, ApiInit, Exact, Holding, Overlap, Window
  <2> QED
    BY <2>1, <2>2 DEF LedgerInv
<1>2. TypeInv /\ LedgerInv /\ [LedgerNext]_ledgerVars => LedgerInv'
  BY LedgerStep
<1>3. LedgerInit => Init
  BY DEF LedgerInit
<1>4. [LedgerNext]_ledgerVars => [Next]_vars
  BY DEF LedgerNext, ledgerVars
<1>5. LedgerSpec => Spec
  BY <1>3, <1>4, PTL DEF LedgerSpec, Spec
<1> QED
  BY <1>1, <1>2, <1>5, TypeCorrect, PTL DEF LedgerSpec

\* The ledger keeps its type: points of charges and rewards done one at a time stay
\* between zero and, where no client has written more, the cap (views.py:69-76,
\* mq.py:39-51).
THEOREM LedgerTypeOKHolds == LedgerSpec => []LedgerTypeOK
BY LedgerHolds, PTL DEF LedgerInv

\* No charge and no reward of a user whose windows never overlapped is lost or applied
\* twice, for any number of users, submissions, judgers and faults (views.py:58-76,
\* mq.py:39-51).
THEOREM SerialUsersExactHolds == LedgerSpec => []SerialUsersExact
<1>1. LedgerInv => SerialUsersExact
  BY DEF LedgerInv, Exact, SerialUsersExact
<1> QED
  BY <1>1, LedgerHolds, PTL

---------------------- (* where verdicts come from *) ----------------------
\* Every response in flight is one that was published, and so is every stored
\* verdict.
ProvInv ==
  /\ respq \in Seq(published)
  /\ inbox \in [Requests -> Seq(published)]
  /\ batch \in [Requests -> Seq(published)]
  /\ VerdictProvenance

LEMMA ProvFrame ==
  ASSUME ProvInv, UNCHANGED <<respq, published, inbox, batch, result>>
  PROVE  ProvInv'
BY DEF ProvInv, VerdictProvenance

\* The steps of the API that handle a response or a row.
LEMMA ProvApiStep ==
  ASSUME TypeInv, ProvInv, ApiNext
  PROVE  ProvInv'
<1> USE DEF TypeInv, TypeOK
<1>1. ASSUME NEW r \in Requests,
             \/ Reject(r) \/ LoadUser(r) \/ SaveCharge(r) \/ Connect(r) \/ PublishTask(r)
             \/ PriorityOverflow(r) \/ LoadOwner(r) \/ SaveReward(r) \/ KeepWaiting(r)
      PROVE  ProvInv'
  <2>1. UNCHANGED <<respq, published, inbox, batch, result>>
    BY <1>1 DEF Reject, LoadUser, SaveCharge, Connect, PublishTask, PriorityOverflow, LoadOwner,
      SaveReward, KeepWaiting, brokerVars
  <2> QED
    BY <2>1, ProvFrame
<1>2. ASSUME NEW r \in Requests, CreateSubmit(r)
      PROVE  ProvInv'
  <2>1. UNCHANGED <<respq, published, inbox, batch>>
    BY <1>2 DEF CreateSubmit, brokerVars
  <2>2. ASSUME NEW q \in Requests, result'[q] \in Verdicts
        PROVE  result'[q] = result[q]
    BY <1>2, <2>2 DEF CreateSubmit, ApiTypeOK, Verdicts
  <2> QED
    BY <2>1, <2>2 DEF ProvInv, VerdictProvenance
<1>3. ASSUME NEW r \in Requests, Poll(r)
      PROVE  ProvInv'
  BY <1>3 DEF Poll, ProvInv, VerdictProvenance
<1>4. ASSUME NEW r \in Requests, batch[r] # <<>>
      PROVE  Head(batch[r]) \in published /\ Tail(batch[r]) \in Seq(published)
  BY <1>4, HeadTailProperties DEF ProvInv
<1>5. ASSUME NEW r \in Requests, DropForeign(r)
      PROVE  ProvInv'
  BY <1>4, <1>5 DEF DropForeign, brokerVars, ProvInv, VerdictProvenance
<1>6. ASSUME NEW r \in Requests, StoreVerdict(r)
      PROVE  ProvInv'
  <2>1. UNCHANGED <<respq, published, inbox>>
    BY <1>6 DEF StoreVerdict, brokerVars
  <2>2. batch' \in [Requests -> Seq(published)]
    BY <1>4, <1>6 DEF StoreVerdict, ProvInv
  <2>3. Head(batch[r]) \in published /\ Head(batch[r]).req = r
    BY <1>4, <1>6 DEF StoreVerdict
  <2>4. Head(batch[r]) = [req |-> r, verdict |-> Head(batch[r]).verdict]
    BY <2>3 DEF BrokerTypeOK, Response
  <2>5. result' = [result EXCEPT ![r] = Head(batch[r]).verdict]
    BY <1>6 DEF StoreVerdict
  <2>6. VerdictProvenance'
    BY <2>1, <2>3, <2>4, <2>5 DEF ProvInv, VerdictProvenance, ApiTypeOK
  <2> QED
    BY <2>1, <2>2, <2>6 DEF ProvInv
<1>7. ASSUME NEW r \in Requests, Close(r) \/ DropConnection(r)
      PROVE  ProvInv'
  <2>1. UNCHANGED <<respq, published, batch, result>>
    BY <1>7 DEF Close, DropConnection, Disconnect
  <2>2. inbox' = [inbox EXCEPT ![r] = <<>>]
    BY <1>7 DEF Close, DropConnection, Disconnect
  <2>3. inbox' \in [Requests -> Seq(published)]
    BY <2>2, EmptySeq DEF ProvInv
  <2> QED
    BY <2>1, <2>3 DEF ProvInv, VerdictProvenance
<1>8. ASSUME NEW r \in Requests, Fail(r)
      PROVE  ProvInv'
  BY <1>8 DEF Fail, ProvInv, VerdictProvenance
<1>9. ASSUME NEW u \in Users, EditLoad(u) \/ EditSave(u) \/ \E p \in Assigned : AssignPriority(u, p)
      PROVE  ProvInv'
  BY <1>9, ProvFrame DEF EditLoad, EditSave, AssignPriority, brokerVars
<1>10. CASE ApiCrash
  BY <1>10 DEF ApiCrash, ProvInv, VerdictProvenance
<1> QED
  BY <1>1, <1>2, <1>3, <1>5, <1>6, <1>7, <1>8, <1>9, <1>10
     DEF ApiNext, View, Client, Callback

\* A further response joins what has been published.
LEMMA ProvRespond ==
  ASSUME ProvInv, UNCHANGED <<inbox, batch, result>>, NEW m, Respond(m)
  PROVE  ProvInv'
<1>1. published' = published \cup {m} /\ respq' = Append(respq, m)
  BY DEF Respond
<1>2. ASSUME NEW s \in Seq(published)
      PROVE  s \in Seq(published')
  BY <1>1, SeqMonotonic
<1>3. respq' \in Seq(published')
  BY <1>1, <1>2, AppendProperties DEF ProvInv
<1>4. inbox' \in [Requests -> Seq(published')] /\ batch' \in [Requests -> Seq(published')]
  BY <1>2 DEF ProvInv
<1>5. VerdictProvenance'
  BY <1>1 DEF ProvInv, VerdictProvenance
<1> QED
  BY <1>3, <1>4, <1>5 DEF ProvInv

\* The steps of a judger: only an answer adds a response.
LEMMA ProvJudgerStep ==
  ASSUME TypeInv, ProvInv, JudgerNext, UNCHANGED apiVars
  PROVE  ProvInv'
<1>1. ASSUME NEW j \in Judgers,
             \/ StartJudger(j) \/ Deliver(j) \/ Begin(j) \/ Refuse(j) \/ Ack(j)
             \/ Raise(j) \/ CrashJudger(j) \/ LoseConnection(j) \/ DropOutdated(j)
      PROVE  ProvInv'
  <2>1. UNCHANGED <<respq, published, inbox>>
    BY <1>1 DEF StartJudger, Deliver, Begin, Refuse, Ack, Raise, CrashJudger, LoseConnection,
      DropOutdated, brokerVars
  <2> QED
    BY <2>1, ProvFrame DEF apiVars
<1>2. ASSUME NEW j \in Judgers, NEW v \in Outcomes, Answer(j, v) \/ AnswerOutdated(j, v)
      PROVE  ProvInv'
  BY <1>2, ProvRespond DEF Answer, AnswerOutdated, apiVars
<1> QED
  BY <1>1, <1>2 DEF JudgerNext, JudgerStep

LEMMA ProvPushStep ==
  ASSUME TypeInv, ProvInv, Push, UNCHANGED apiVars
  PROVE  ProvInv'
<1>1. Head(respq) \in published /\ Tail(respq) \in Seq(published)
  BY HeadTailProperties DEF Push, ProvInv
<1>2. inbox' \in [Requests -> Seq(published)]
  BY <1>1, AppendProperties DEF Push, ProvInv
<1> QED
  BY <1>1, <1>2 DEF Push, ProvInv, VerdictProvenance, apiVars

LEMMA ProvHolds == Spec => []ProvInv
<1>1. Init => ProvInv
  BY DEF Init, BrokerInit, ApiInit, ProvInv, VerdictProvenance, Verdicts
<1>2. TypeInv /\ ProvInv /\ [Next]_vars => ProvInv'
  BY ProvApiStep, ProvJudgerStep, ProvPushStep, ProvFrame
     DEF Next, vars, brokerVars, apiVars
<1> QED
  BY <1>1, <1>2, TypeCorrect, PTL DEF Spec

\* A verdict in the database was published by a judger for that very submission,
\* under any routing of the responses, any crash and any redelivery
\* (mq.py:23-38).
THEOREM VerdictProvenanceHolds == Spec => []VerdictProvenance
BY ProvHolds, PTL DEF ProvInv
=============================================================================
