------------------------ MODULE JudgerServiceProofs ------------------------
(***************************************************************************)
(* What the prefetch window does to a lone judger, for any number of       *)
(* tasks, any prefetch, any verdicts and any number of crashes: once       *)
(* unsupported tasks fill it, nothing is answered any more.                *)
(***************************************************************************)
EXTENDS JudgerService, SequenceTheorems, TLAPS

\* The tasks that a judger has or will be given next, oldest first: what it holds goes back in
\* front of the queue when it ends.
Line(j) == Unacked(j) \o taskq

\* A judger in state js holds the deliveries p, c and b, parked, current and waiting: one is
\* current while it judges, none else, it has none when it is down, and never more than the
\* window takes.
Fits(js, b, c, p) ==
  /\ js \in {"down", "idle", "judging", "answered"}
  /\ b \in Seq(Requests) /\ c \in Seq(Requests) /\ p \in Seq(Requests)
  /\ js = "down" => p = <<>> /\ b = <<>>
  /\ js \in {"judging", "answered"} <=> c # <<>>
  /\ Len(c) <= 1 /\ Len(p) + Len(c) + Len(b) <= Prefetch

Window ==
  /\ JudgerTypeOK /\ taskq \in Seq(Requests)
  /\ \A j \in Judgers : Fits(jstate[j], buffer[j], current[j], parked[j])

\* The lone judger works on nothing, no block of a lost connection is on a task that can be
\* answered, and the next tasks it will be given, as many as fill its
\* window, are unsupported ones.
Clogged(P, j) ==
  /\ Judgers = {j} /\ published = P
  /\ current[j] = <<>> /\ Range(outdated[j]) \subseteq Unsupported
  /\ \A i \in 1..Prefetch : i <= Len(Line(j)) /\ Line(j)[i] \in Unsupported

---------------------------- (* four sequences *) ---------------------------
LEMMA Pieces ==
  ASSUME NEW S, NEW a \in Seq(S), NEW b \in Seq(S), NEW c \in Seq(S)
  PROVE  /\ a \o b \o c \in Seq(S)
         /\ Len(a \o b \o c) = Len(a) + Len(b) + Len(c)
         /\ Len(a) \in Nat /\ Len(b) \in Nat /\ Len(c) \in Nat
BY LenProperties, ConcatProperties

\* A sequence is its first element and the rest.
LEMMA FirstAndRest ==
  ASSUME NEW S, NEW q \in Seq(S), q # <<>>
  PROVE  /\ Head(q) \in S /\ Tail(q) \in Seq(S) /\ <<Head(q)>> \in Seq(S)
         /\ q = <<Head(q)>> \o Tail(q) /\ Len(Tail(q)) = Len(q) - 1 /\ Len(q) \in Nat
<1>1. /\ Head(q) \in S /\ Tail(q) \in Seq(S) /\ Len(Tail(q)) = Len(q) - 1 /\ Head(q) = q[1]
      /\ \A i \in 1..Len(Tail(q)) : Tail(q)[i] = q[i + 1]
  BY HeadTailProperties
<1> DEFINE h == Head(q)  r == Tail(q)  x == <<h>> \o r
<1>2. <<h>> \in Seq(S) /\ Len(<<h>>) = 1 /\ <<h>>[1] = h
  BY <1>1
<1>3. Len(q) \in Nat
  BY LenProperties
<1> HIDE DEF h, r
<1>4. /\ x \in Seq(S) /\ Len(x) = 1 + Len(r)
      /\ \A i \in 1..1 + Len(r) : x[i] = IF i <= 1 THEN <<h>>[i] ELSE r[i - 1]
  BY <1>1, <1>2, ConcatProperties DEF r
<1> HIDE DEF x
<1>5. \A i \in 1..Len(q) : x[i] = q[i]
  BY <1>1, <1>2, <1>3, <1>4 DEF h, r
<1>6. x = q
  BY <1>1, <1>3, <1>4, <1>5, SeqEqual DEF r
<1>. QED  BY <1>1, <1>2, <1>3, <1>6 DEF x, h, r

LEMMA TailInRange ==
  ASSUME NEW S, NEW q \in Seq(S), q # <<>>
  PROVE  Head(q) \in Range(q) /\ Range(Tail(q)) \subseteq Range(q)
<1>1. /\ Tail(q) \in Seq(S) /\ Len(Tail(q)) = Len(q) - 1 /\ Head(q) = q[1]
      /\ \A i \in 1..Len(Tail(q)) : Tail(q)[i] = q[i + 1]
  BY HeadTailProperties
<1>2. Len(q) \in Nat \ {0}
  BY EmptySeq, LenProperties
<1> DEFINE t == Tail(q)
<1> HIDE DEF t
<1>3. Range(q) = {q[i] : i \in 1..Len(q)} /\ Range(t) = {t[i] : i \in 1..Len(t)}
  BY <1>1, RangeEquality, ZenonT(60) DEF t
<1>4. \A i \in 1..Len(t) : i + 1 \in 1..Len(q) /\ t[i] = q[i + 1]
  BY <1>1, <1>2 DEF t
<1>. QED  BY <1>1, <1>2, <1>3, <1>4 DEF t

\* Moving the first of one sequence behind another changes nothing of both together.
LEMMA MoveOver ==
  ASSUME NEW S, NEW a \in Seq(S), NEW q \in Seq(S), q # <<>>
  PROVE  Append(a, Head(q)) \o Tail(q) = a \o q
<1>1. /\ <<Head(q)>> \in Seq(S) /\ Tail(q) \in Seq(S) /\ q = <<Head(q)>> \o Tail(q)
      /\ Head(q) \in S
  BY FirstAndRest
<1>2. Append(a, Head(q)) = a \o <<Head(q)>>
  BY <1>1, AppendIsConcat
<1>3. (a \o <<Head(q)>>) \o Tail(q) = a \o (<<Head(q)>> \o Tail(q))
  BY <1>1, ConcatAssociative
<1>. QED  BY <1>1, <1>2, <1>3

\* An element more of the second of two sequences is one more of both together.
LEMMA AppendBehind ==
  ASSUME NEW S, NEW a \in Seq(S), NEW q \in Seq(S), NEW e \in S
  PROVE  a \o Append(q, e) = Append(a \o q, e)
<1> DEFINE f == <<e>>
<1>1. f \in Seq(S) /\ a \o q \in Seq(S)
  BY ConcatProperties
<1>2. Append(q, e) = q \o f /\ Append(a \o q, e) = (a \o q) \o f
  BY <1>1, AppendIsConcat
<1> HIDE DEF f
<1>3. (a \o q) \o f = a \o (q \o f)
  BY <1>1, ConcatAssociative
<1>. QED  BY <1>2, <1>3

------------------------------ (* the window *) -----------------------------
LEMMA WindowInit == ServiceInit => Window
<1> SUFFICES ASSUME ServiceInit PROVE Window
  OBVIOUS
<1>1. <<>> \in Seq(Requests) /\ Len(<<>>) = 0 /\ 0 + 0 + 0 <= Prefetch
  BY JudgerAssumption
<1>2. Fits("down", <<>>, <<>>, <<>>)
  BY <1>1 DEF Fits
<1>. QED  BY <1>1, <1>2 DEF ServiceInit, BrokerInit, JudgerInit, Window, JudgerTypeOK

\* What a delivery, the start and the end of a judging, a refusal and an exception do to the
\* number of deliveries.
LEMMA Counts ==
  ASSUME NEW p \in Nat, NEW c \in Nat, NEW b \in Nat, NEW n \in Nat
  PROVE  /\ p + c + b < n => p + c + (b + 1) <= n
         /\ p + 0 + b <= n => p + 1 + (b - 1) <= n
         /\ p + c + b <= n => (p + 1) + c + (b - 1) <= n
         /\ p + c + b <= n => p + 0 + b <= n
         /\ p + c + b <= n => (p + c) + 0 + b <= n
OBVIOUS

LEMMA NoneLeft ==
  ASSUME NEW n \in Nat, NEW c \in Nat, NEW b \in Nat, n + c + b <= n
  PROVE  c = 0 /\ b = 0
OBVIOUS

\* A step of judger k leaves the others alone.
Becomes(k, js, b, c, p) ==
  /\ jstate' = [jstate EXCEPT ![k] = js] /\ buffer' = [buffer EXCEPT ![k] = b]
  /\ current' = [current EXCEPT ![k] = c] /\ parked' = [parked EXCEPT ![k] = p]

LEMMA WindowOf ==
  ASSUME Window, NEW k \in Judgers, NEW js, NEW b, NEW c, NEW p, Fits(js, b, c, p),
         Becomes(k, js, b, c, p), taskq' \in Seq(Requests), redelivered' \in SUBSET Requests,
         outdated' \in [Judgers -> Seq(Requests)]
  PROVE  Window'
<1> USE DEF Becomes
<1>1. JudgerTypeOK
  BY DEF Window
<1>2. JudgerTypeOK'
  BY <1>1 DEF JudgerTypeOK, Fits
<1>3. ASSUME NEW j \in Judgers
      PROVE  Fits(jstate'[j], buffer'[j], current'[j], parked'[j])
  <2>1. CASE j = k
    <3>1. jstate'[j] = js /\ buffer'[j] = b /\ current'[j] = c /\ parked'[j] = p
      BY <1>1, <2>1 DEF JudgerTypeOK
    <3>. QED  BY <3>1
  <2>2. CASE j # k
    <3>1. /\ jstate'[j] = jstate[j] /\ buffer'[j] = buffer[j]
          /\ current'[j] = current[j] /\ parked'[j] = parked[j]
      BY <1>1, <2>2 DEF JudgerTypeOK
    <3>. QED  BY <3>1 DEF Window
  <2>. QED  BY <2>1, <2>2
<1>. QED  BY <1>2, <1>3 DEF Window

LEMMA UnackedLen ==
  ASSUME Window, NEW k \in Judgers
  PROVE  /\ Unacked(k) \in Seq(Requests)
         /\ Len(parked[k]) + Len(current[k]) + Len(buffer[k]) = Len(Unacked(k))
BY Pieces DEF Unacked, Window, JudgerTypeOK

LEMMA WindowStep == Window /\ [ServiceNext]_serviceVars => Window'
<1> SUFFICES ASSUME Window, [ServiceNext]_serviceVars
             PROVE  Window'
  OBVIOUS
<1>12. Prefetch \in Nat
  BY JudgerAssumption
<1>0. JudgerTypeOK /\ taskq \in Seq(Requests) /\ Prefetch \in Nat /\ <<>> \in Seq(Requests)
  BY JudgerAssumption DEF Window
<1>1. ASSUME NEW r \in Requests, Arrive(r)
      PROVE  Window'
  <2>1. taskq' \in Seq(Requests) /\ UNCHANGED judgerVars
    BY <1>0, <1>1 DEF Arrive, Enqueue
  <2>. QED  BY <2>1 DEF judgerVars, Window, JudgerTypeOK
\* What a step of judger k starts from.
<1>2. ASSUME NEW k \in Judgers
      PROVE  Fits(jstate[k], buffer[k], current[k], parked[k]) /\ redelivered \in SUBSET Requests
  BY DEF Window, JudgerTypeOK
<1>3. ASSUME NEW k \in Judgers, StartJudger(k)
      PROVE  Window'
  <2>0. Fits(jstate[k], buffer[k], current[k], parked[k]) /\ JudgerTypeOK /\ redelivered \in SUBSET Requests
    BY <1>0, <1>2
  <2>1. /\ jstate' = [jstate EXCEPT ![k] = "idle"] /\ jstate[k] = "down"
        /\ UNCHANGED <<taskq, buffer, current, parked, outdated, redelivered>>
    BY <1>3 DEF StartJudger
  <2>2. Fits("idle", buffer[k], current[k], parked[k])
    BY <2>0, <2>1 DEF Fits
  <2>8. Becomes(k, "idle", buffer[k], current[k], parked[k])
    BY <2>0, <2>1 DEF Becomes, JudgerTypeOK
  <2>9. /\ taskq' \in Seq(Requests) /\ redelivered' \in SUBSET Requests
        /\ outdated' \in [Judgers -> Seq(Requests)]
    BY <1>0, <2>0, <2>1 DEF JudgerTypeOK
  <2>. QED  BY <2>2, <2>8, <2>9, WindowOf, Zenon
<1>4. ASSUME NEW k \in Judgers, Deliver(k)
      PROVE  Window'
  <2>0. Fits(jstate[k], buffer[k], current[k], parked[k]) /\ JudgerTypeOK /\ redelivered \in SUBSET Requests
    BY <1>0, <1>2
  <2> DEFINE b == Append(buffer[k], Head(taskq))
  <2>1. /\ jstate[k] # "down" /\ taskq # <<>> /\ Len(Unacked(k)) < Prefetch
        /\ buffer' = [buffer EXCEPT ![k] = b]
        /\ taskq' = Tail(taskq) /\ UNCHANGED <<jstate, current, parked, outdated, redelivered>>
    BY <1>4 DEF Deliver
  <2>2. Head(taskq) \in Requests /\ taskq' \in Seq(Requests)
    BY <1>0, <2>1, FirstAndRest
  <2>3. b \in Seq(Requests) /\ Len(b) = Len(buffer[k]) + 1
    BY <2>0, <2>2, AppendProperties DEF Fits
  <2> HIDE DEF b
  <2>4. Len(parked[k]) + Len(current[k]) + Len(buffer[k]) < Prefetch
    BY <2>1, UnackedLen
  <2>5. Fits(jstate[k], b, current[k], parked[k])
    <3>1. Len(parked[k]) \in Nat /\ Len(current[k]) \in Nat /\ Len(buffer[k]) \in Nat
      BY <2>0, LenProperties DEF Fits
    <3>2. Len(parked[k]) + Len(current[k]) + Len(b) <= Prefetch
      BY <1>12, <2>3, <2>4, <3>1, Counts, Zenon
    <3>. QED  BY <2>0, <2>1, <2>3, <3>2 DEF Fits
  <2>8. Becomes(k, jstate[k], b, current[k], parked[k])
    BY <2>0, <2>1 DEF Becomes, JudgerTypeOK, b
  <2>9. /\ taskq' \in Seq(Requests) /\ redelivered' \in SUBSET Requests
        /\ outdated' \in [Judgers -> Seq(Requests)]
    BY <1>0, <2>0, <2>1, <2>2 DEF JudgerTypeOK
  <2>. QED  BY <2>5, <2>8, <2>9, WindowOf, Zenon
<1>5. ASSUME NEW k \in Judgers, Begin(k)
      PROVE  Window'
  <2>0. Fits(jstate[k], buffer[k], current[k], parked[k]) /\ JudgerTypeOK /\ redelivered \in SUBSET Requests
    BY <1>0, <1>2
  <2> DEFINE b == Tail(buffer[k])  c == <<Head(buffer[k])>>
  <2>1. /\ jstate[k] = "idle" /\ buffer[k] # <<>> /\ jstate' = [jstate EXCEPT ![k] = "judging"]
        /\ buffer' = [buffer EXCEPT ![k] = b] /\ current' = [current EXCEPT ![k] = c]
        /\ UNCHANGED <<taskq, parked, outdated, redelivered>>
    BY <1>5 DEF Begin, brokerVars
  <2>2. buffer[k] \in Seq(Requests) /\ parked[k] \in Seq(Requests) /\ current[k] = <<>>
    BY <2>0, <2>1 DEF Fits
  <2>3. b \in Seq(Requests) /\ c \in Seq(Requests) /\ Len(b) = Len(buffer[k]) - 1
    BY <2>1, <2>2, FirstAndRest
  <2>4. c # <<>> /\ Len(c) = 1 /\ Len(<<>>) = 0
    OBVIOUS
  <2> HIDE DEF b, c
  <2>5. Fits("judging", b, c, parked[k])
    <3>1. Len(parked[k]) \in Nat /\ Len(buffer[k]) \in Nat
      BY <2>2, LenProperties
    <3>2. Len(parked[k]) + Len(current[k]) + Len(buffer[k]) <= Prefetch /\ Len(current[k]) = 0
      BY <2>0, <2>2, <2>4, Zenon DEF Fits
    <3>3. Len(parked[k]) + 0 + Len(buffer[k]) <= Prefetch
      BY <3>2, Zenon
    <3>4. Len(parked[k]) + Len(c) + Len(b) <= Prefetch
      BY <1>12, <2>3, <2>4, <3>1, <3>3, Counts, Zenon
    <3>5. /\ "judging" \in {"down", "idle", "judging", "answered"} /\ "judging" \in {"judging", "answered"} /\ "judging" # "down"
          /\ Len(c) <= 1
      BY <2>4
    <3>. QED  BY <2>2, <2>3, <2>4, <3>4, <3>5, Zenon DEF Fits
  <2>8. Becomes(k, "judging", b, c, parked[k])
    BY <2>0, <2>1 DEF Becomes, JudgerTypeOK, b, c
  <2>9. /\ taskq' \in Seq(Requests) /\ redelivered' \in SUBSET Requests
        /\ outdated' \in [Judgers -> Seq(Requests)]
    BY <1>0, <2>0, <2>1 DEF JudgerTypeOK
  <2>. QED  BY <2>5, <2>8, <2>9, WindowOf, Zenon
<1>6. ASSUME NEW k \in Judgers, Refuse(k)
      PROVE  Window'
  <2>0. Fits(jstate[k], buffer[k], current[k], parked[k]) /\ JudgerTypeOK /\ redelivered \in SUBSET Requests
    BY <1>0, <1>2
  <2> DEFINE b == Tail(buffer[k])  p == Append(parked[k], Head(buffer[k]))
  <2>1. /\ jstate[k] = "idle" /\ buffer[k] # <<>>
        /\ buffer' = [buffer EXCEPT ![k] = b] /\ parked' = [parked EXCEPT ![k] = p]
        /\ UNCHANGED <<taskq, jstate, current, outdated, redelivered>>
    BY <1>6 DEF Refuse, brokerVars
  <2>2. buffer[k] \in Seq(Requests) /\ parked[k] \in Seq(Requests)
    BY <2>0 DEF Fits
  <2>3. Head(buffer[k]) \in Requests /\ b \in Seq(Requests) /\ Len(b) = Len(buffer[k]) - 1
    BY <2>1, <2>2, FirstAndRest
  <2>4. p \in Seq(Requests) /\ Len(p) = Len(parked[k]) + 1
    BY <2>2, <2>3, AppendProperties
  <2> HIDE DEF b, p
  <2>5. Fits(jstate[k], b, current[k], p)
    <3>1. Len(parked[k]) \in Nat /\ Len(buffer[k]) \in Nat /\ Len(current[k]) \in Nat
      BY <2>0, <2>2, LenProperties DEF Fits
    <3>2. Len(parked[k]) + Len(current[k]) + Len(buffer[k]) <= Prefetch
      BY <2>0 DEF Fits
    <3>3. (Len(parked[k]) + 1) + Len(current[k]) + (Len(buffer[k]) - 1) <= Prefetch
      BY <1>12, <3>1, <3>2, Counts, Zenon
    <3>4. Len(p) + Len(current[k]) + Len(b) <= Prefetch
      BY <2>3, <2>4, <3>3, Zenon
    <3>. QED  BY <2>0, <2>1, <2>3, <2>4, <3>4 DEF Fits
  <2>8. Becomes(k, jstate[k], b, current[k], p)
    BY <2>0, <2>1 DEF Becomes, JudgerTypeOK, b, p
  <2>9. /\ taskq' \in Seq(Requests) /\ redelivered' \in SUBSET Requests
        /\ outdated' \in [Judgers -> Seq(Requests)]
    BY <1>0, <2>0, <2>1 DEF JudgerTypeOK
  <2>. QED  BY <2>5, <2>8, <2>9, WindowOf, Zenon
<1>7. ASSUME NEW k \in Judgers, NEW v \in Outcomes, Answer(k, v)
      PROVE  Window'
  <2>0. Fits(jstate[k], buffer[k], current[k], parked[k]) /\ JudgerTypeOK /\ redelivered \in SUBSET Requests
    BY <1>0, <1>2
  <2>1. /\ jstate[k] = "judging" /\ jstate' = [jstate EXCEPT ![k] = "answered"]
        /\ UNCHANGED <<taskq, buffer, current, parked, outdated, redelivered>>
    BY <1>7 DEF Answer
  <2>2. Fits("answered", buffer[k], current[k], parked[k])
    BY <2>0, <2>1 DEF Fits
  <2>8. Becomes(k, "answered", buffer[k], current[k], parked[k])
    BY <2>0, <2>1 DEF Becomes, JudgerTypeOK
  <2>9. /\ taskq' \in Seq(Requests) /\ redelivered' \in SUBSET Requests
        /\ outdated' \in [Judgers -> Seq(Requests)]
    BY <1>0, <2>0, <2>1 DEF JudgerTypeOK
  <2>. QED  BY <2>2, <2>8, <2>9, WindowOf, Zenon
<1>8. ASSUME NEW k \in Judgers, Ack(k)
      PROVE  Window'
  <2>0. Fits(jstate[k], buffer[k], current[k], parked[k]) /\ JudgerTypeOK /\ redelivered \in SUBSET Requests
    BY <1>0, <1>2
  <2>1. /\ jstate' = [jstate EXCEPT ![k] = "idle"] /\ current' = [current EXCEPT ![k] = <<>>]
        /\ UNCHANGED <<taskq, buffer, parked, outdated, redelivered>>
    BY <1>8 DEF Ack, brokerVars
  <2>2. Fits("idle", buffer[k], <<>>, parked[k])
    <3>1. Len(parked[k]) \in Nat /\ Len(buffer[k]) \in Nat /\ Len(current[k]) \in Nat /\ Len(<<>>) = 0
      BY <2>0, LenProperties DEF Fits
    <3>2. Len(parked[k]) + Len(current[k]) + Len(buffer[k]) <= Prefetch
      BY <2>0 DEF Fits
    <3>3. Len(parked[k]) + Len(<<>>) + Len(buffer[k]) <= Prefetch
      BY <1>12, <3>1, <3>2, Counts, Zenon
    <3>4. /\ "idle" \in {"down", "idle", "judging", "answered"} /\ "idle" \notin {"judging", "answered"} /\ "idle" # "down"
          /\ <<>> \in Seq(Requests) /\ Len(<<>>) <= 1
      BY <1>0, <3>1
    <3>. QED  BY <2>0, <3>3, <3>4, Zenon DEF Fits
  <2>8. Becomes(k, "idle", buffer[k], <<>>, parked[k])
    BY <2>0, <2>1 DEF Becomes, JudgerTypeOK
  <2>9. /\ taskq' \in Seq(Requests) /\ redelivered' \in SUBSET Requests
        /\ outdated' \in [Judgers -> Seq(Requests)]
    BY <1>0, <2>0, <2>1 DEF JudgerTypeOK
  <2>. QED  BY <2>2, <2>8, <2>9, WindowOf, Zenon
<1>9. ASSUME NEW k \in Judgers, Raise(k)
      PROVE  Window'
  <2>0. Fits(jstate[k], buffer[k], current[k], parked[k]) /\ JudgerTypeOK /\ redelivered \in SUBSET Requests
    BY <1>0, <1>2
  <2> DEFINE p == parked[k] \o current[k]
  <2>1. /\ jstate' = [jstate EXCEPT ![k] = "idle"] /\ current' = [current EXCEPT ![k] = <<>>]
        /\ parked' = [parked EXCEPT ![k] = p]
        /\ UNCHANGED <<taskq, buffer, outdated, redelivered>>
    BY <1>9 DEF Raise
  <2>2. p \in Seq(Requests) /\ Len(p) = Len(parked[k]) + Len(current[k])
    BY <2>0, ConcatProperties DEF Fits
  <2> HIDE DEF p
  <2>3. Fits("idle", buffer[k], <<>>, p)
    <3>1. Len(parked[k]) \in Nat /\ Len(buffer[k]) \in Nat /\ Len(current[k]) \in Nat /\ Len(<<>>) = 0
      BY <2>0, LenProperties DEF Fits
    <3>2. Len(parked[k]) + Len(current[k]) + Len(buffer[k]) <= Prefetch
      BY <2>0 DEF Fits
    <3>3. Len(p) + Len(<<>>) + Len(buffer[k]) <= Prefetch
      BY <1>12, <2>2, <3>1, <3>2, Counts, Zenon
    <3>4. /\ "idle" \in {"down", "idle", "judging", "answered"} /\ "idle" \notin {"judging", "answered"} /\ "idle" # "down"
          /\ <<>> \in Seq(Requests) /\ Len(<<>>) <= 1
      BY <1>0, <3>1
    <3>. QED  BY <2>0, <2>2, <3>3, <3>4, Zenon DEF Fits
  <2>8. Becomes(k, "idle", buffer[k], <<>>, p)
    BY <2>0, <2>1 DEF Becomes, JudgerTypeOK, p
  <2>9. /\ taskq' \in Seq(Requests) /\ redelivered' \in SUBSET Requests
        /\ outdated' \in [Judgers -> Seq(Requests)]
    BY <1>0, <2>0, <2>1 DEF JudgerTypeOK
  <2>. QED  BY <2>3, <2>8, <2>9, WindowOf, Zenon
<1>10. ASSUME NEW k \in Judgers, CrashJudger(k)
       PROVE  Window'
  <2>0. Fits(jstate[k], buffer[k], current[k], parked[k]) /\ JudgerTypeOK /\ redelivered \in SUBSET Requests
    BY <1>0, <1>2
  <2>1. /\ jstate' = [jstate EXCEPT ![k] = "down"] /\ buffer' = [buffer EXCEPT ![k] = <<>>]
        /\ current' = [current EXCEPT ![k] = <<>>] /\ parked' = [parked EXCEPT ![k] = <<>>]
        /\ redelivered' = redelivered \cup (IF jstate[k] = "answered" THEN Range(current[k]) ELSE {})
        /\ outdated' = [outdated EXCEPT ![k] = <<>>]
        /\ taskq' = Unacked(k) \o taskq
    BY <1>10 DEF CrashJudger, GoDown
  <2>2. Fits("down", <<>>, <<>>, <<>>)
    <3>1. Len(<<>>) = 0 /\ 0 + 0 + 0 <= Prefetch
      BY <1>0
    <3>. QED  BY <1>0, <3>1 DEF Fits
  <2>3. taskq' \in Seq(Requests)
    BY <1>0, <2>1, UnackedLen, ConcatProperties
  <2>4. redelivered' \in SUBSET Requests
    <3>1. current[k] \in Seq(Requests)
      BY <2>0 DEF Fits
    <3>2. Range(current[k]) \subseteq Requests
      BY <3>1, RangeOfSeq
    <3>. QED  BY <2>0, <2>1, <3>2
  <2>8. Becomes(k, "down", <<>>, <<>>, <<>>)
    BY <2>0, <2>1 DEF Becomes, JudgerTypeOK
  <2>9. /\ taskq' \in Seq(Requests) /\ redelivered' \in SUBSET Requests
        /\ outdated' \in [Judgers -> Seq(Requests)]
    BY <1>0, <2>0, <2>1, <2>3, <2>4 DEF JudgerTypeOK
  <2>. QED  BY <2>2, <2>8, <2>9, WindowOf, Zenon
<1>13. ASSUME NEW k \in Judgers, LoseConnection(k)
       PROVE  Window'
  <2>0. Fits(jstate[k], buffer[k], current[k], parked[k]) /\ JudgerTypeOK /\ redelivered \in SUBSET Requests
    BY <1>0, <1>2
  <2> DEFINE at == IF jstate[k] = "judging" THEN current[k] ELSE <<>>
             o == outdated[k] \o at \o buffer[k]
  <2>1. /\ jstate' = [jstate EXCEPT ![k] = "idle"] /\ buffer' = [buffer EXCEPT ![k] = <<>>]
        /\ current' = [current EXCEPT ![k] = <<>>] /\ parked' = [parked EXCEPT ![k] = <<>>]
        /\ outdated' = [outdated EXCEPT ![k] = o]
        /\ redelivered' = redelivered \cup Range(current[k]) \cup Range(buffer[k])
        /\ taskq' = Unacked(k) \o taskq
    BY <1>13 DEF LoseConnection
  <2>2. Fits("idle", <<>>, <<>>, <<>>)
    <3>1. Len(<<>>) = 0 /\ 0 + 0 + 0 <= Prefetch
      BY <1>0
    <3>. QED  BY <1>0, <3>1 DEF Fits
  <2>3. taskq' \in Seq(Requests)
    BY <1>0, <2>1, UnackedLen, ConcatProperties
  <2>4. redelivered' \in SUBSET Requests
    <3>1. current[k] \in Seq(Requests) /\ buffer[k] \in Seq(Requests)
      BY <2>0 DEF Fits
    <3>2. Range(current[k]) \subseteq Requests /\ Range(buffer[k]) \subseteq Requests
      BY <3>1, RangeOfSeq
    <3>. QED  BY <2>0, <2>1, <3>2
  <2>5. o \in Seq(Requests)
    <3>1. outdated[k] \in Seq(Requests) /\ at \in Seq(Requests) /\ buffer[k] \in Seq(Requests)
      BY <1>0, <2>0 DEF Fits, JudgerTypeOK
    <3> HIDE DEF at
    <3>. QED  BY <3>1, Pieces
  <2> HIDE DEF o
  <2>8. Becomes(k, "idle", <<>>, <<>>, <<>>)
    BY <2>0, <2>1 DEF Becomes, JudgerTypeOK
  <2>9. /\ taskq' \in Seq(Requests) /\ redelivered' \in SUBSET Requests
        /\ outdated' \in [Judgers -> Seq(Requests)]
    BY <1>0, <2>0, <2>1, <2>3, <2>4, <2>5 DEF JudgerTypeOK
  <2>. QED  BY <2>2, <2>8, <2>9, WindowOf, Zenon
<1>14. ASSUME NEW k \in Judgers, DropOutdated(k) \/ \E v \in Outcomes : AnswerOutdated(k, v)
       PROVE  Window'
  <2>1. /\ outdated[k] # <<>> /\ outdated' = [outdated EXCEPT ![k] = Tail(@)]
        /\ UNCHANGED <<taskq, jstate, buffer, current, parked, redelivered>>
    BY <1>14 DEF DropOutdated, AnswerOutdated, brokerVars
  <2>2. Tail(outdated[k]) \in Seq(Requests)
    BY <1>0, <2>1, FirstAndRest DEF JudgerTypeOK
  <2>3. outdated' \in [Judgers -> Seq(Requests)]
    BY <1>0, <2>1, <2>2 DEF JudgerTypeOK
  <2>. QED  BY <2>1, <2>3 DEF Window, JudgerTypeOK
<1>11. CASE UNCHANGED serviceVars
  BY <1>11 DEF serviceVars, brokerVars, judgerVars, Window, JudgerTypeOK
<1>. QED
  BY <1>1, <1>3, <1>4, <1>5, <1>6, <1>7, <1>8, <1>9, <1>10, <1>11, <1>13, <1>14
  DEF ServiceNext, JudgerNext, JudgerStep

------------------------------- (* the clog *) ------------------------------
LEMMA LineType ==
  ASSUME Window, NEW j \in Judgers
  PROVE  Line(j) \in Seq(Requests) /\ Unacked(j) \in Seq(Requests) /\ taskq \in Seq(Requests)
BY UnackedLen, ConcatProperties DEF Line, Window

\* With nothing in hand the line is what is parked, what waits, and the queue.
LEMMA LineIdle ==
  ASSUME Window, NEW j \in Judgers, current[j] = <<>>
  PROVE  /\ Unacked(j) = parked[j] \o buffer[j]
         /\ Line(j) = parked[j] \o buffer[j] \o taskq
         /\ parked[j] \in Seq(Requests) /\ buffer[j] \in Seq(Requests)
<1>1. parked[j] \in Seq(Requests) /\ buffer[j] \in Seq(Requests)
  BY DEF Window, JudgerTypeOK
<1>2. parked[j] \o <<>> = parked[j]
  BY <1>1, ConcatEmptySeq
<1>. QED  BY <1>1, <1>2 DEF Line, Unacked

\* A window full of refused tasks clogs a lone judger.
LEMMA WedgeClogs ==
  ASSUME Window, NEW P, NEW j, Judgers = {j}, Wedged(j), Range(parked[j]) \subseteq Unsupported,
         outdated[j] = <<>>, published = P
  PROVE  Clogged(P, j)
<1>1. j \in Judgers
  OBVIOUS
<1>2. Fits(jstate[j], buffer[j], current[j], parked[j])
  BY <1>1 DEF Window
<1> DEFINE p == parked[j]  L == Line(j)
<1>3. /\ p \in Seq(Requests) /\ current[j] \in Seq(Requests) /\ buffer[j] \in Seq(Requests)
      /\ Len(p) = Prefetch /\ Prefetch \in Nat /\ taskq \in Seq(Requests)
  BY <1>2, JudgerAssumption DEF Fits, Wedged, Window
<1>4. Len(current[j]) = 0 /\ Len(buffer[j]) = 0
  <2>1. Len(current[j]) \in Nat /\ Len(buffer[j]) \in Nat
    BY <1>3, LenProperties
  <2>2. Prefetch + Len(current[j]) + Len(buffer[j]) <= Prefetch
    BY <1>2, <1>3, Zenon DEF Fits
  <2>. QED  BY <1>3, <2>1, <2>2, NoneLeft, Zenon
<1>5. current[j] = <<>> /\ buffer[j] = <<>>
  BY <1>3, <1>4, EmptySeq
<1>6. L = p \o taskq
  <2>1. p \o <<>> = p
    BY <1>3, ConcatEmptySeq
  <2>. QED  BY <1>1, <1>5, <2>1, LineIdle
<1> HIDE DEF L, p
<1>7. /\ Len(L) = Len(p) + Len(taskq) /\ Len(taskq) \in Nat
      /\ \A i \in 1..Len(p) + Len(taskq) : L[i] = IF i <= Len(p) THEN p[i] ELSE taskq[i - Len(p)]
  BY <1>3, <1>6, ConcatProperties, LenProperties
<1>8. \A i \in 1..Len(p) : p[i] \in Range(p)
  BY <1>3, RangeEquality
<1>9. ASSUME NEW i \in 1..Prefetch
      PROVE  i <= Len(L) /\ L[i] \in Unsupported
  <2>1. i \in 1..Len(p) + Len(taskq) /\ i <= Len(p) /\ i \in 1..Len(p) /\ i <= Len(L)
    BY <1>3, <1>7
  <2>. QED  BY <1>7, <1>8, <2>1 DEF p
<1>10. Range(outdated[j]) = {}
  BY DEF Range
<1>. QED  BY <1>5, <1>9, <1>10 DEF Clogged, L

LEMMA ClogKept ==
  ASSUME NEW P, NEW j, Clogged(P, j), UNCHANGED published, current'[j] = <<>>, Line(j)' = Line(j),
         Range(outdated'[j]) \subseteq Unsupported
  PROVE  Clogged(P, j)'
BY DEF Clogged

\* The tasks that the block of a clogged judger runs for are unsupported ones.
LEMMA NextRefused ==
  ASSUME Window, NEW P, NEW j, Clogged(P, j)
  PROVE  /\ Range(buffer[j]) \subseteq Unsupported
         /\ buffer[j] # <<>> => Head(buffer[j]) \in Unsupported
<1>1. j \in Judgers /\ current[j] = <<>>
  BY DEF Clogged
<1> DEFINE p == parked[j]  b == buffer[j]  L == Line(j)
<1>2. /\ p \in Seq(Requests) /\ b \in Seq(Requests) /\ L = p \o b \o taskq /\ taskq \in Seq(Requests)
      /\ p \o b \in Seq(Requests)
  BY <1>1, LineIdle, ConcatProperties DEF Window
<1>3. Len(p) + Len(current[j]) + Len(b) <= Prefetch /\ Len(current[j]) = 0
  <2>1. Fits(jstate[j], buffer[j], current[j], parked[j])
    BY <1>1 DEF Window
  <2>. QED  BY <1>1, <2>1 DEF Fits
<1>4. Prefetch \in Nat /\ \A i \in 1..Prefetch : L[i] \in Unsupported
  BY JudgerAssumption DEF Clogged
<1> HIDE DEF p, b, L
<1>5. Len(p) \in Nat /\ Len(b) \in Nat /\ Len(taskq) \in Nat /\ (b # <<>> => Len(b) # 0 /\ Head(b) = b[1])
  BY <1>2, LenProperties, EmptySeq
<1>6. ASSUME NEW i \in 1..Len(b)
      PROVE  b[i] \in Unsupported
  <2> DEFINE n == Len(p) + i
  <2>1. n \in 1..Prefetch /\ n \in 1..Len(p) + Len(b) /\ n \in 1..Len(p) + Len(b) + Len(taskq)
        /\ n - Len(p) = i /\ ~(n <= Len(p)) /\ n <= Len(p) + Len(b)
    <3>1. Len(p) + 0 + Len(b) <= Prefetch
      BY <1>3, Zenon
    <3>. QED  BY <1>4, <1>5, <3>1
  <2> HIDE DEF n
  <2>2. (p \o b)[n] = b[i]
    BY <1>2, <2>1, ConcatProperties
  <2>3. L[n] = (p \o b)[n]
    <3>1. Len(p \o b) = Len(p) + Len(b)
      BY <1>2, ConcatProperties
    <3>. QED  BY <1>2, <2>1, <3>1, ConcatProperties
  <2>. QED  BY <1>4, <2>1, <2>2, <2>3
<1>7. Range(b) = {b[i] : i \in 1..Len(b)}
  BY <1>2, RangeEquality
<1>8. b # <<>> => Head(b) \in Unsupported
  BY <1>5, <1>6
<1>. QED  BY <1>6, <1>7, <1>8 DEF b

\* Whatever the lone judger does, and whatever else arrives, its line begins as before.
LEMMA ClogStep ==
  ASSUME NEW P, NEW j, Window, Clogged(P, j), [ServiceNext]_serviceVars
  PROVE  Clogged(P, j)'
<1>1. /\ Judgers = {j} /\ j \in Judgers /\ current[j] = <<>>
      /\ Range(outdated[j]) \subseteq Unsupported
  BY DEF Clogged
<1>2. Fits(jstate[j], buffer[j], current[j], parked[j]) /\ JudgerTypeOK
  BY <1>1 DEF Window
<1>3. jstate[j] \notin {"judging", "answered"}
  BY <1>1, <1>2 DEF Fits
<1> DEFINE p == parked[j]  b == buffer[j]  q == taskq
<1>4. /\ p \in Seq(Requests) /\ b \in Seq(Requests) /\ q \in Seq(Requests) /\ p \o b \in Seq(Requests)
      /\ Unacked(j) = p \o b /\ Line(j) = p \o b \o q
      /\ Unacked(j) \in Seq(Requests) /\ Line(j) \in Seq(Requests)
  BY <1>1, LineIdle, LineType, ConcatProperties
<1>5. ASSUME NEW r \in Requests, Arrive(r)
      PROVE  Clogged(P, j)'
  <2>1. taskq' = Append(q, r) /\ UNCHANGED <<published, judgerVars>>
    BY <1>5 DEF Arrive, Enqueue
  <2>2. Line(j)' = Unacked(j) \o Append(q, r) /\ current'[j] = <<>>
    BY <1>1, <2>1 DEF Line, Unacked, judgerVars
  <2>3. Unacked(j) \o Append(q, r) = Append(Unacked(j) \o q, r)
    <3>1. Unacked(j) \in Seq(Requests) /\ q \in Seq(Requests)
      BY <1>4
    <3>. QED  BY <3>1, <1>5, AppendBehind
  <2> DEFINE L == Line(j)  x == Append(L, r)
  <2>4. Line(j)' = x
    BY <2>2, <2>3, Zenon DEF Line
  <2>5. L \in Seq(Requests)
    BY <1>4
  <2> HIDE DEF L
  <2>6. /\ Len(x) = Len(L) + 1 /\ Len(L) \in Nat
        /\ \A i \in 1..Len(L) : x[i] = L[i]
    BY <2>5, AppendProperties, LenProperties
  <2> HIDE DEF x
  <2>7. \A i \in 1..Prefetch : i <= Len(L) /\ L[i] \in Unsupported
    BY DEF Clogged, L
  <2>8. \A i \in 1..Prefetch : i <= Len(x) /\ x[i] \in Unsupported
    BY <2>6, <2>7
  <2>9. published' = P /\ outdated' = outdated /\ Judgers = {j} /\ current'[j] = <<>>
    BY <2>1, <2>2 DEF Clogged, judgerVars
  <2>. QED  BY <1>1, <2>4, <2>8, <2>9 DEF Clogged
<1>6. CASE StartJudger(j)
  <2>1. UNCHANGED <<published, taskq, buffer, current, parked, outdated>>
    BY <1>6 DEF StartJudger
  <2>. QED  BY <1>1, <2>1, ClogKept DEF Line, Unacked
<1>7. CASE Deliver(j)
  <2>1. /\ q # <<>> /\ buffer' = [buffer EXCEPT ![j] = Append(b, Head(q))] /\ taskq' = Tail(q)
        /\ UNCHANGED <<published, current, parked, outdated>>
    BY <1>7 DEF Deliver
  <2>2. buffer'[j] = Append(b, Head(q)) /\ parked'[j] = p /\ current'[j] = <<>>
    BY <1>1, <1>2, <2>1 DEF JudgerTypeOK
  <2>3. Head(q) \in Requests
    BY <1>4, <2>1, FirstAndRest
  <2>4. p \o Append(b, Head(q)) = Append(p \o b, Head(q))
    <3> DEFINE h == Head(q)
    <3>1. p \in Seq(Requests) /\ b \in Seq(Requests) /\ h \in Requests
      BY <1>4, <2>3
    <3> HIDE DEF h, p, b
    <3>2. p \o Append(b, h) = Append(p \o b, h)
      BY <3>1, AppendBehind
    <3>. QED  BY <3>2 DEF h, p, b
  <2>5. p \o <<>> = p
    BY <1>4, ConcatEmptySeq
  <2>6. Line(j)' = (p \o Append(b, Head(q))) \o Tail(q)
    BY <2>1, <2>2, <2>5 DEF Line, Unacked
  <2>7. Line(j)' = Append(p \o b, Head(q)) \o Tail(q)
    BY <2>4, <2>6
  <2>8. Line(j)' = Line(j)
    BY <1>4, <2>1, <2>7, MoveOver
  <2>. QED  BY <1>1, <2>1, <2>2, <2>8, ClogKept
<1>8. CASE Begin(j)
  BY <1>8, NextRefused DEF Begin
<1>9. CASE Refuse(j)
  <2>1. /\ b # <<>> /\ buffer' = [buffer EXCEPT ![j] = Tail(b)]
        /\ parked' = [parked EXCEPT ![j] = Append(p, Head(b))]
        /\ UNCHANGED <<published, taskq, current, outdated>>
    BY <1>9 DEF Refuse, brokerVars
  <2>2. buffer'[j] = Tail(b) /\ parked'[j] = Append(p, Head(b)) /\ current'[j] = <<>>
    BY <1>1, <1>2, <2>1 DEF JudgerTypeOK
  <2>3. Append(p, Head(b)) \in Seq(Requests)
    BY <1>4, <2>1, FirstAndRest, AppendProperties
  <2>4. Append(p, Head(b)) \o <<>> = Append(p, Head(b))
    BY <2>3, ConcatEmptySeq
  <2>5. Line(j)' = (Append(p, Head(b)) \o Tail(b)) \o q
    BY <2>1, <2>2, <2>4 DEF Line, Unacked
  <2>6. Line(j)' = Line(j)
    BY <1>4, <2>1, <2>5, MoveOver
  <2>. QED  BY <1>1, <2>1, <2>2, <2>6, ClogKept
<1>10. CASE (\E v \in Outcomes : Answer(j, v)) \/ Ack(j) \/ Raise(j)
  BY <1>3, <1>10 DEF Answer, Ack, Raise
<1>11. CASE CrashJudger(j)
  <2>1. /\ buffer' = [buffer EXCEPT ![j] = <<>>] /\ current' = [current EXCEPT ![j] = <<>>]
        /\ parked' = [parked EXCEPT ![j] = <<>>] /\ taskq' = Unacked(j) \o taskq
        /\ outdated' = [outdated EXCEPT ![j] = <<>>]
        /\ UNCHANGED published
    BY <1>11 DEF CrashJudger, GoDown
  <2>2. buffer'[j] = <<>> /\ parked'[j] = <<>> /\ current'[j] = <<>> /\ outdated'[j] = <<>>
    BY <1>1, <1>2, <2>1 DEF JudgerTypeOK
  <2>3. <<>> \o <<>> \o <<>> = <<>> /\ <<>> \o Line(j) = Line(j)
    BY <1>4, EmptySeq, ConcatEmptySeq
  <2>4. Line(j)' = Line(j)
    BY <2>1, <2>2, <2>3 DEF Line, Unacked
  <2>5. Range(outdated'[j]) = {}
    BY <2>2 DEF Range
  <2>. QED  BY <2>1, <2>2, <2>4, <2>5, ClogKept
<1>13. CASE LoseConnection(j)
  <2>1. /\ buffer' = [buffer EXCEPT ![j] = <<>>] /\ current' = [current EXCEPT ![j] = <<>>]
        /\ parked' = [parked EXCEPT ![j] = <<>>] /\ taskq' = Unacked(j) \o taskq
        /\ outdated' = [outdated EXCEPT ![j] = @ \o <<>> \o b]
        /\ UNCHANGED published
    BY <1>3, <1>13 DEF LoseConnection
  <2>2. /\ buffer'[j] = <<>> /\ parked'[j] = <<>> /\ current'[j] = <<>>
        /\ outdated'[j] = outdated[j] \o <<>> \o b
    BY <1>1, <1>2, <2>1 DEF JudgerTypeOK
  <2>3. <<>> \o <<>> \o <<>> = <<>> /\ <<>> \o Line(j) = Line(j)
    BY <1>4, EmptySeq, ConcatEmptySeq
  <2>4. Line(j)' = Line(j)
    BY <2>1, <2>2, <2>3 DEF Line, Unacked
  <2>5. Range(outdated'[j]) \subseteq Unsupported
    <3>1. outdated[j] \in Seq(Requests) /\ b \in Seq(Requests)
      BY <1>1, <1>2, <1>4 DEF JudgerTypeOK
    <3>2. outdated[j] \o <<>> = outdated[j]
      BY <3>1, ConcatEmptySeq
    <3>3. Range(outdated[j] \o b) = Range(outdated[j]) \cup Range(b)
      BY <3>1, RangeConcatenation
    <3>. QED  BY <1>1, <2>2, <3>2, <3>3, NextRefused
  <2>. QED  BY <2>1, <2>2, <2>4, <2>5, ClogKept
<1>14. CASE DropOutdated(j)
  <2>1. /\ outdated[j] # <<>> /\ outdated' = [outdated EXCEPT ![j] = Tail(@)]
        /\ UNCHANGED <<published, taskq, buffer, current, parked>>
    BY <1>14 DEF DropOutdated, brokerVars
  <2>2. outdated[j] \in Seq(Requests) /\ outdated'[j] = Tail(outdated[j])
    BY <1>1, <1>2, <2>1 DEF JudgerTypeOK
  <2>3. Range(outdated'[j]) \subseteq Range(outdated[j])
    BY <2>1, <2>2, TailInRange
  <2>. QED  BY <1>1, <2>1, <2>3, ClogKept DEF Line, Unacked
<1>15. ASSUME NEW v \in Outcomes, AnswerOutdated(j, v)
       PROVE  FALSE
  <2>1. outdated[j] \in Seq(Requests) /\ outdated[j] # <<>> /\ Head(outdated[j]) \notin Unsupported
    BY <1>1, <1>2, <1>15 DEF AnswerOutdated, JudgerTypeOK
  <2>. QED  BY <1>1, <2>1, TailInRange
<1>12. CASE UNCHANGED serviceVars
  <2>1. UNCHANGED <<published, taskq, buffer, current, parked, outdated>>
    BY <1>12 DEF serviceVars, brokerVars, judgerVars
  <2>. QED  BY <1>1, <2>1, ClogKept DEF Line, Unacked
<1>. QED
  BY <1>1, <1>5, <1>6, <1>7, <1>8, <1>9, <1>10, <1>11, <1>12, <1>13, <1>14, <1>15
  DEF ServiceNext, JudgerNext, JudgerStep

\* Once unsupported tasks fill the window of a lone judger and no block of
\* a lost connection is left, nothing is answered any more, however often it is started again,
\* loses its connection, and however many tasks arrive (judger.rb:80, 92-113).
THEOREM WedgedForGoodHolds == ServiceSpec => WedgedForGood
<1>1. ServiceSpec => []Window
  BY WindowInit, WindowStep, PTL DEF ServiceSpec
<1>2. ASSUME NEW P \in SUBSET [req : Requests, verdict : Outcomes], NEW j \in Judgers
      PROVE  ServiceSpec =>
               []( /\ Judgers = {j} /\ Wedged(j) /\ Range(parked[j]) \subseteq Unsupported
                   /\ outdated[j] = <<>> /\ published = P
                   => [](published = P))
  <2>1. Window /\ Judgers = {j} /\ Wedged(j) /\ Range(parked[j]) \subseteq Unsupported
          /\ outdated[j] = <<>> /\ published = P
          => Clogged(P, j)
    BY WedgeClogs
  <2>2. Window /\ Clogged(P, j) /\ [ServiceNext]_serviceVars => Clogged(P, j)'
    BY ClogStep
  <2>3. Clogged(P, j) => published = P
    BY DEF Clogged
  <2>. QED  BY <1>1, <2>1, <2>2, <2>3, PTL DEF ServiceSpec
<1>. QED  BY <1>2 DEF WedgedForGood
=============================================================================
